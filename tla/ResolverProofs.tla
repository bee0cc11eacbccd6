--------------------------- MODULE ResolverProofs ---------------------------
(***************************************************************************)
(* For any number of workers, slots and addresses: no task waits for a     *)
(* worker that was not woken, no slot is written by two threads, the table *)
(* and the slots of domain.c agree, and what is shown is what NameCache    *)
(* promises.                                                               *)
(***************************************************************************)
EXTENDS Resolver, FiniteSetTheorems, TLAPS

\* The variables the proofs are about.
Typed ==
    /\ addr \in [Slot -> Addr \cup {NoAddr}]
    /\ status \in [Slot -> Status]
    /\ fqdn \in [Slot -> Addr \cup {NoAddr}]
    /\ ht \in [Addr -> Slot \cup {NoSlot}]
    /\ index \in Slot
    /\ lost \subseteq Slot
    /\ queue \in Seq(Slot)
    /\ wpc \in [Worker -> WorkerPc]
    /\ task \in [Worker -> Slot \cup {NoSlot}]
    /\ mpc \in MainPc

\* Whoever a slot is handed to is alone with it.
Claimed(s) == status[s] = "RESOLVING" /\ s \notin lost

QueueOwns ==
    /\ \A i \in 1..Len(queue) : Claimed(queue[i])
    /\ \A i, j \in 1..Len(queue) : queue[i] = queue[j] => i = j

WorkersOwn ==
    \A w \in Worker : task[w] # NoSlot =>
        /\ Claimed(task[w])
        /\ \A i \in 1..Len(queue) : queue[i] # task[w]
        /\ \A v \in Worker : task[v] = task[w] => v = w

MainOwns ==
    mpc = "add" =>
        /\ Claimed(index)
        /\ \A i \in 1..Len(queue) : queue[i] # index
        /\ \A w \in Worker : task[w] # index

\* A slot handed over is not forgotten.
Handed(s) ==
    \/ \E i \in 1..Len(queue) : queue[i] = s
    \/ \E w \in Worker : task[w] = s
    \/ mpc = "add" /\ index = s

ClaimsHeld == mpc \notin {"free", "done"} => \A s \in Slot : Claimed(s) => Handed(s)

\* Where a worker stands tells whether it has a task, and whether the name of
\* its slot is written.
WorkersStand ==
    \A w \in Worker :
        /\ task[w] # NoSlot => wpc[w] \in {"rearm", "unlock", "resolve", "publish"}
        /\ wpc[w] \in {"rearm", "resolve", "publish"} => task[w] # NoSlot
        /\ wpc[w] = "publish" => fqdn[task[w]] = addr[task[w]]

LostStay == \A s \in lost : status[s] = "RESOLVING"

SlotsUsed == \A s \in Slot : addr[s] = NoAddr <=> status[s] = "none"

\* The address that main is about to enter is not in the table.
NewUnlisted ==
    mpc \in {"add", "post", "set"} => addr[index] # NoAddr /\ ht[addr[index]] = NoSlot

Owned == QueueOwns /\ WorkersOwn /\ MainOwns /\ ClaimsHeld /\ WorkersStand /\ LostStay
Agreed == SlotsUsed /\ NewUnlisted /\ CacheConsistent

IInv == Typed /\ Owned /\ Agreed

LEMMA SlotType ==
    /\ Slot \subseteq Nat /\ NoSlot \notin Slot /\ 0 \in Slot
    /\ \A s \in Slot : (s + 1) % cache_size \in Slot
  BY ResolverAssumption DEF ResolverAssumption, Slot, NoSlot

LEMMA InitIInv == Init => IInv
<1> SUFFICES ASSUME Init PROVE IInv
  OBVIOUS
<1>1. Len(queue) = 0 /\ queue \in Seq(Slot)
  BY DEF Init
<1>2. Typed
  BY <1>1, SlotType DEF Init, Typed, Status, WorkerPc, MainPc
<1>3. Owned
  BY <1>1
     DEF Init, Owned, QueueOwns, WorkersOwn, MainOwns, ClaimsHeld, Claimed, WorkersStand,
         LostStay
<1>4. Agreed
  BY DEF Init, Agreed, SlotsUsed, NewUnlisted, CacheConsistent
<1> QED BY <1>2, <1>3, <1>4 DEF IInv

----------------------------------------------------------------------------
\* Steps that touch neither the cache nor the tasks, by which main neither
\* begins nor ends the entering of an address.
LEMMA QuietIInv ==
    ASSUME IInv, addr' = addr, status' = status, fqdn' = fqdn, ht' = ht, index' = index,
           lost' = lost, queue' = queue, task' = task,
           wpc' \in [Worker -> WorkerPc], mpc' \in MainPc, WorkersStand',
           mpc' = "add" <=> mpc = "add",
           mpc' \notin {"free", "done"} => mpc \notin {"free", "done"},
           mpc' \in {"add", "post", "set"} <=> mpc \in {"add", "post", "set"}
    PROVE  IInv'
<1>1. Typed'
  BY DEF IInv, Typed
<1>2. Owned'
  BY DEF IInv, Owned, QueueOwns, WorkersOwn, MainOwns, ClaimsHeld, Handed, LostStay, Claimed
<1>3. Agreed'
  BY DEF IInv, Agreed, SlotsUsed, NewUnlisted, CacheConsistent, Pending
<1> QED BY <1>1, <1>2, <1>3 DEF IInv

LEMMA MainQuietIInv ==
    ASSUME IInv, \/ \E a \in Addr : AskKnown(a) \/ AskBlocked(a)
                 \/ PostJob \/ ThpoolFree \/ JoinOne \/ AwaitExit \/ JoinDone \/ FreeHosts
    PROVE  IInv'
<1>1. /\ addr' = addr /\ status' = status /\ fqdn' = fqdn /\ ht' = ht /\ index' = index
      /\ lost' = lost /\ queue' = queue /\ task' = task /\ wpc' = wpc
  BY DEF AskKnown, AskBlocked, PostJob, ThpoolFree, JoinOne, AwaitExit, JoinDone, FreeHosts,
         cache, pool
<1>2. /\ mpc' \in MainPc /\ (mpc' = "add" <=> mpc = "add")
      /\ mpc' \notin {"free", "done"} => mpc \notin {"free", "done"}
      /\ mpc' \in {"add", "post", "set"} <=> mpc \in {"add", "post", "set"}
  BY DEF AskKnown, AskBlocked, PostJob, ThpoolFree, JoinOne, AwaitExit, JoinDone, FreeHosts,
         Join, MainPc, IInv, Typed
<1>3. wpc' \in [Worker -> WorkerPc] /\ WorkersStand'
  BY <1>1 DEF IInv, Typed, Owned, WorkersStand
<1> QED BY <1>1, <1>2, <1>3, QuietIInv

LEMMA WorkerQuietIInv ==
    ASSUME IInv, NEW w \in Worker,
           \/ Begin(w) \/ Check(w) \/ WaitJob(w) \/ Woken(w) \/ Rearm(w) \/ Unlock(w)
           \/ Leave(w) \/ SignalExit(w)
    PROVE  IInv'
<1>1. /\ addr' = addr /\ status' = status /\ fqdn' = fqdn /\ ht' = ht /\ index' = index
      /\ lost' = lost /\ queue' = queue /\ task' = task /\ mpc' = mpc
  BY DEF Begin, Check, WaitJob, Woken, Rearm, Unlock, Leave, SignalExit, cache
<1>2. PICK from \in WorkerPc, to \in WorkerPc :
          /\ Step(w, from, to)
          /\ from \in {"new", "check", "wait", "woken", "leave", "signal"} =>
                to \in {"check", "wait", "woken", "lock", "leave", "signal", "gone"}
          /\ from = "rearm" => to = "unlock"
          /\ from = "unlock" => to = IF task[w] = NoSlot THEN "check" ELSE "resolve"
          /\ from \notin {"lock", "resolve", "publish", "gone"}
  BY DEF Begin, Check, WaitJob, Woken, Rearm, Unlock, Leave, SignalExit, WorkerPc
<1>3. wpc[w] = from /\ wpc' = [wpc EXCEPT ![w] = to]
  BY <1>2 DEF Step
<1>4. wpc' \in [Worker -> WorkerPc]
  BY <1>3 DEF IInv, Typed
<1>5. WorkersStand'
  <2>1. WorkersStand /\ wpc \in [Worker -> WorkerPc]
    BY DEF IInv, Owned, Typed
  <2> SUFFICES ASSUME NEW v \in Worker
               PROVE  /\ task[v] # NoSlot => wpc'[v] \in {"rearm", "unlock", "resolve", "publish"}
                      /\ wpc'[v] \in {"rearm", "resolve", "publish"} => task[v] # NoSlot
                      /\ wpc'[v] = "publish" => fqdn[task[v]] = addr[task[v]]
    BY <1>1 DEF WorkersStand
  <2>2. CASE v # w
    BY <1>3, <2>1, <2>2 DEF WorkersStand
  <2>3. CASE v = w
    <3>1. wpc'[w] = to
      BY <1>3, <2>1
    <3> QED BY <1>2, <1>3, <2>1, <2>3, <3>1 DEF WorkersStand, WorkerPc
  <2> QED BY <2>2, <2>3
<1>6. mpc' \in MainPc
  BY <1>1 DEF IInv, Typed
<1> QED BY <1>1, <1>4, <1>5, <1>6, QuietIInv

----------------------------------------------------------------------------
\* Main reuses a slot, hands it over and enters it.
LEMMA AskMissIInv == ASSUME IInv, NEW a \in Addr, AskMiss(a) PROVE IInv'
<1>1. /\ mpc = "ui" /\ ht[a] = NoSlot /\ status[index] # "RESOLVING"
      /\ ht' = [b \in Addr |-> IF addr[index] = b THEN NoSlot ELSE ht[b]]
      /\ addr' = [addr EXCEPT ![index] = a]
      /\ status' = [status EXCEPT ![index] = "RESOLVING"]
      /\ mpc' = "add"
      /\ fqdn' = fqdn /\ index' = index /\ lost' = lost /\ queue' = queue /\ wpc' = wpc
      /\ task' = task
  BY DEF AskMiss, Reusable, Evict, pool
<1>2. Typed
  BY DEF IInv
<1>3. index \in Slot /\ NoSlot \notin Slot /\ NoAddr \notin Addr
  BY <1>2, SlotType, ResolverAssumption DEF ResolverAssumption, Typed
<1>4. /\ \A s \in Slot : addr'[s] = IF s = index THEN a ELSE addr[s]
      /\ \A s \in Slot : status'[s] = IF s = index THEN "RESOLVING" ELSE status[s]
      /\ \A b \in Addr : ht'[b] = IF addr[index] = b THEN NoSlot ELSE ht[b]
  BY <1>1, <1>2 DEF Typed
<1>5. Typed'
  BY <1>1, <1>2 DEF Typed, Status, MainPc
<1>6. \A i \in 1..Len(queue) : queue[i] \in Slot
  BY <1>2 DEF Typed
<1>7. Owned'
  <2>1. index \notin lost /\ \A s \in Slot : Claimed(s) => s # index /\ Claimed(s)'
    BY <1>1, <1>3, <1>4 DEF Claimed, IInv, Owned, LostStay
  <2>2. ClaimsHeld'
    BY <1>1, <1>4, <2>1 DEF IInv, Owned, ClaimsHeld, Handed, Claimed
  <2>3. QueueOwns' /\ MainOwns'
    BY <1>1, <1>2, <1>3, <1>4, <1>6, <2>1
       DEF IInv, Owned, QueueOwns, MainOwns, WorkersOwn, Claimed, Typed
  <2>4. WorkersOwn' /\ WorkersStand'
    BY <1>1, <1>2, <1>3, <1>4, <2>1 DEF IInv, Owned, WorkersOwn, WorkersStand, Typed
  <2>5. LostStay'
    BY <1>1, <1>2, <1>4 DEF IInv, Owned, LostStay, Typed
  <2> QED BY <2>2, <2>3, <2>4, <2>5 DEF Owned
<1>8. Agreed'
  <2>1. SlotsUsed' /\ NewUnlisted'
    <3>1. addr[index] # a
      BY <1>1, <1>3 DEF IInv, Agreed, SlotsUsed, CacheConsistent, Pending, Typed
    <3> QED BY <1>1, <1>3, <1>4, <3>1 DEF IInv, Agreed, SlotsUsed, NewUnlisted
  <2>2. \A b \in Addr : ht'[b] # NoSlot => addr'[ht'[b]] = b
    BY <1>2, <1>3, <1>4 DEF IInv, Agreed, CacheConsistent, Typed
  <2>3. \A s \in Slot : s # index /\ status[s] # "none" => ht'[addr[s]] = s
    <3> SUFFICES ASSUME NEW s \in Slot, s # index, status[s] # "none"
                 PROVE  ht'[addr[s]] = s
      OBVIOUS
    <3>1. ht[addr[s]] = s /\ addr[s] \in Addr
      BY <1>1, <1>2 DEF IInv, Agreed, SlotsUsed, CacheConsistent, Pending, Typed
    <3>2. addr[index] # addr[s]
      BY <1>1, <1>3, <3>1 DEF IInv, Agreed, SlotsUsed, CacheConsistent, Pending
    <3> QED BY <1>4, <3>1, <3>2
  <2>4. \A s \in Slot : status'[s] # "none" /\ ~Pending(s)' => ht'[addr'[s]] = s
    BY <1>1, <1>4, <2>3 DEF Pending
  <2>5. \A s \in Slot : status'[s] = "RESOLVED" => fqdn'[s] = addr'[s]
    BY <1>1, <1>4 DEF IInv, Agreed, CacheConsistent
  <2> QED BY <2>1, <2>2, <2>4, <2>5 DEF Agreed, CacheConsistent
<1> QED BY <1>5, <1>7, <1>8 DEF IInv

LEMMA AddTaskIInv == ASSUME IInv, AddTask PROVE IInv'
<1>1. /\ mpc = "add" /\ mpc' = "post" /\ queue' = Append(queue, index)
      /\ addr' = addr /\ status' = status /\ fqdn' = fqdn /\ ht' = ht /\ index' = index
      /\ lost' = lost /\ task' = task /\ wpc' = wpc
  BY DEF AddTask, cache
<1>2. Typed
  BY DEF IInv
<1>3. Typed'
  BY <1>1, <1>2 DEF Typed, MainPc
<1>4. /\ Len(queue') = Len(queue) + 1 /\ Len(queue) \in Nat
      /\ queue'[Len(queue) + 1] = index
      /\ \A i \in 1..Len(queue) : queue'[i] = queue[i]
  BY <1>1, <1>2 DEF Typed
<1>5. Claimed(index) /\ (\A i \in 1..Len(queue) : queue[i] # index)
      /\ (\A w \in Worker : task[w] # index)
  BY <1>1 DEF IInv, Owned, MainOwns
<1>6. QueueOwns'
  BY <1>1, <1>4, <1>5 DEF IInv, Owned, QueueOwns, Claimed
<1>7. WorkersOwn'
  BY <1>1, <1>4, <1>5 DEF IInv, Owned, WorkersOwn, Claimed
<1>8. ClaimsHeld'
  BY <1>1, <1>4 DEF IInv, Owned, ClaimsHeld, Handed, Claimed
<1>9. Owned'
  BY <1>1, <1>6, <1>7, <1>8 DEF IInv, Owned, MainOwns, WorkersStand, LostStay
<1>10. Agreed'
  BY <1>1 DEF IInv, Agreed, SlotsUsed, NewUnlisted, CacheConsistent, Pending
<1> QED BY <1>3, <1>9, <1>10 DEF IInv

LEMMA AddTaskFailsIInv == ASSUME IInv, AddTaskFails PROVE IInv'
<1>1. /\ mpc = "add" /\ mpc' = "set" /\ lost' = lost \cup {index}
      /\ addr' = addr /\ status' = status /\ fqdn' = fqdn /\ ht' = ht /\ index' = index
      /\ queue' = queue /\ task' = task /\ wpc' = wpc
  BY DEF AddTaskFails, pool
<1>2. Typed'
  BY <1>1 DEF IInv, Typed, MainPc
<1>3. status[index] = "RESOLVING" /\ (\A i \in 1..Len(queue) : queue[i] # index)
      /\ (\A w \in Worker : task[w] # index)
  BY <1>1 DEF IInv, Owned, MainOwns, Claimed
<1>4. Owned'
  BY <1>1, <1>3
     DEF IInv, Owned, QueueOwns, WorkersOwn, MainOwns, ClaimsHeld, Handed, WorkersStand,
         LostStay, Claimed
<1>5. Agreed'
  BY <1>1 DEF IInv, Agreed, SlotsUsed, NewUnlisted, CacheConsistent, Pending
<1> QED BY <1>2, <1>4, <1>5 DEF IInv

LEMMA SetHostIInv == ASSUME IInv, SetHost PROVE IInv'
<1>1. /\ mpc = "set" /\ mpc' = "ui" /\ ht' = [ht EXCEPT ![addr[index]] = index]
      /\ index' = (index + 1) % cache_size
      /\ addr' = addr /\ status' = status /\ fqdn' = fqdn /\ lost' = lost
      /\ queue' = queue /\ task' = task /\ wpc' = wpc
  BY DEF SetHost, pool
<1>2. Typed /\ index \in Slot /\ NoSlot \notin Slot /\ NoAddr \notin Addr
  BY SlotType, ResolverAssumption DEF ResolverAssumption, IInv, Typed
<1>3. addr[index] \in Addr /\ ht[addr[index]] = NoSlot
  BY <1>1, <1>2 DEF IInv, Agreed, NewUnlisted, Typed
<1>4. Typed'
  BY <1>1, <1>2, <1>3, SlotType DEF Typed, MainPc
<1>5. Owned'
  BY <1>1
     DEF IInv, Owned, QueueOwns, WorkersOwn, MainOwns, ClaimsHeld, Handed, WorkersStand,
         LostStay, Claimed
<1>6. \A b \in Addr : ht'[b] = IF b = addr[index] THEN index ELSE ht[b]
  BY <1>1, <1>2 DEF Typed
<1>7. \A b \in Addr : ht'[b] # NoSlot => addr'[ht'[b]] = b
  BY <1>1, <1>3, <1>6 DEF IInv, Agreed, CacheConsistent
<1>8. \A s \in Slot : status[s] # "none" => ht'[addr[s]] = s
  <2> SUFFICES ASSUME NEW s \in Slot, status[s] # "none" PROVE ht'[addr[s]] = s
    OBVIOUS
  <2>1. addr[s] \in Addr
    BY <1>2 DEF IInv, Agreed, SlotsUsed, Typed
  <2>2. CASE s = index
    BY <1>3, <1>6, <2>2
  <2>3. CASE s # index
    <3>1. ht[addr[s]] = s
      BY <2>3 DEF IInv, Agreed, CacheConsistent, Pending
    <3> QED BY <1>2, <1>3, <1>6, <2>1, <3>1
  <2> QED BY <2>2, <2>3
<1>9. Agreed'
  BY <1>1, <1>7, <1>8 DEF IInv, Agreed, SlotsUsed, NewUnlisted, CacheConsistent
<1> QED BY <1>4, <1>5, <1>9 DEF IInv

----------------------------------------------------------------------------
\* A worker takes a task over from the queue, writes the name, gives the slot
\* back.
LEMMA DequeueIInv == ASSUME IInv, NEW w \in Worker, Dequeue(w) PROVE IInv'
<1>1. /\ wpc[w] = "lock"
      /\ addr' = addr /\ status' = status /\ fqdn' = fqdn /\ ht' = ht /\ index' = index
      /\ lost' = lost /\ mpc' = mpc
  BY DEF Dequeue, cache
<1>2. Typed /\ NoSlot \notin Slot
  BY SlotType DEF IInv
<1>3. task[w] = NoSlot
  BY <1>1 DEF IInv, Owned, WorkersStand
<1>4. CASE queue = <<>>
  <2>1. queue' = queue /\ task' = task /\ wpc' = [wpc EXCEPT ![w] = "unlock"]
    BY <1>4 DEF Dequeue, Step
  <2>2. wpc' \in [Worker -> WorkerPc] /\ mpc' \in MainPc
    BY <1>1, <1>2, <2>1 DEF Typed, WorkerPc
  <2>3. WorkersStand'
    BY <1>1, <1>2, <1>3, <2>1 DEF IInv, Owned, WorkersStand, Typed
  <2> QED BY <1>1, <2>1, <2>2, <2>3, QuietIInv
<1>5. CASE queue # <<>>
  <2>1. PICK to \in {"unlock", "rearm"} :
            /\ wpc' = [wpc EXCEPT ![w] = to]
            /\ task' = [task EXCEPT ![w] = Head(queue)]
            /\ queue' = Tail(queue)
    BY <1>5 DEF Dequeue, Step
  <2>2. /\ Len(queue) \in Nat \ {0} /\ Head(queue) = queue[1] /\ Head(queue) \in Slot
        /\ Tail(queue) \in Seq(Slot)
        /\ Len(Tail(queue)) = Len(queue) - 1
        /\ \A i \in 1..Len(Tail(queue)) : Tail(queue)[i] = queue[i + 1] /\ i + 1 \in 1..Len(queue)
    BY <1>2, <1>5 DEF Typed
  <2>3. /\ \A v \in Worker : task'[v] = IF v = w THEN queue[1] ELSE task[v]
        /\ \A v \in Worker : wpc'[v] = IF v = w THEN to ELSE wpc[v]
    BY <1>2, <2>1, <2>2 DEF Typed
  <2>4. Typed'
    BY <1>1, <1>2, <2>1, <2>2 DEF Typed, WorkerPc
  <2>5. /\ Claimed(queue[1])
        /\ \A i \in 1..Len(queue) : queue[i] = queue[1] => i = 1
        /\ \A v \in Worker : task[v] # queue[1]
    <3>1. 1 \in 1..Len(queue) /\ queue[1] # NoSlot
      BY <1>2, <2>2
    <3> QED BY <3>1 DEF IInv, Owned, QueueOwns, WorkersOwn
  <2>6. QueueOwns'
    BY <1>1, <2>1, <2>2 DEF IInv, Owned, QueueOwns, Claimed
  <2>7. WorkersOwn'
    <3> SUFFICES ASSUME NEW v \in Worker, task'[v] # NoSlot
                 PROVE  /\ Claimed(task'[v])
                        /\ \A i \in 1..Len(queue') : queue'[i] # task'[v]
                        /\ \A u \in Worker : task'[u] = task'[v] => u = v
      BY <1>1 DEF WorkersOwn, Claimed
    <3>1. CASE v = w
      BY <2>1, <2>2, <2>3, <2>5, <3>1
    <3>2. CASE v # w
      BY <2>1, <2>2, <2>3, <2>5, <3>2 DEF IInv, Owned, WorkersOwn
    <3> QED BY <3>1, <3>2
  <2>8. MainOwns'
    BY <1>1, <2>1, <2>2, <2>3 DEF IInv, Owned, MainOwns, Claimed
  <2>9. WorkersStand'
    BY <1>1, <1>2, <2>2, <2>3 DEF IInv, Owned, WorkersStand
  <2>10. ClaimsHeld'
    <3> SUFFICES ASSUME mpc \notin {"free", "done"}, NEW s \in Slot, Claimed(s)
                 PROVE  Handed(s)'
      BY <1>1 DEF ClaimsHeld, Claimed
    <3>1. CASE \E i \in 1..Len(queue) : queue[i] = s
      <4>1. PICK i \in 1..Len(queue) : queue[i] = s
        BY <3>1
      <4>2. CASE i = 1
        BY <2>3, <4>1, <4>2 DEF Handed
      <4>3. CASE i # 1
        <5>1. i - 1 \in 1..Len(queue') /\ queue'[i - 1] = s
          BY <2>1, <2>2, <4>1, <4>3
        <5> QED BY <5>1 DEF Handed
      <4> QED BY <4>2, <4>3
    <3>2. CASE \E v \in Worker : task[v] = s
      BY <1>2, <1>3, <2>3, <3>2 DEF Handed
    <3>3. CASE mpc = "add" /\ index = s
      BY <1>1, <3>3 DEF Handed
    <3> QED BY <3>1, <3>2, <3>3 DEF IInv, Owned, ClaimsHeld, Handed
  <2>11. LostStay' /\ Agreed'
    BY <1>1 DEF IInv, Owned, LostStay, Agreed, SlotsUsed, NewUnlisted, CacheConsistent, Pending
  <2> QED BY <2>4, <2>6, <2>7, <2>8, <2>9, <2>10, <2>11 DEF IInv, Owned
<1> QED BY <1>4, <1>5

LEMMA ResolveIInv == ASSUME IInv, NEW w \in Worker, Resolve(w) PROVE IInv'
<1>1. /\ wpc[w] = "resolve" /\ wpc' = [wpc EXCEPT ![w] = "publish"]
      /\ fqdn' = [fqdn EXCEPT ![task[w]] = addr[task[w]]]
      /\ addr' = addr /\ status' = status /\ ht' = ht /\ index' = index /\ lost' = lost
      /\ queue' = queue /\ task' = task /\ mpc' = mpc
  BY DEF Resolve, Step
<1>2. Typed
  BY DEF IInv
<1>3. task[w] \in Slot
  BY <1>1, <1>2 DEF IInv, Owned, WorkersStand, Typed
<1>4. /\ \A s \in Slot : fqdn'[s] = IF s = task[w] THEN addr[s] ELSE fqdn[s]
      /\ \A v \in Worker : wpc'[v] = IF v = w THEN "publish" ELSE wpc[v]
  BY <1>1, <1>2, <1>3 DEF Typed
<1>5. Typed'
  BY <1>1, <1>2, <1>3 DEF Typed, WorkerPc
<1>6. WorkersStand'
  BY <1>1, <1>2, <1>3, <1>4 DEF IInv, Owned, WorkersStand, Typed
<1>7. Owned'
  BY <1>1, <1>6
     DEF IInv, Owned, QueueOwns, WorkersOwn, MainOwns, ClaimsHeld, Handed, LostStay, Claimed
<1>8. Agreed'
  BY <1>1, <1>4 DEF IInv, Agreed, SlotsUsed, NewUnlisted, CacheConsistent, Pending
<1> QED BY <1>5, <1>7, <1>8 DEF IInv

LEMMA PublishIInv == ASSUME IInv, NEW w \in Worker, Publish(w) PROVE IInv'
<1>1. /\ wpc[w] = "publish" /\ wpc' = [wpc EXCEPT ![w] = "check"]
      /\ status' = [status EXCEPT ![task[w]] = "RESOLVED"]
      /\ task' = [task EXCEPT ![w] = NoSlot]
      /\ addr' = addr /\ fqdn' = fqdn /\ ht' = ht /\ index' = index /\ lost' = lost
      /\ queue' = queue /\ mpc' = mpc
  BY DEF Publish, Step
<1>2. Typed /\ NoSlot \notin Slot
  BY SlotType DEF IInv
<1>3. /\ task[w] \in Slot /\ Claimed(task[w]) /\ fqdn[task[w]] = addr[task[w]]
      /\ \A i \in 1..Len(queue) : queue[i] # task[w]
      /\ \A v \in Worker : task[v] = task[w] => v = w
      /\ mpc = "add" => index # task[w]
  BY <1>1, <1>2 DEF IInv, Owned, WorkersStand, WorkersOwn, MainOwns, Typed
<1>4. /\ \A s \in Slot : status'[s] = IF s = task[w] THEN "RESOLVED" ELSE status[s]
      /\ \A v \in Worker : task'[v] = IF v = w THEN NoSlot ELSE task[v]
      /\ \A v \in Worker : wpc'[v] = IF v = w THEN "check" ELSE wpc[v]
  BY <1>1, <1>2, <1>3 DEF Typed
<1>5. Typed'
  BY <1>1, <1>2, <1>3 DEF Typed, WorkerPc, Status
<1>6. \A s \in Slot : s # task[w] /\ Claimed(s) => Claimed(s)'
  BY <1>1, <1>4 DEF Claimed
<1>7. QueueOwns'
  BY <1>1, <1>2, <1>3, <1>6 DEF IInv, Owned, QueueOwns, Typed
<1>8. WorkersOwn'
  BY <1>1, <1>2, <1>3, <1>4, <1>6 DEF IInv, Owned, WorkersOwn, Typed
<1>9. MainOwns'
  BY <1>1, <1>2, <1>3, <1>4, <1>6 DEF IInv, Owned, MainOwns, Typed
<1>10. WorkersStand'
  BY <1>1, <1>4 DEF IInv, Owned, WorkersStand
<1>11. LostStay'
  BY <1>1, <1>2, <1>3, <1>4 DEF IInv, Owned, LostStay, Claimed, Typed
<1>12. Agreed'
  BY <1>1, <1>2, <1>3, <1>4
     DEF IInv, Agreed, SlotsUsed, NewUnlisted, CacheConsistent, Pending, Claimed, Typed
<1>13. ClaimsHeld'
  BY <1>1, <1>4 DEF IInv, Owned, ClaimsHeld, Handed, Claimed
<1> QED BY <1>5, <1>7, <1>8, <1>9, <1>10, <1>11, <1>12, <1>13 DEF IInv, Owned

LEMMA DestroyQueueIInv == ASSUME IInv, DestroyQueue PROVE IInv'
<1>1. /\ mpc = "destroy" /\ mpc' = "free" /\ queue' = <<>>
      /\ addr' = addr /\ status' = status /\ fqdn' = fqdn /\ ht' = ht /\ index' = index
      /\ lost' = lost /\ task' = task /\ wpc' = wpc
  BY DEF DestroyQueue, cache
<1>2. queue' \in Seq(Slot) /\ Len(queue') = 0
  BY <1>1
<1>3. Typed'
  BY <1>1, <1>2 DEF IInv, Typed, MainPc
<1>4. Owned'
  BY <1>1, <1>2
     DEF IInv, Owned, QueueOwns, WorkersOwn, MainOwns, ClaimsHeld, WorkersStand, LostStay,
         Claimed
<1>5. Agreed'
  BY <1>1 DEF IInv, Agreed, SlotsUsed, NewUnlisted, CacheConsistent, Pending
<1> QED BY <1>3, <1>4, <1>5 DEF IInv

LEMMA NextIInv == ASSUME IInv, [Next]_vars PROVE IInv'
<1>1. ASSUME NEW a \in Addr, Ask(a) PROVE IInv'
  BY <1>1, AskMissIInv, MainQuietIInv DEF Ask
<1>2. CASE ThpoolFree
  BY <1>2, MainQuietIInv
<1>3. CASE MainStep
  BY <1>3, AddTaskIInv, AddTaskFailsIInv, SetHostIInv, DestroyQueueIInv, MainQuietIInv
     DEF MainStep
<1>4. ASSUME NEW w \in Worker, WorkerStep(w) PROVE IInv'
  BY <1>4, DequeueIInv, ResolveIInv, PublishIInv, WorkerQuietIInv DEF WorkerStep
<1>5. CASE UNCHANGED vars
  <2>1. /\ addr' = addr /\ status' = status /\ fqdn' = fqdn /\ ht' = ht /\ index' = index
        /\ lost' = lost /\ queue' = queue /\ task' = task /\ wpc' = wpc /\ mpc' = mpc
    BY <1>5 DEF vars, cache, pool
  <2>2. wpc' \in [Worker -> WorkerPc] /\ mpc' \in MainPc /\ WorkersStand'
    BY <2>1 DEF IInv, Typed, Owned, WorkersStand
  <2> QED BY <2>1, <2>2, QuietIInv
<1> QED BY <1>1, <1>2, <1>3, <1>4, <1>5 DEF Next, Terminated

LEMMA Inductive == Spec => []IInv
<1> QED BY InitIInv, NextIInv, PTL DEF Spec

\* Whatever is asked for and however the workers are interleaved, an address
\* leads to the slot that holds it, and a slot said to be resolved has the name
\* of its own address (ip2domain and ip2domain_exec of domain.c).
THEOREM TableAndSlotsAgree == Spec => []CacheConsistent
<1>1. IInv => CacheConsistent
  BY DEF IInv, Agreed
<1> QED BY <1>1, Inductive, PTL

----------------------------------------------------------------------------
\* The semaphore: a task in the queue has a wake-up that is still to be used.
LEMMA NoLostTaskKept == ASSUME Typed, NoLostTask, [Next]_vars PROVE NoLostTask'
<1> USE DEF NoLostTask
<1>1. ASSUME NEW a \in Addr, Ask(a) PROVE NoLostTask'
  <2>1. queue' = queue /\ worker_stop' = worker_stop /\ jobs' = jobs /\ wpc' = wpc
        /\ mpc # "post"
    BY <1>1 DEF Ask, AskKnown, AskBlocked, AskMiss, pool
  <2> QED BY <2>1
<1>2. CASE ThpoolFree
  BY <1>2 DEF ThpoolFree
<1>3. CASE MainStep
  <2>1. CASE AddTask \/ PostJob \/ JoinOne \/ DestroyQueue
    BY <2>1 DEF AddTask, PostJob, JoinOne, PostAll, DestroyQueue
  <2>2. CASE AddTaskFails \/ SetHost \/ AwaitExit \/ JoinDone \/ FreeHosts
    BY <2>2 DEF AddTaskFails, SetHost, AwaitExit, JoinDone, FreeHosts, pool
  <2> QED BY <1>3, <2>1, <2>2 DEF MainStep
<1>4. ASSUME NEW w \in Worker, WorkerStep(w) PROVE NoLostTask'
  <2>1. wpc \in [Worker -> WorkerPc] /\ queue \in Seq(Slot)
    BY DEF Typed
  <2>2. CASE Begin(w) \/ Check(w) \/ Unlock(w) \/ Resolve(w) \/ Publish(w) \/ Leave(w)
             \/ SignalExit(w)
    <3>1. /\ queue' = queue /\ worker_stop' = worker_stop /\ jobs' = jobs /\ mpc' = mpc
          /\ \E to \in WorkerPc : wpc' = [wpc EXCEPT ![w] = to]
          /\ wpc[w] \notin {"woken", "lock", "rearm"}
      BY <2>2 DEF Begin, Check, Unlock, Resolve, Publish, Leave, SignalExit, Step, WorkerPc
    <3> QED BY <2>1, <3>1
  <2>3. CASE WaitJob(w) \/ Rearm(w)
    BY <2>1, <2>3 DEF WaitJob, Rearm, Step
  <2>4. CASE Woken(w)
    <3>1. queue' = queue /\ worker_stop' = worker_stop /\ jobs' = jobs /\ mpc' = mpc
      BY <2>4 DEF Woken
    <3>2. ~worker_stop => wpc' = [wpc EXCEPT ![w] = "lock"]
      BY <2>4 DEF Woken, Step
    <3> QED BY <2>1, <3>1, <3>2
  <2>5. CASE Dequeue(w)
    <3>1. queue' = <<>> \/ wpc' = [wpc EXCEPT ![w] = "rearm"]
      BY <2>5 DEF Dequeue, Step
    <3> QED BY <2>1, <3>1
  <2> QED BY <1>4, <2>2, <2>3, <2>4, <2>5 DEF WorkerStep
<1>5. CASE UNCHANGED vars
  BY <1>5 DEF vars, pool
<1> QED BY <1>1, <1>2, <1>3, <1>4, <1>5 DEF Next, Terminated

\* A semaphore that counts to one loses posts, and no task for it: the worker
\* that takes one of several posts again under the lock (th_worker, jobqueue).
THEOREM NoneStranded == Spec => []NoLostTask
<1>1. Init => NoLostTask
  BY DEF Init, NoLostTask
<1>2. IInv /\ NoLostTask /\ [Next]_vars => NoLostTask'
  BY NoLostTaskKept DEF IInv
<1> QED BY <1>1, <1>2, Inductive, PTL DEF Spec

----------------------------------------------------------------------------
\* The pool: how many workers live, and what the clean-up knows of them.
Alive == {w \in Worker : wpc[w] \notin {"new", "signal", "gone"}}
Gone  == {w \in Worker : wpc[w] = "gone"}

PoolTyped ==
    /\ answer \in [of : Addr, got : Addr \cup {NoAddr}]
    /\ mutex \in Worker \cup {Main, Nobody}
    /\ jobs \in BOOLEAN /\ exits \in BOOLEAN /\ worker_stop \in BOOLEAN
    /\ workers_alive = Cardinality(Alive)
    /\ wait \in 0..DEFAULT_NUM_WORKERS

\* Nobody leaves before being told to, and no exit was signalled before.
ToldFirst ==
    /\ worker_stop <=> mpc \notin {"ui", "add", "post", "set"}
    /\ ~worker_stop => ~exits /\ \A w \in Worker : wpc[w] \notin {"leave", "signal", "gone"}

\* Every exit waited for, and the one signalled, is of another worker.
ExitsCounted ==
    mpc \in {"join", "await"} =>
        DEFAULT_NUM_WORKERS + (IF exits THEN 1 ELSE 0)
            <= Cardinality(Gone) + wait + (IF mpc = "await" THEN 1 ELSE 0)

\* After the waiting a worker has work before it only if DEFAULT_NUM_WORKERS others
\* are gone: one that begins only now is told to stop at once.
OnlyLeaving ==
    mpc \in {"destroy", "free", "done"} =>
        \/ DEFAULT_NUM_WORKERS <= Cardinality(Gone)
        \/ \A w \in Worker : wpc[w] \in {"new", "check", "leave", "signal", "gone"}

PoolInv == PoolTyped /\ ToldFirst /\ ExitsCounted /\ OnlyLeaving

LEMMA Counting ==
    /\ IsFiniteSet(Worker) /\ Cardinality(Worker) \in Nat
    /\ IsFiniteSet(Alive) /\ Cardinality(Alive) \in Nat
    /\ IsFiniteSet(Gone) /\ Cardinality(Gone) \in Nat
    /\ Cardinality(Gone) <= Cardinality(Worker)
    /\ Cardinality(Gone) = Cardinality(Worker) => Gone = Worker
    /\ Cardinality(Alive) = 0 => Alive = {}
<1>1. IsFiniteSet(Worker)
  BY ResolverAssumption DEF ResolverAssumption
<1>2. Alive \in SUBSET Worker /\ Gone \in SUBSET Worker
  BY DEF Alive, Gone
<1>3. IsFiniteSet(Alive)
  BY <1>1, <1>2, FS_Subset
<1>4. IsFiniteSet(Gone) /\ Cardinality(Gone) <= Cardinality(Worker)
      /\ (Cardinality(Gone) = Cardinality(Worker) => Gone = Worker)
  BY <1>1, <1>2, FS_Subset
<1>5. Cardinality(Worker) \in Nat /\ Cardinality(Alive) \in Nat /\ Cardinality(Gone) \in Nat
  BY <1>1, <1>3, <1>4, FS_CardinalityType
<1>6. Cardinality(Alive) = 0 => Alive = {}
  BY <1>3, FS_EmptySet
<1> QED BY <1>1, <1>3, <1>4, <1>5, <1>6

\* One worker moves: the counts change by its own place in them.
LEMMA Moves ==
    ASSUME Typed, NEW w \in Worker, NEW to \in WorkerPc, wpc' = [wpc EXCEPT ![w] = to]
    PROVE  /\ Cardinality(Alive)' = Cardinality(Alive)
                  + (IF to \in {"new", "signal", "gone"} THEN 0 ELSE 1)
                  - (IF wpc[w] \in {"new", "signal", "gone"} THEN 0 ELSE 1)
           /\ Cardinality(Gone)' = Cardinality(Gone)
                  + (IF to = "gone" THEN 1 ELSE 0)
                  - (IF wpc[w] = "gone" THEN 1 ELSE 0)
<1>1. \A v \in Worker : wpc'[v] = IF v = w THEN to ELSE wpc[v]
  BY DEF Typed
<1>2. Alive' = IF to \in {"new", "signal", "gone"} THEN Alive \ {w} ELSE Alive \cup {w}
  BY <1>1 DEF Alive
<1>3. Gone' = IF to = "gone" THEN Gone \cup {w} ELSE Gone \ {w}
  BY <1>1 DEF Gone
<1>4. /\ w \in Alive <=> wpc[w] \notin {"new", "signal", "gone"}
      /\ w \in Gone <=> wpc[w] = "gone"
  BY DEF Alive, Gone
<1>5. /\ Cardinality(Alive \cup {w}) = IF w \in Alive THEN Cardinality(Alive)
                                      ELSE Cardinality(Alive) + 1
      /\ Cardinality(Alive \ {w}) = IF w \in Alive THEN Cardinality(Alive) - 1
                                   ELSE Cardinality(Alive)
  BY Counting, FS_AddElement, FS_RemoveElement
<1>6. /\ Cardinality(Gone \cup {w}) = IF w \in Gone THEN Cardinality(Gone)
                                     ELSE Cardinality(Gone) + 1
      /\ Cardinality(Gone \ {w}) = IF w \in Gone THEN Cardinality(Gone) - 1
                                  ELSE Cardinality(Gone)
  BY Counting, FS_AddElement, FS_RemoveElement
<1>7. Cardinality(Alive)' = Cardinality(Alive') /\ Cardinality(Gone)' = Cardinality(Gone')
  OBVIOUS
<1>8. Cardinality(Alive) \in Nat /\ Cardinality(Gone) \in Nat
  BY Counting
<1>9. /\ Cardinality(Alive') = IF to \in {"new", "signal", "gone"}
            THEN IF w \in Alive THEN Cardinality(Alive) - 1 ELSE Cardinality(Alive)
            ELSE IF w \in Alive THEN Cardinality(Alive) ELSE Cardinality(Alive) + 1
      /\ Cardinality(Gone') = IF to = "gone"
            THEN IF w \in Gone THEN Cardinality(Gone) ELSE Cardinality(Gone) + 1
            ELSE IF w \in Gone THEN Cardinality(Gone) - 1 ELSE Cardinality(Gone)
  BY <1>2, <1>3, <1>5, <1>6
<1> QED BY <1>4, <1>7, <1>8, <1>9

LEMMA InitPool == Init => PoolInv
<1> SUFFICES ASSUME Init PROVE PoolInv
  OBVIOUS
<1>1. Alive = {} /\ Cardinality({}) = 0
  BY FS_EmptySet DEF Init, Alive
<1>2. PoolTyped
  <2>1. answer \in [of : Addr, got : Addr \cup {NoAddr}]
    BY DEF Init, Text
  <2>2. workers_alive = Cardinality(Alive)
    BY <1>1 DEF Init
  <2>3. wait \in 0..DEFAULT_NUM_WORKERS
    BY ResolverAssumption DEF Init, ResolverAssumption
  <2> QED BY <2>1, <2>2, <2>3 DEF Init, PoolTyped
<1>3. ToldFirst /\ ExitsCounted /\ OnlyLeaving
  BY DEF Init, ToldFirst, ExitsCounted, OnlyLeaving
<1> QED BY <1>2, <1>3 DEF PoolInv

\* Steps that leave the pool and the way to its end alone.
LEMMA PoolStable ==
    ASSUME PoolInv, UNCHANGED <<exits, worker_stop, workers_alive, wpc, wait>>,
           answer' \in [of : Addr, got : Addr \cup {NoAddr}],
           mutex' \in Worker \cup {Main, Nobody}, jobs' \in BOOLEAN,
           \/ mpc' = mpc
           \/ {mpc, mpc'} \subseteq {"ui", "add", "post", "set"}
           \/ {mpc, mpc'} \subseteq {"destroy", "free", "done"}
    PROVE  PoolInv'
<1>1. Alive' = Alive /\ Gone' = Gone
  BY DEF Alive, Gone
<1>2. PoolTyped'
  BY <1>1 DEF PoolInv, PoolTyped
<1>3. ToldFirst'
  BY DEF PoolInv, ToldFirst
<1>4. ExitsCounted' /\ OnlyLeaving'
  BY <1>1 DEF PoolInv, ExitsCounted, OnlyLeaving
<1> QED BY <1>2, <1>3, <1>4 DEF PoolInv

LEMMA MainPool ==
    ASSUME Typed, PoolInv, ThpoolFree \/ MainStep \/ \E a \in Addr : Ask(a)
    PROVE  PoolInv'
<1> USE DEF PoolInv
<1>1. CASE \E a \in Addr : Ask(a)
  <2>1. UNCHANGED <<exits, worker_stop, workers_alive, wpc, wait>>
        /\ mutex' = mutex /\ jobs' = jobs
        /\ {mpc, mpc'} \subseteq {"ui", "add", "post", "set"}
    BY <1>1 DEF Ask, AskKnown, AskBlocked, AskMiss, pool
  <2>2. answer' \in [of : Addr, got : Addr \cup {NoAddr}]
    <3>1. PICK a \in Addr : Ask(a)
      BY <1>1
    <3>2. answer' = Text(a) \/ (ht[a] # NoSlot /\ answer' = Name(a, ht[a]))
      BY <3>1 DEF Ask, AskKnown, AskBlocked, AskMiss
    <3> QED BY <3>2 DEF Text, Name, Typed
  <2> QED BY <2>1, <2>2, PoolStable DEF PoolTyped
<1>2. CASE AddTask \/ PostJob \/ AddTaskFails \/ SetHost \/ DestroyQueue \/ FreeHosts
  <2>1. UNCHANGED <<exits, worker_stop, workers_alive, wpc, wait>> /\ answer' = answer
        /\ \/ {mpc, mpc'} \subseteq {"ui", "add", "post", "set"}
           \/ {mpc, mpc'} \subseteq {"destroy", "free", "done"}
    BY <1>2 DEF AddTask, PostJob, AddTaskFails, SetHost, DestroyQueue, FreeHosts, cache, pool
  <2>2. mutex' \in {mutex, Main, Nobody} /\ jobs' \in {jobs, TRUE}
    BY <1>2 DEF AddTask, PostJob, AddTaskFails, SetHost, DestroyQueue, FreeHosts, pool
  <2> QED BY <2>1, <2>2, PoolStable DEF PoolTyped
<1>3. CASE ThpoolFree \/ JoinOne \/ AwaitExit \/ JoinDone
  <2>1. /\ answer' = answer /\ mutex' = mutex /\ wpc' = wpc /\ workers_alive' = workers_alive
        /\ jobs' \in {jobs, TRUE} /\ exits' \in {exits, FALSE}
        /\ worker_stop' \in {worker_stop, TRUE}
    BY <1>3 DEF ThpoolFree, JoinOne, AwaitExit, JoinDone, PostAll, cache, pool
  <2>2. Alive' = Alive /\ Gone' = Gone /\ Cardinality(Alive)' = Cardinality(Alive)
        /\ Cardinality(Gone)' = Cardinality(Gone)
    BY <2>1 DEF Alive, Gone
  <2>3. /\ DEFAULT_NUM_WORKERS \in Nat /\ wait \in Nat /\ Cardinality(Gone) \in Nat
    BY Counting, ResolverAssumption DEF ResolverAssumption, PoolTyped
  <2>4. PoolTyped'
    <3>1. wait' \in 0..DEFAULT_NUM_WORKERS
      BY <1>3, <2>3 DEF PoolTyped, ThpoolFree, JoinOne, AwaitExit, JoinDone, Join, pool
    <3> QED BY <2>1, <2>2, <3>1 DEF PoolTyped
  <2>5. ToldFirst'
    <3>1. CASE ThpoolFree
      BY <3>1 DEF ToldFirst, ThpoolFree
    <3>2. CASE JoinOne \/ AwaitExit \/ JoinDone
      <4>1. worker_stop /\ worker_stop' = worker_stop /\ mpc' \in {"await", "join", "destroy"}
        BY <3>2 DEF ToldFirst, JoinOne, AwaitExit, JoinDone, Join, pool
      <4> QED BY <4>1 DEF ToldFirst
    <3> QED BY <1>3, <3>1, <3>2
  <2>6. ExitsCounted'
    <3>1. CASE ThpoolFree
      <4>1. ~exits /\ exits' = exits /\ wait' = DEFAULT_NUM_WORKERS /\ mpc' = "join"
        BY <3>1 DEF ThpoolFree, ToldFirst
      <4> QED BY <2>2, <2>3, <4>1 DEF ExitsCounted
    <3>2. CASE JoinOne
      <4>1. mpc = "join" /\ mpc' = "await" /\ wait' = wait - 1 /\ exits' = exits
        BY <3>2 DEF JoinOne, Join
      <4> QED BY <2>2, <2>3, <4>1 DEF ExitsCounted
    <3>3. CASE AwaitExit
      <4>1. mpc = "await" /\ mpc' = "join" /\ wait' = wait /\ exits /\ ~exits'
        BY <3>3 DEF AwaitExit
      <4> QED BY <2>2, <2>3, <4>1 DEF ExitsCounted
    <3>4. CASE JoinDone
      BY <3>4 DEF JoinDone, ExitsCounted
    <3> QED BY <1>3, <3>1, <3>2, <3>3, <3>4
  <2>7. OnlyLeaving'
    <3>1. CASE JoinDone
      <4> SUFFICES ASSUME DEFAULT_NUM_WORKERS > Cardinality(Gone), NEW w \in Worker
                   PROVE  wpc[w] \in {"new", "check", "leave", "signal", "gone"}
        BY <2>1, <2>2, <2>3 DEF OnlyLeaving
      <4>1. mpc = "join" /\ (Cardinality(Alive) = 0 \/ wait = 0)
        BY <2>3, <3>1, Counting DEF JoinDone, Join, PoolTyped
      <4>2. CASE Cardinality(Alive) = 0
        BY <4>2, Counting DEF Alive
      <4>3. CASE wait = 0
        <5>1. DEFAULT_NUM_WORKERS <= Cardinality(Gone)
          BY <2>3, <4>1, <4>3 DEF ExitsCounted
        <5> QED BY <2>3, <5>1
      <4> QED BY <4>1, <4>2, <4>3
    <3>2. CASE ThpoolFree \/ JoinOne \/ AwaitExit
      BY <3>2 DEF ThpoolFree, JoinOne, AwaitExit, OnlyLeaving
    <3> QED BY <1>3, <3>1, <3>2
  <2> QED BY <2>4, <2>5, <2>6, <2>7
<1> QED BY <1>1, <1>2, <1>3 DEF MainStep

LEMMA WorkerPool ==
    ASSUME Typed, PoolInv, NEW w \in Worker, WorkerStep(w) PROVE PoolInv'
<1>1. PICK to \in WorkerPc :
          /\ wpc' = [wpc EXCEPT ![w] = to]
          /\ wpc[w] = "new" => to = "check" /\ Begin(w)
          /\ wpc[w] = "check" => to = IF worker_stop THEN "leave" ELSE "wait"
          /\ wpc[w] = "woken" => to = IF worker_stop THEN "leave" ELSE "lock"
          /\ wpc[w] = "leave" => to = "signal" /\ Leave(w)
          /\ wpc[w] = "signal" => to = "gone" /\ SignalExit(w)
          /\ wpc[w] \notin {"check", "woken", "leave", "signal"} =>
                to \notin {"leave", "signal", "gone"}
          /\ wpc[w] # "signal" => exits' = exits
          /\ wpc[w] \notin {"new", "leave"} => workers_alive' = workers_alive
          /\ wpc[w] # "gone" /\ to # "new"
  BY DEF WorkerStep, Begin, Check, WaitJob, Woken, Dequeue, Rearm, Unlock, Resolve, Publish,
         Leave, SignalExit, Step, WorkerPc
<1>2. /\ mpc' = mpc /\ wait' = wait /\ worker_stop' = worker_stop /\ answer' = answer
      /\ mutex' \in {mutex, w, Nobody} /\ jobs' \in {jobs, TRUE, FALSE}
  BY DEF WorkerStep, Begin, Check, WaitJob, Woken, Dequeue, Rearm, Unlock, Resolve, Publish,
         Leave, SignalExit, cache
<1>3. \A v \in Worker : wpc'[v] = IF v = w THEN to ELSE wpc[v]
  BY <1>1 DEF Typed
<1>4. wpc[w] \in WorkerPc
  BY DEF Typed
<1>5. /\ wpc[w] = "new" => workers_alive' = workers_alive + 1
      /\ wpc[w] = "leave" => workers_alive' = workers_alive - 1
      /\ wpc[w] = "signal" => exits' = TRUE /\ workers_alive' = workers_alive
  BY <1>1 DEF Begin, Leave, SignalExit
<1>6. /\ Cardinality(Alive)' = Cardinality(Alive)
              + (IF to \in {"new", "signal", "gone"} THEN 0 ELSE 1)
              - (IF wpc[w] \in {"new", "signal", "gone"} THEN 0 ELSE 1)
      /\ Cardinality(Gone)' = Cardinality(Gone)
              + (IF to = "gone" THEN 1 ELSE 0) - (IF wpc[w] = "gone" THEN 1 ELSE 0)
  BY <1>1, Moves
<1>7. Cardinality(Alive) \in Nat /\ Cardinality(Gone) \in Nat /\ wait \in Nat
      /\ DEFAULT_NUM_WORKERS \in Nat
  BY Counting, ResolverAssumption DEF ResolverAssumption, PoolInv, PoolTyped
<1>8. PoolTyped'
  <2>1. workers_alive' = Cardinality(Alive)'
    BY <1>1, <1>4, <1>5, <1>6, <1>7 DEF PoolInv, PoolTyped, WorkerPc
  <2>2. exits' \in BOOLEAN
    BY <1>1, <1>5 DEF PoolInv, PoolTyped
  <2> QED BY <1>2, <2>1, <2>2 DEF PoolInv, PoolTyped
<1>9. ToldFirst'
  BY <1>1, <1>2, <1>3, <1>4 DEF PoolInv, ToldFirst
<1>10. ExitsCounted'
  <2>1. CASE wpc[w] = "signal"
    <3>1. Cardinality(Gone)' = Cardinality(Gone) + 1 /\ exits' = TRUE
      BY <1>1, <1>5, <1>6, <1>7, <2>1
    <3> QED BY <1>2, <1>7, <3>1 DEF PoolInv, ExitsCounted
  <2>2. CASE wpc[w] # "signal"
    <3>1. Cardinality(Gone)' = Cardinality(Gone) /\ exits' = exits
      BY <1>1, <1>4, <1>6, <1>7, <2>2 DEF WorkerPc
    <3> QED BY <1>2, <3>1 DEF PoolInv, ExitsCounted
  <2> QED BY <2>1, <2>2
<1>11. OnlyLeaving'
  <2>1. Cardinality(Gone)' >= Cardinality(Gone) /\ Cardinality(Gone)' \in Int
    BY <1>1, <1>6, <1>7
  <2> SUFFICES ASSUME mpc' \in {"destroy", "free", "done"},
                      ~(DEFAULT_NUM_WORKERS <= Cardinality(Gone)')
               PROVE  \A v \in Worker : wpc'[v] \in {"new", "check", "leave", "signal", "gone"}
    BY DEF OnlyLeaving
  <2>2. ~(DEFAULT_NUM_WORKERS <= Cardinality(Gone))
    BY <1>7, <2>1
  <2>3. worker_stop /\ \A v \in Worker : wpc[v] \in {"new", "check", "leave", "signal", "gone"}
    BY <1>2, <2>2 DEF PoolInv, OnlyLeaving, ToldFirst
  <2>4. to \in {"new", "check", "leave", "signal", "gone"}
    BY <1>1, <2>3
  <2> QED BY <1>3, <2>3, <2>4
<1> QED BY <1>8, <1>9, <1>10, <1>11 DEF PoolInv

LEMMA PoolInductive == Spec => []PoolInv
<1>1. ASSUME Typed, PoolInv, [Next]_vars PROVE PoolInv'
  <2>1. CASE UNCHANGED vars
    <3>1. /\ UNCHANGED <<exits, worker_stop, workers_alive, wpc, wait>> /\ mpc' = mpc
          /\ answer' = answer /\ mutex' = mutex /\ jobs' = jobs
      BY <2>1 DEF vars, cache, pool
    <3> QED BY <1>1, <3>1, PoolStable DEF PoolInv, PoolTyped
  <2> QED BY <1>1, <2>1, MainPool, WorkerPool DEF Next, Terminated
<1>2. IInv => Typed
  BY DEF IInv
<1> QED BY <1>1, <1>2, InitPool, Inductive, PTL DEF Spec

\* The counter of living workers counts them (th_worker counts itself in and
\* out), and everything keeps its range: the wait for the exits ends at zero.
THEOREM TypeCorrect == Spec => []TypeOK
<1>1. IInv /\ PoolInv => TypeOK
  BY DEF IInv, Typed, PoolInv, PoolTyped, Alive, TypeOK
<1> QED BY <1>1, Inductive, PoolInductive, PTL

\* thpool_free and cache_domain_free free the queue and the slots when no worker
\* of a pool of at most DEFAULT_NUM_WORKERS holds either, although exits may be
\* signalled faster than they are waited for, and a worker may begin late.  In a
\* larger pool, which is what thpool_init starts on a machine of many processors,
\* those that may still hold them are no more than the workers beyond that number.
THEOREM FreedUnused == Spec => []FreedInPeace
<1>1. PoolInv => FreedInPeace
  <2> SUFFICES ASSUME PoolInv, Using # {}
               PROVE  Cardinality(Using) + DEFAULT_NUM_WORKERS <= Cardinality(Worker)
    BY DEF FreedInPeace
  <2>1. DEFAULT_NUM_WORKERS <= Cardinality(Gone)
    BY DEF PoolInv, OnlyLeaving, Using
  <2>2. Using \cap Gone = {} /\ Using \cup Gone \in SUBSET Worker
    BY DEF Using, Gone
  <2>3. IsFiniteSet(Using) /\ IsFiniteSet(Gone) /\ IsFiniteSet(Worker)
    <3>1. Using \in SUBSET Worker
      BY DEF Using
    <3> QED BY <3>1, Counting, FS_Subset
  <2>4. /\ Cardinality(Using \cup Gone) = Cardinality(Using) + Cardinality(Gone)
        /\ Cardinality(Using \cup Gone) <= Cardinality(Worker)
        /\ Cardinality(Using) \in Nat /\ Cardinality(Gone) \in Nat
        /\ Cardinality(Worker) \in Nat /\ DEFAULT_NUM_WORKERS \in Nat
    <3>1. Cardinality(Using \cap Gone) = 0
      BY <2>2, FS_EmptySet
    <3>2. Cardinality(Using) \in Nat /\ Cardinality(Gone) \in Nat /\ Cardinality(Worker) \in Nat
      BY <2>3, FS_CardinalityType
    <3>3. /\ Cardinality(Using \cup Gone)
                = Cardinality(Using) + Cardinality(Gone) - Cardinality(Using \cap Gone)
      BY <2>3, FS_Union
    <3>4. Cardinality(Using \cup Gone) <= Cardinality(Worker)
      BY <2>2, <2>3, FS_Subset
    <3> QED BY <3>1, <3>2, <3>3, <3>4, ResolverAssumption DEF ResolverAssumption
  <2> QED BY <2>1, <2>4
<1> QED BY <1>1, PoolInductive, PTL

----------------------------------------------------------------------------
\* From who owns a slot to how many do.
LEMMA OwnersRight ==
    ASSUME IInv, mpc \notin {"free", "done"}, NEW s \in Slot
    PROVE  Owners(s) = IF status[s] = "RESOLVING" /\ s \notin lost THEN 1 ELSE 0
<1> DEFINE Q == {i \in 1..Len(queue) : queue[i] = s}
           W == {w \in Worker : task[w] = s}
<1>1. NoSlot \notin Slot /\ Cardinality({}) = 0 /\ (\A x : Cardinality({x}) = 1)
  BY SlotType, FS_EmptySet, FS_Singleton
<1>2. Owners(s) = Cardinality(Q) + Cardinality(W) + (IF mpc = "add" /\ index = s THEN 1 ELSE 0)
  BY DEF Owners
<1>3. CASE ~Claimed(s)
  <2>1. Q = {} /\ W = {} /\ ~(mpc = "add" /\ index = s)
    BY <1>1, <1>3 DEF IInv, Owned, QueueOwns, WorkersOwn, MainOwns
  <2>2. Cardinality(Q) = 0 /\ Cardinality(W) = 0
    BY <1>1, <2>1
  <2> QED BY <1>2, <1>3, <2>1, <2>2 DEF Claimed
<1>4. CASE Claimed(s)
  <2>1. CASE \E i \in 1..Len(queue) : queue[i] = s
    <3>1. PICK i \in 1..Len(queue) : queue[i] = s
      BY <2>1
    <3>2. Q = {i} /\ W = {} /\ ~(mpc = "add" /\ index = s)
      BY <1>1, <3>1 DEF IInv, Owned, QueueOwns, WorkersOwn, MainOwns
    <3>3. Cardinality(Q) = 1 /\ Cardinality(W) = 0
      BY <1>1, <3>2
    <3> QED BY <1>2, <1>4, <3>2, <3>3 DEF Claimed
  <2>2. CASE \E w \in Worker : task[w] = s
    <3>1. PICK w \in Worker : task[w] = s
      BY <2>2
    <3>2. W = {w} /\ Q = {} /\ ~(mpc = "add" /\ index = s)
      BY <1>1, <3>1 DEF IInv, Owned, WorkersOwn, MainOwns
    <3>3. Cardinality(Q) = 0 /\ Cardinality(W) = 1
      BY <1>1, <3>2
    <3> QED BY <1>2, <1>4, <3>2, <3>3 DEF Claimed
  <2>3. CASE mpc = "add" /\ index = s
    <3>1. W = {} /\ Q = {}
      BY <2>3 DEF IInv, Owned, MainOwns
    <3>2. Cardinality(Q) = 0 /\ Cardinality(W) = 0
      BY <1>1, <3>1
    <3> QED BY <1>2, <1>4, <2>3, <3>2 DEF Claimed
  <2>4. Handed(s)
    BY <1>4 DEF IInv, Owned, ClaimsHeld
  <2> QED BY <2>1, <2>2, <2>3, <2>4 DEF Handed
<1> QED BY <1>3, <1>4

\* ip2domain reuses a slot, add_task hands it over and a worker writes its name
\* without a lock: a slot being resolved is in exactly one of these hands, any
\* other in none, and one whose task was lost stays unresolved for ever.
THEOREM AloneWithSlot == Spec => []OneOwner
<1>1. IInv /\ TypeOK => OneOwner
  BY OwnersRight DEF IInv, Owned, LostStay, OneOwner
<1> QED BY <1>1, Inductive, TypeCorrect, PTL

----------------------------------------------------------------------------
(* The resolver implements NameCache: every step of main or of a worker is *)
(* a question, the start or the end of a resolution, or nothing, for the   *)
(* screen.                                                                 *)

\* No address is in two slots, so what is known of it is the status of its own.
LEMMA OneSlot ==
    ASSUME IInv, NEW s \in Slot, NEW t \in Slot, addr[s] = addr[t], addr[s] # NoAddr
    PROVE  s = t
<1>1. NoSlot \notin Slot
  BY SlotType
<1>2. status[s] # "none" /\ status[t] # "none"
  BY DEF IInv, Agreed, SlotsUsed
<1>3. /\ ~Pending(s) => ht[addr[s]] = s
      /\ ~Pending(t) => ht[addr[s]] = t
      /\ Pending(s) \/ Pending(t) => ht[addr[s]] = NoSlot \/ s = t
  BY <1>2 DEF IInv, Agreed, CacheConsistent, NewUnlisted, Pending
<1> QED BY <1>1, <1>3 DEF Pending

LEMMA KnownBySlot ==
    ASSUME IInv, NEW s \in Slot, addr[s] # NoAddr
    PROVE  KnownAs(addr[s]) = IF status[s] = "RESOLVED" THEN "resolved" ELSE "resolving"
<1>1. (CHOOSE t \in Slot : addr[t] = addr[s]) = s
  BY OneSlot
<1> QED BY <1>1 DEF KnownAs

LEMMA AbsentWithoutSlot ==
    ASSUME NEW a, \A s \in Slot : addr[s] # a PROVE KnownAs(a) = "absent"
  BY DEF KnownAs

\* The table has every address in use but the one that is being entered.
LEMMA UnlistedAbsent ==
    ASSUME IInv, NEW a \in Addr, ht[a] = NoSlot, mpc = "ui"
    PROVE  \A s \in Slot : addr[s] # a
<1>1. NoSlot \notin Slot /\ NoAddr \notin Addr
  BY SlotType, ResolverAssumption DEF ResolverAssumption
<1> QED BY <1>1 DEF IInv, Agreed, SlotsUsed, CacheConsistent, Pending

AtMostCapacity == Cardinality({a \in Addr : KnownAs(a) # "absent"}) <= cache_size

LEMMA CapacityKept == IInv => AtMostCapacity
<1> SUFFICES ASSUME IInv PROVE AtMostCapacity
  OBVIOUS
<1> DEFINE T == {a \in Addr : KnownAs(a) # "absent"}
           S == {s \in Slot : addr[s] \in T}
           f == [s \in S |-> addr[s]]
<1>1. cache_size \in Nat
  BY ResolverAssumption DEF ResolverAssumption
<1>2. IsFiniteSet(Slot) /\ Cardinality(Slot) = cache_size
  BY <1>1, FS_Interval DEF Slot
<1>3. IsFiniteSet(S) /\ Cardinality(S) <= cache_size
  BY <1>2, FS_Subset
<1>4. f \in Surjection(S, T)
  <2>1. f \in [S -> T]
    OBVIOUS
  <2>2. ASSUME NEW a \in T PROVE \E s \in S : f[s] = a
    BY AbsentWithoutSlot
  <2> QED BY <2>1, <2>2 DEF Surjection
<1>5. IsFiniteSet(T) /\ Cardinality(T) <= Cardinality(S)
  BY <1>3, <1>4, FS_Surjection
<1> QED BY <1>1, <1>3, <1>5, FS_CardinalityType DEF AtMostCapacity

LEMMA CapacityKeptNext == IInv' => AtMostCapacity'
  BY CapacityKept, PTL

----------------------------------------------------------------------------
\* What the screen sees.
known == [a \in Addr |-> KnownAs(a)]
shown == [of |-> answer.of,
          form |-> IF answer.got = NoAddr THEN "text"
                   ELSE IF answer.got = answer.of THEN "name" ELSE "wrong"]

LEMMA InitImplements == Init => Promise!Init
<1> SUFFICES ASSUME Init PROVE Promise!Init
  OBVIOUS
<1>1. \A a \in Addr : KnownAs(a) = "absent"
  BY AbsentWithoutSlot, ResolverAssumption DEF Init, ResolverAssumption
<1>2. PICK a \in Addr : answer = Text(a)
  BY DEF Init
<1>3. shown = [of |-> a, form |-> "text"]
  BY <1>2 DEF shown, Text
<1>4. shown \in [of : Addr, form : {"text"}]
  BY <1>3
<1> QED BY <1>1, <1>4 DEF Promise!Init, shown

\* Steps that touch no address, status or answer are not seen.
LEMMA Unseen ==
    ASSUME addr' = addr, status' = status, answer' = answer PROVE UNCHANGED Promise!vars
<1>1. \A a : KnownAs(a)' = KnownAs(a)
  BY DEF KnownAs
<1> QED BY <1>1 DEF Promise!vars

LEMMA AskImplements ==
    ASSUME IInv, NEW a \in Addr, AskKnown(a) \/ AskBlocked(a) PROVE Promise!Ask(a)
<1>1. addr' = addr /\ status' = status
  BY DEF AskKnown, AskBlocked
<1>2. known' = known
  BY <1>1 DEF known, KnownAs
<1>3. shown' = [of |-> a, form |-> IF KnownAs(a) = "resolved" THEN "name" ELSE "text"]
  <2>1. NoSlot \notin Slot /\ NoAddr \notin Addr
    BY SlotType, ResolverAssumption DEF ResolverAssumption
  <2>2. CASE AskKnown(a)
    <3>1. ht[a] \in Slot /\ addr[ht[a]] = a
      BY <2>2 DEF AskKnown, IInv, Typed, Agreed, CacheConsistent
    <3>2. KnownAs(a) = IF status[ht[a]] = "RESOLVED" THEN "resolved" ELSE "resolving"
      BY <2>1, <3>1, KnownBySlot
    <3>3. CASE status[ht[a]] = "RESOLVED"
      <4>1. answer' = [of |-> a, got |-> a]
        BY <2>2, <3>1, <3>3 DEF AskKnown, Name, IInv, Agreed, CacheConsistent
      <4>2. shown' = [of |-> a, form |-> "name"]
        BY <2>1, <4>1 DEF shown
      <4> QED BY <3>2, <3>3, <4>2
    <3>4. CASE status[ht[a]] # "RESOLVED"
      <4>1. answer' = [of |-> a, got |-> NoAddr]
        BY <2>2, <3>4 DEF AskKnown, Text
      <4>2. shown' = [of |-> a, form |-> "text"]
        BY <4>1 DEF shown
      <4> QED BY <3>2, <3>4, <4>2
    <3> QED BY <3>3, <3>4
  <2>3. CASE AskBlocked(a)
    <3>1. KnownAs(a) = "absent"
      BY <2>3, UnlistedAbsent, AbsentWithoutSlot DEF AskBlocked
    <3>2. answer' = [of |-> a, got |-> NoAddr]
      BY <2>3 DEF AskBlocked, Text
    <3>3. shown' = [of |-> a, form |-> "text"]
      BY <3>2 DEF shown
    <3> QED BY <3>1, <3>3
  <2> QED BY <2>2, <2>3
<1> QED BY <1>2, <1>3 DEF Promise!Ask, known, shown

LEMMA PublishImplements ==
    ASSUME IInv, NEW w \in Worker, Publish(w)
    PROVE  \E a \in Addr : Promise!Finish(a)
<1>1. IInv'
  BY PublishIInv
<1>2. /\ wpc[w] = "publish" /\ addr' = addr /\ answer' = answer
      /\ status' = [status EXCEPT ![task[w]] = "RESOLVED"]
  BY DEF Publish, Step
<1>3. task[w] \in Slot /\ status[task[w]] = "RESOLVING" /\ NoAddr \notin Addr
  BY <1>2, ResolverAssumption
     DEF ResolverAssumption, IInv, Owned, WorkersStand, WorkersOwn, Claimed, Typed
<1> DEFINE s == task[w]
           a == addr[s]
<1> HIDE DEF s
<1>4. /\ s \in Slot /\ a # NoAddr /\ a \in Addr
      /\ \A t \in Slot : status'[t] = IF t = s THEN "RESOLVED" ELSE status[t]
      /\ status[s] = "RESOLVING"
  BY <1>2, <1>3 DEF s, IInv, Agreed, SlotsUsed, Typed
<1>5. KnownAs(a) = "resolving"
  BY <1>4, KnownBySlot
<1>6. \A b \in Addr : KnownAs(b)' = IF b = a THEN "resolved" ELSE KnownAs(b)
  <2> SUFFICES ASSUME NEW b \in Addr
               PROVE  KnownAs(b)' = IF b = a THEN "resolved" ELSE KnownAs(b)
    OBVIOUS
  <2>1. CASE \E t \in Slot : addr[t] = b
    <3>1. PICK t \in Slot : addr[t] = b
      BY <2>1
    <3>2. (CHOOSE r \in Slot : addr[r] = b) = t
      BY <1>3, <3>1, OneSlot
    <3>3. /\ KnownAs(b) = IF status[t] = "RESOLVED" THEN "resolved" ELSE "resolving"
          /\ KnownAs(b)' = IF status'[t] = "RESOLVED" THEN "resolved" ELSE "resolving"
      BY <1>2, <2>1, <3>2 DEF KnownAs
    <3>4. t = s <=> b = a
      BY <1>4, <3>1, OneSlot
    <3> QED BY <1>4, <3>3, <3>4
  <2>2. CASE \A t \in Slot : addr[t] # b
    BY <1>2, <1>4, <2>2 DEF KnownAs
  <2> QED BY <2>1, <2>2
<1>7. known' = [known EXCEPT ![a] = "resolved"] /\ known[a] = "resolving"
  BY <1>4, <1>5, <1>6 DEF known
<1>8. shown' = shown
  BY <1>2 DEF shown
<1> QED BY <1>4, <1>7, <1>8 DEF Promise!Finish, known, shown

LEMMA AskMissImplements ==
    ASSUME IInv, NEW a \in Addr, AskMiss(a)
    PROVE  Promise!Start(a, {}) \/ \E b \in Addr : Promise!Start(a, {b})
<1>1. /\ mpc = "ui" /\ ht[a] = NoSlot /\ status[index] # "RESOLVING"
      /\ addr' = [addr EXCEPT ![index] = a]
      /\ status' = [status EXCEPT ![index] = "RESOLVING"]
      /\ answer' = [of |-> a, got |-> NoAddr]
  BY DEF AskMiss, Reusable, Text
<1>2. IInv' /\ index \in Slot /\ NoAddr \notin Addr
  BY AskMissIInv, ResolverAssumption DEF ResolverAssumption, IInv, Typed
<1>3. /\ \A s \in Slot : addr'[s] = IF s = index THEN a ELSE addr[s]
      /\ \A s \in Slot : status'[s] = IF s = index THEN "RESOLVING" ELSE status[s]
  BY <1>1, <1>2 DEF IInv, Typed
<1>4. (\A s \in Slot : addr[s] # a) /\ KnownAs(a) = "absent"
  BY <1>1, UnlistedAbsent, AbsentWithoutSlot
<1> DEFINE gone == {addr[index]} \ {NoAddr}
<1>5. \A b \in gone : b \in Addr /\ KnownAs(b) = "resolved"
  BY <1>1, <1>2, KnownBySlot DEF IInv, Agreed, SlotsUsed, Typed, Status
<1>6. \A b \in Addr : KnownAs(b)' = IF b = a THEN "resolving"
                                    ELSE IF b \in gone THEN "absent" ELSE KnownAs(b)
  <2> SUFFICES ASSUME NEW b \in Addr
               PROVE  KnownAs(b)' = IF b = a THEN "resolving"
                                    ELSE IF b \in gone THEN "absent" ELSE KnownAs(b)
    OBVIOUS
  <2>1. CASE b = a
    <3>1. \A t \in Slot : addr'[t] = a <=> t = index
      BY <1>3, <1>4
    <3>2. (CHOOSE t \in Slot : addr'[t] = a) = index
      BY <1>2, <3>1
    <3> QED BY <1>2, <1>3, <2>1, <3>1, <3>2 DEF KnownAs
  <2>2. CASE b # a /\ addr[index] = b
    <3>1. \A t \in Slot : addr'[t] # b
      BY <1>2, <1>3, <2>2, OneSlot
    <3> QED BY <1>2, <2>2, <3>1 DEF KnownAs
  <2>3. CASE b # a /\ addr[index] # b
    <3>1. \A t \in Slot : addr'[t] = b <=> addr[t] = b
      BY <1>2, <1>3, <2>3
    <3>2. CASE \E t \in Slot : addr[t] = b
      <4>1. PICK t \in Slot : addr[t] = b
        BY <3>2
      <4>2. /\ (CHOOSE r \in Slot : addr[r] = b) = t
            /\ (CHOOSE r \in Slot : addr'[r] = b) = t
        BY <1>2, <3>1, <4>1, OneSlot
      <4>3. status'[t] = status[t]
        BY <1>3, <2>3, <4>1
      <4> QED BY <2>3, <3>1, <3>2, <4>2, <4>3 DEF KnownAs
    <3>3. CASE \A t \in Slot : addr[t] # b
      BY <2>3, <3>1, <3>3 DEF KnownAs
    <3> QED BY <3>2, <3>3
  <2> QED BY <2>1, <2>2, <2>3
<1>7. known[a] = "absent" /\ \A b \in gone : known[b] = "resolved"
  BY <1>4, <1>5 DEF known
<1>8. known' = [b \in Addr |-> IF b = a THEN "resolving"
                               ELSE IF b \in gone THEN "absent" ELSE known[b]]
  BY <1>6 DEF known
<1>9. shown' = [of |-> a, form |-> "text"]
  BY <1>1 DEF shown
<1>10. Cardinality({b \in Addr : known'[b] # "absent"}) <= cache_size
  <2>1. Cardinality({b \in Addr : KnownAs(b)' # "absent"}) <= cache_size
    BY <1>2, CapacityKeptNext DEF AtMostCapacity
  <2>2. {b \in Addr : known'[b] # "absent"} = {b \in Addr : KnownAs(b)' # "absent"}
    BY DEF known
  <2> QED BY <2>1, <2>2
<1>11. Promise!Start(a, gone)
  <2>1. Promise!Cardinality({b \in Addr : known'[b] # "absent"})
            = Cardinality({b \in Addr : known'[b] # "absent"})
    BY DEF Promise!Cardinality, Cardinality
  <2> QED BY <1>7, <1>8, <1>9, <1>10, <2>1 DEF Promise!Start, known, shown
<1>12. CASE addr[index] = NoAddr
  <2>1. gone = {}
    BY <1>12
  <2> QED BY <1>11, <2>1
<1>13. CASE addr[index] # NoAddr
  <2>1. gone = {addr[index]} /\ addr[index] \in Addr
    BY <1>5, <1>13
  <2> QED BY <1>11, <2>1
<1> QED BY <1>12, <1>13

LEMMA NextImplements ==
    ASSUME IInv, [Next]_vars PROVE [Promise!Next]_(Promise!vars)
<1>1. ASSUME NEW a \in Addr, Ask(a) PROVE Promise!Next
  <2>1. CASE AskMiss(a)
    BY <2>1, AskMissImplements DEF Promise!Next
  <2>2. CASE AskKnown(a) \/ AskBlocked(a)
    BY <2>2, AskImplements DEF Promise!Next
  <2> QED BY <1>1, <2>1, <2>2 DEF Ask
<1>2. CASE ThpoolFree \/ MainStep \/ UNCHANGED vars
  <2>1. addr' = addr /\ status' = status /\ answer' = answer
    BY <1>2 DEF ThpoolFree, MainStep, AddTask, AddTaskFails, PostJob, SetHost, JoinOne,
           AwaitExit, JoinDone, DestroyQueue, FreeHosts, vars, cache
  <2> QED BY <2>1, Unseen
<1>3. ASSUME NEW w \in Worker, WorkerStep(w) PROVE [Promise!Next]_(Promise!vars)
  <2>1. CASE Publish(w)
    BY <2>1, PublishImplements DEF Promise!Next
  <2>2. CASE ~Publish(w)
    <3>1. addr' = addr /\ status' = status /\ answer' = answer
      BY <1>3, <2>2 DEF WorkerStep, Begin, Check, WaitJob, Woken, Dequeue, Rearm, Unlock,
             Resolve, Leave, SignalExit, cache
    <3> QED BY <3>1, Unseen
  <2> QED BY <2>1, <2>2
<1> QED BY <1>1, <1>2, <1>3 DEF Next, Terminated

\* For the screen ip2domain is a cache that never waits: the text of an address
\* until its name is resolved, then the name, and never more than cache_size
\* addresses, of which only resolved ones are dropped (domain.c, domain.h).
THEOREM PromiseKept == Spec => KeepsPromise
<1>1. Init => Promise!Init
  BY InitImplements
<1>2. IInv /\ [Next]_vars => [Promise!Next]_(Promise!vars)
  BY NextImplements
<1> QED BY <1>1, <1>2, Inductive, PTL DEF Spec, Promise!Spec, KeepsPromise
=============================================================================
