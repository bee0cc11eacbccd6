# netproc in TLA+

netproc shows, like `top`, which process of a Linux machine sends and receives
how much. It reads packets from a memory-mapped packet ring, finds the
connection and the process each packet belongs to by reading `/proc/net/*` and
`/proc/<pid>/fd`, and shows rates per process and per connection; names of
addresses are resolved by a pool of threads. This directory holds TLA+ models of
those parts, the TLC configurations that check them and TLAPS proofs of every
safety property they check. Source paths below are relative to `src/src/`.

## The system

| part | files | state it keeps | operations | what makes it hard |
|---|---|---|---|---|
| main loop | `main.c` `timer.c` `ring.c` | block being read, `need_update_processes`, `diff_time`, `cur_time`, `prog_exit`, the ring | drain blocks, `poll`, keys, refresh, signal handler | the kernel fills blocks at the same time; mixed signed and unsigned time; `poll` that is interrupted |
| packets | `packet.c` | 32 slots for the ports of fragmented datagrams, one counter | `parse_packet` | fragments are lost, repeated, late and out of order |
| tracking | `connection.c` `processes.c` `statistics.c` | a table with two entries per connection, processes, list of processes | `processes_update`, `statistics_add`, clean-up | reads of `/proc` one after the other while the kernel changes; two reference counters; two sweeps with different rules |
| rates and log | `rate.c` `log.c` `round.c` | a circle of samples per process, totals per program | `rate_add_*`, `rate_calc`, `rate_update`, `log_file` | processes come and go between refreshes; old elements of a vector |
| resolver | `resolver/` | ring of cached names, hash table, task queue, two binary semaphores, worker flags | `ip2domain`, `th_worker`, `thpool_free` | threads without locks on the cache, wake-ups that merge, shutdown |
| screen | `tui.c` `sort.c` `color.c` | cursor, scroll position, sort column | draw, keys | the list changes under the cursor |
| containers | `hashtable.c` `vector.c` `slist.h` `jhash.h` | buckets and chains, capacity | get, set, remove, sweep, rehash | growth and shrinking, sweeping while removing |
| the rest | `config.c`, `usage.c`, `translate.c`, `human_readable.c`, `str.c`, `resolver/service.c`, `resolver/sock_util.c`, `directory.c`, `full_read.c`, `pid.c`, `sock.c`, `filter.c`, `bpf/`, `m_error.c` | options, none otherwise | start-up, text, reading `/proc` | little |

How they interact: `main()` calls `processes_update()` once, then loops. A drained
packet goes through `parse_packet()` and `statistics_add()`; the latter charges
the process through `connection_get_by_tuple()` and `conn->proc` with
`rate_add_rx/tx()`, or returns false, which sets `need_update_processes`. When
`T_REFRESH` is over, `rate_calc()`, `tui_show()` (which sorts and, for the names,
calls `ip2domain()`), `log_file()` and `rate_update()` run in that order, then
`processes_update()` if it was asked for. All of that is one thread. The other
actors are the kernel (ring blocks, sockets, processes), signals and the
resolver's workers.

What makes each part correct:

* *main loop*: neither side works on the other's blocks and none is left behind;
  the refresh and a requested update happen again and again; a signal ends the program.
* *packets*: the counter is the number of live slots; a fragment gets the ports of its
  own datagram; slots do not leak; nobody is turned away while there is room.
* *tracking*: no entry, list or pointer outlives what it points to; connections keep
  both entries; an undisturbed update finds exactly the sockets and their holders; a
  closed connection survives one update.
* *rates and log*: the samples are those of the last refreshes whatever happened to the
  list; the log adds up to what was counted.
* *hash table*: its chains hold exactly what was stored, also while it grows, shrinks and
  is swept; a lookup finds a value of the key if there is one, and the latest stored.
* *screen*: moving the cursor leaves every line as the refresh printed it; one line is
  selected; the cursor is no farther out of sight than refreshes put it; what is hidden
  has nothing to show in the column sorted by.
* *resolver*: no task is lost, no slot has two writers, a name shown is the name of the
  address asked for, the shutdown ends and pulls nothing from under a worker.

`PROJECT.json` lists the hazards at their lines, with the properties about each.

## The modules

| module | models | state ↔ code |
|---|---|---|
| `Tracker` | `connection.c`, `processes.c`, `statistics_add` | `heap`/`htProc` are the objects allocated, `table[k]` the entries of `ht_connections` by their two keys, `refs`/`exitRefs` are `refs_active`/`refs_exit`, `list` is `procs->proc`, `pc` the phase of the update. An action is one visit of an entry, one line of a file, one directory, one descriptor; the kernel's actions (`Kernel`) come between the reads. |
| `Fragments` | `packet.c` | `ttl`, `key`, `ports` are `pkt_ip_frag[]`, `count` is `count_reassemblies`. One action per kind of packet, with the whole of `parse_packet()` including the closing `clear_frag()`. |
| `NameCache` | the promise of `resolver/domain.h` | abstract: what is known of an address, and the last answer |
| `Resolver` | `resolver/domain.c`, `thread_pool.c`, `queue.c` | `hosts[]`, `ht_hosts`, `index`; `queue_task` and its mutex; the binary semaphores `jobs`, `exits`; a program counter per worker and for the main thread |
| `MainLoop` | `main.c`, the ring, `get_time` | the block statuses shared with the kernel; `elapsed` is `get_time() - cur_time`, `left` what is left of `poll`'s timeout |
| `Accounting` | `rate.c`, `log.c`, `m_round`, the list as `processes_update` leaves it | `Bps`, `bytes_last_sec`, `tot_Bps`, `avg_Bps` of `struct net_stat` (one for the four counters of a process), `proc` with the elements beyond its end, `log_processes` with the room of its vector. A walk that meets no null, a freed process or a log without room make the log `Garbage`, which stands for anything. |
| `Dictionary` | the promise of `hashtable.h` | abstract: the values stored and the last answer; a multimap, because `connection.c` stores two connections under one address |
| `HashTable` | `hashtable.c`, `slist.h` | `head`, `next` are the pointers, `nbuckets`, `nentries` the counters, `walk` the locals of the two loops over all entries. Every call is one step, except that a walk takes one per entry (the callback runs in between and may free the value). |
| `Screen` | `tui.c`, `sort.c` | `pad` and `painted` are the lines of the pad, in each of which stands a part of a row: the row, from which column and how many (`Wrapped`); `line_original` is the copy of the selected line, `tot_rows` counts rows; `list` is what the last refresh sorted. A refresh is one action (sort, print, clear, bring the cursor back, paint), a key another. |

`MCTracker`, `MCFragments`, `MCResolver`, `MCAccounting`, `MCHashTable`, `MCScreen` give the
constants of the small instances. Operators with a name like `Rotate_Past` and the word *faulty*
beside them are wrong versions of the definition that follows: put in its place
they break the property `PROJECT.json` names, which shows that the property
depends on that piece of code. No specification uses them.

The modules are separate because the program's parts meet at few points, and each
module takes the other side of such a point as a free choice, so what it shows
holds whatever the other side does: `MainLoop` chooses the outcome of every packet;
`Tracker` is given packets and updates at any time in the main loop; `Accounting`
is given any list by `processes_update`, but only where `main.c` calls it, right
after a refresh; `Screen` is given any of its lists at any refresh. `HashTable` stands
under `Tracker` and `Resolver`, which use it as the multimap of `Dictionary`: `Tracker`
visits entries in any order and finds any connection of a tuple, as that promise allows.

## The runs

| run | instance | what it shows |
|---|---|---|
| `tracker_quiet` | 2 sockets, 2 processes, a TCP and a UDP tuple; the kernel changes between updates only | the accounting of entries, nothing dangles, an update finds exactly the sockets and their holders, the grace period, processes keep their samples |
| `tracker_moving` | 1 socket, 2 processes, 2 UDP tuples; the kernel changes between any two reads | the table and the list stay sound, the grace period |
| `tracker_dangling` | 2 sockets, 2 processes, the kernel changes between reads | **violated**: `conn->proc` may point to a freed process |
| `tracker_stale_tuple` | 1 socket, 3 tuples | **violated**: an entry keeps the tuple of a socket that has another one by now |
| `fragments` | 3 datagrams, 2 slots, lifetime 2, a clock of 5 seconds that may be set back | the counter, the lifetime after a parse, the ports, refusals only when full |
| `resolver` | 2 workers, 3 addresses, 2 slots; memory for a task may be missing | no task lost, one owner per slot, table and slots agree, refinement of `NameCache`, every resolution ends, the shutdown ends and frees what nobody uses |
| `loop` | 3 blocks, T_REFRESH = 3, up to 3 ticks away from `poll` | order of the ring, every block is read, the refresh goes on, misses lead to an update, a signal ends the program with the next block at the latest |
| `loop_frozen` | 2 blocks, up to 4 ticks away | **violated**: the refresh stops for good after a delay of more than a refresh |
| `rates` | 4 processes, 2 of one program, 2 listed at a time, 3 samples, 2 packets, vectors of 2 elements, memory that holds anything | the circle of samples, the rate shown, the log as long as no walk has left the list and the log had room |
| `log_shrink` | 3 processes, vectors with room, memory that is zero | **violated**: after the list got shorter the log says more than was counted |
| `hashtable` | 5 values, 3 keys of 2 hashes, 4 buckets at the start, allocations may fail | the chains and the counters, the sizes, the walks, what a lookup finds, refinement of `Dictionary` |
| `screen` | 4 lists of 1, 2, 3 to 5 and 7 or 8 rows, some of them too long for a line, a terminal of 3 rows below the header, a pad of 6 that grows, all sort columns | lines and paint after any keys, how far the cursor can be out of sight, what is hidden is idle in the column sorted by |

### Bounds

* `Tracker`: the properties relate a connection to its two entries, its holders and its
  process. Two sockets let two connections meet in one sweep; two processes share,
  inherit and pass on a socket; two tuples allow one to be used again. Nothing is
  counted, so runs of any length are covered. `tracker_moving` has one socket, because a
  kernel that moves between all reads multiplies the states; `tracker_dangling` shows
  that two are within reach when only a counterexample is looked for.
* `Fragments`: two slots are the fewest that can be partly full; three datagrams compete
  for them; `MaxTime` (5) is more than two lifetimes (2), so a slot is used, expires and
  is used again, and the clock can be set back by more than a lifetime. The source has
  32 slots; the proofs are for any numbers.
* `Resolver`: two workers suffice for a wake-up that is lost or merged; three addresses
  over two slots make every eviction happen; questions are not limited in number. As many
  exits are waited for as there are workers (`DEFAULT_NUM_WORKERS` is 2, 3 in the source);
  three workers of which one is not waited for are too many states for a run with liveness,
  so that `FreedInPeace` says what it should of a larger pool is shown by its proof.
* `MainLoop`: three blocks, so that the kernel's, the program's and the waiting ones
  differ; at most one packet in each (`MaxPkts`). `MaxAway` is the limit up to which
  time passes while the program does not wait; `MaxElapsed` follows from it. With
  `MaxAway` up to `T_REFRESH` the refresh goes on, with one tick more it may stop, so
  the bound is also the exact limit.
* `Accounting`: a circle of three samples (5 in the source), two packets over four
  processes, of which two are listed at a time (`MaxListed`). With vectors of two elements
  (`LEN_INIT_VECTOR`, 16 in the source) a list of two processes fills its vector and the
  third program finds no room in the log. `MaxLogged` only limits the counters of a log
  that is wrong already. In `log_shrink` vectors have room and memory is zero
  (`ZeroedHeap`), so that the counterexample needs neither.
* `HashTable`: `HASHTABLE_MIN_SIZE` is 4 (16 in the source), so that the fourth entry
  makes the table grow to 16 buckets and removals shrink it to 2 and to none, from where
  it grows again. Two keys with one hash and a third that shares their bucket only in
  small tables give chains of all kinds; the lists of calls are not limited.
* `Screen`: the lists are of one row, of two, of about as many as the pad has lines, and of
  more; the longest has its connections in the first or, in most orders, in the last
  process, where the pad is made larger for them too late. One of its processes makes the
  pad wider, some connections are longer than its lines and go on in the next one, and one
  fills a line exactly. Connections are silent, one-way or so slow that their packets
  round to none. `MaxScroll` (8) bounds `scroll_y`, which has no bound in the code: each
  time the list gets shorter the cursor is pulled up without it, and the next KEY_DOWN at
  the bottom adds to it. With that bound the cursor may be three rows above the part shown.

### Fairness

* `Resolver!FairSpec`: every thread is scheduled and `getnameinfo` returns. The user
  need not ask nor leave.
* `MainLoop!FairSpec`: the program runs, and time passes while it waits in `poll`
  (strong fairness: packets may interrupt the wait any number of times). Properties
  about the refresh name the premise the code itself does not guarantee: `Waits` (the program
  comes to `poll` again and again; with traffic in every pass over the ring it does not,
  `main.c:193`).
* `Tracker`, `HashTable` and `Screen` have no liveness property: their calls return, and
  whoever calls them need not come again. That traffic of nobody leads to an update, and
  under which condition, is a matter of `MainLoop` (`MissServed`).

## What is proved

The theorems about a module are in the module of its name with `Proofs` behind it; each
invariant and each action property that a passing run checks is one. They hold for all
values of the constants that satisfy the assumption of the module: any number of sockets,
datagrams, ring blocks, workers, slots, addresses, processes, samples, entries and rows.
The assumptions say no more than that:

* names that must differ do (`Orphan`, `NULL`, `Main`, ...), sizes are positive;
* there are finitely many workers, finitely many processes to count for
  (`AccountingAssumption`), finitely many entries to allocate (`HashTableAssumption`);
* `HASHTABLE_MIN_SIZE` is a power of 2, as all sizes are to be (`hashtable.c:61`);
* vectors have room for something at first; what they hold then is left open by the proofs
  (`AccountingAssumption`);
* the terminal has more lines than the header and one row (`ScreenAssumption`); the lists
  shown are finite, widths and statistics are natural numbers, and the average of the packets is not
  larger than that of their bytes (`ListsAssumption`; `rate.c:51`).

The arguments:

* `Tracker`: `TypeCorrect`, `NeverDangling`, `CountersRight`, `NothingLost` and
  `GraceHolds`. That an entry is never left without its connection is not
  inductive: it depends on how often a connection has been met by the sweep. The
  inductive invariant `IInv` adds `EntryAccounting`, which says for every connection
  what `refs_active` is when none, one (either one) or both of its entries have been
  visited: 3 or 1, then 2 with both entries or 0 with one, then 1 or gone; and the like
  for `refs_exit` in the clean-up. Each action of the update is a lemma; steps that leave
  the table alone are covered by two lemmas about stability (`AccountingStable`,
  `SettledStable`). The kernel may move at any time in these proofs.
* `Tracker`, the update as a whole: `ListedStay`, `ShownLive`, `SocketsMapped`,
  `HoldersListed` and `PointersLive`. `UInv` adds to `IInv` what every phase of the update
  has achieved and what it still has to do. `MembersRight` ties `list`, `active` and `conns`
  to `htProc`, whatever the kernel does; it is all `ShownLive` needs. `UpdateRight` holds
  until the kernel moves: a tracked socket is listed, or its line or file is still to be
  read; a descriptor of a process is entered, or is in what the scan has left (`Coming`).
  `PointersRight` is for a kernel that moves between updates only: what an entry points to
  is active, or the entry is about to be swept. `PointersLive` has that as its
  hypothesis; without it the run `tracker_dangling` refutes it.
* `Fragments`: `TypeCorrect`, `CounterRight`, `NoStaleSlot`, `PortsRight` and
  `OnlyWhenFull`, with a clock that may be set back.
  `clear_frag()` stops when the *counter* says that no live slot is left,
  so that it clears every expired slot rests on the counter being the number of live
  slots, which in turn rests on what it cleared; the lemma on the clearing shows both
  from the counter being exact before it. `IInv` adds that a live slot holds key and
  ports of one and the same datagram.
* `MainLoop`: `RingRight` and `NothingForgotten`. `RingInOrder` speaks of blocks by their
  distance from the reader, modulo the size of the ring. The lemmas `OffsetInverse` and
  `NextBlock` do that arithmetic once; the invariant then says that `Handed(n)` holds for
  some `n`, which grows by one when the kernel hands a block over and shrinks by one when
  the program hands it back, and that the program reads frames only of a block that is
  its own.
* `Resolver`: `TypeCorrect`, `NoneStranded`, `AloneWithSlot`, `TableAndSlotsAgree` and
  `FreedUnused`, all its invariants. `IInv` has two halves that need each other. `Owned`
  says without counting that a slot being resolved is in one of the hands of the queue, a
  worker or main, and in no second one, and what a worker's program counter tells of the
  slot it holds; so the two unlocked writes of a worker meet no other thread. `Agreed` ties
  `ht_hosts` to the slots and says that an address being entered is not in the table yet;
  its clause on names needs `Owned`. `OwnersRight` turns hands into the number of hands.
  `PoolInv` counts: exits waited for, plus one signalled, are never more than the workers
  gone, although signals of two workers may merge into one. So when the wait is over no
  more workers are left than there are beyond `DEFAULT_NUM_WORKERS`: `FreedUnused` holds
  for a pool of any size, and leaves one of at most that size with nobody who could use
  what `thpool_free` frees.
* `Resolver` implements `NameCache`: `PromiseKept`. From `IInv` no address
  is in two slots (`OneSlot`), so what is known of an address is the status of its slot,
  and at most `cache_size` are known (a surjection from the slots). `AskKnown` and
  `AskBlocked` are an `Ask`, `AskMiss` a `Start`, `Publish` a `Finish`; every other step
  is a stutter.
* `Accounting`: `RatesExact` and `LogRightInBounds`. `WindowExact` says by itself what the
  circle of samples holds; inductive it is with `Bounded`: no counter, and no sum of a
  circle, exceeds the packets there were, which is what keeps the counters in the types
  they have. The sum over a circle is a fold; the lemmas on `Total` say what happens to it
  when one sample is set, cleared or moved. `LogRight` adds to `LogExact` why a program enters the
  log with the right total: until then the total of its process is what it has received
  since the last refresh. The walk over the list is a fold as well, followed from its first to
  its last element; as long as it has not left the list (`overrun`) it meets allocated
  processes only, and a program that finds no room leaves more of them in the log than
  there was room for. No theorem takes memory nobody wrote to be zero.
* `HashTable`: `ChainsAlwaysRight`, `SizeAlwaysRight`, `SweepAlwaysRight`. The invariants
  follow pointers, which no step of a proof can; so `HInv` says that there *are* lists, one
  for each bucket, that the pointers link (`Linked`), without a value twice, that hold just
  what is allocated (`Table`), and where in them a walk is (`Position`): what is before it
  has been shown, what is behind it has not. Each change of the pointers is then a change
  of one list: `Stores` puts a value in front, `TakesOut` removes one, a rehash deals
  all of them out anew.
* `HashTable` implements `Dictionary`: `PromiseKept`, and `LatestFound`. Of the first value of a
  key in its list it is shown that `hashtable_get` finds it (`FindFirst`), that a set makes
  it the new one, and that a removal of another value leaves it the first.
* `Screen`: `RowsAlwaysTrue`, `AlwaysOnePainted`, `CursorAlwaysSeen`, `HiddenAlwaysIdle`.
  A row narrower than the pad takes one line (`WrappedIs`, `LinesOf`), and of a refresh it is
  shown that it prints the rows of the list as long as all are (`PrintedAdds`,
  `ProcessAdds`, `ListPrinted`: one call, one process, the list). For any rows, what the
  keys keep is `CopyTrue`: the copy that `restore_line()` writes back is what the refresh
  has printed in the selected line, less its last column (a copy of a copy is the copy,
  `CutTwice`), unless the cursor has not moved since a refresh left it below its list. `HiddenIdle` rests on `OrdersSorted` (the list
  is a descending one of what was given to `sort()`) and on a silent connection having
  nothing in any column there is.
* `FoldProofs` is used by the last three. Neither induction nor recursion can be cited
  with an operator as parameter, so it has both for sets and functions: what is to hold for
  every subset or number is the *set* of those it holds for (`SubsetInduction`,
  `NatSetInduction`, `UpTo`), the step of a recursion is a *function* (`RecursionExists`,
  `FoldExists`). From these follow what `Max`, `Min`, `FoldLeft` and `FlattenSeq` of the
  community modules return.

Model-checked only: the liveness properties `Resolves`, `ShutdownEnds`,
`BlocksRead`, `RefreshGoesOn`, `MissServed` and `SignalThenBlock`. Liveness under fairness
is outside what the prover does.

## What the violated runs say

* `tracker_dangling` (`processes.c:172`): a process that exits between the reading of
  `/proc/net` and the listing of `/proc` is freed by the next update, its connection by
  the one after; in between `statistics_add` follows the pointer.
* `tracker_stale_tuple` (`connection.c:186`): a known inode is only marked; the line's
  addresses are not compared (there is a TODO that asks).
* `loop_frozen` (`main.c:241`): after a late refresh `diff_time` may exceed
  `T_REFRESH`, and the difference handed to `poll` is negative.
* `log_shrink` (`log.c:99`): the list is walked up to a null element nothing writes.

## What the passing runs say between the lines

Some properties hold only with a proviso that is itself worth knowing:

* `SlotsFresh`: expired slots are cleared after the lookup (`packet.c:313`), so between two
  packets, and for the first fragment after a pause, a slot may be over its lifetime.
* `FreedInPeace`: of a pool larger than `DEFAULT_NUM_WORKERS`, which `thpool_init` starts
  on a machine with more than four processors (`thread_pool.c:160`), as many workers may still
  use the queue and the slots when they are freed as there are beyond it
  (`thread_pool.c:208`).
* `LogExactInBounds`: beside the walk past the end of the list that `log_shrink` shows, a
  list that fills its vector is walked into memory nobody wrote (`log.c:99`), and so is
  any before longer ones, if `realloc` does not give zeroed memory; the 17th program is
  written behind the memory of the log before it is made larger (`log.c:121`).
* `SignalThenBlock`: an interrupted `poll` is begun anew and `prog_exit` is looked at only
  after the next block (`main.c:207`); without traffic the program does not end.
* `OneOwner`, `Resolves`: a slot whose task could not be queued stays RESOLVING, and once
  `index` comes to it no further name is looked up (`domain.c:157`).
* `SizeRight`: a table emptied by `hashtable_remove` is left with no bucket at all
  (`hashtable.c:84`). A set grows it from there; a lookup would read outside it, so the
  model allows none. In the program the tables that shrink this way are not emptied by
  it: `ht_hosts` gives an address back only to take the next one.
* `FoundLatest`: growing and shrinking turn chains around, so that of two values of one key
  another may be found after it.
* `RowsTrue`, `OnePainted`: when a refresh leaves a single row, the cursor stays where it
  was and nothing is painted; KEY_UP then writes back a line of the older list
  (`tui.c:487`, `tui.c:635`), `stray`, the only line that may be wrong. Both are claimed
  while `Fits`: `tot_rows` has a line on the pad. The pad grows for connections only
  (`tui.c:252`), so more processes than it has lines are printed in part, and the keys
  lead below it, where a line of paint lands anywhere.
* `RowsTrue`, last part: what the refresh prints is the list only if it was `whole`. The pad
  is made longer for the connections of a process as if each took one line, when the
  process is printed, and no wider: a tuple with names (`translate.c:33`) may go on in the
  next line. `tot_rows` counts it as one row (`tui.c:257`), so KEY_DOWN stops above the
  last line printed; and with a pad that is full what follows lands behind the row that
  did not fit, even if the pad is made longer in between.
* `CursorSeen`: when the list gets shorter the cursor is brought back without the part shown
  (`tui.c:496`): it may be above that by as many rows as this has happened to it.
* `HiddenIdle`: with a column other than the one that is zero, a connection with traffic
  may be hidden behind a silent one (`tui.c:259`).

## What is not modelled

* Allocation fails in `HashTable` and for tasks and slots in `Resolver`, nowhere else; in
  particular not `hashtable_set` in the resolver. A second signal and SIGWINCH are left out.
* A file of `/proc/net` is a snapshot taken when it is opened. Process identifiers, inode
  numbers and tuples are used again; the name and the totals that a process with a used
  identifier takes over from the old one (`processes.c:222`) are not in the models.
* The text of the log file (`log.c:178`, never truncated).
* Of the screen: wording, colours, the summary, curses itself (the header drawn at column
  `scroll_x` of the terminal by `show_header`, `tui.c:214`, included), and a
  `line_original` that could not be made larger (`tui.c:240`).
* The store order of the workers' two writes, name then status: a call whose body the
  compiler does not know lies between them, and x86 keeps stores in order. On a weaker
  machine `CacheConsistent` would not be shown.
* What a program does after it has used memory that was freed or never given: in
  `Accounting` the log is `Garbage` from then on, in `Screen` a paint below the pad leaves
  all lines `Mixed`. One counter stands for rx and tx bytes and packets; statistics of
  single connections are left out.
* A lookup in a table without buckets (`HashTable!Get`): it would read outside the table,
  and nobody makes one.
* Options and help, the text of numbers, names of ports, the BPF filter, the set-up of the
  socket and of the ring: read or done once, or without state.

## Plan

Done: `Tracker`, `Fragments`, `MainLoop`, `Resolver`, `Accounting`, `HashTable` and `Screen`
with proofs of all their safety properties, and the refinements of `NameCache` and
`Dictionary`. Next, in this order:

1. Proofs: an abstract ring of `MainLoop` (a queue of blocks that loses none) and the
   refinement; which rows of `Screen` are lost when the pad is full.
2. Extensions: names and totals of used identifiers and the statistics of connections in
   `Accounting`; a failing `hashtable_set` in `Resolver`; the binary semaphore from its
   mutex and condition variable.

## Running

    tlc -workers 2 -config MCTracker_quiet.cfg MCTracker
    tlapm TrackerProofs.tla

`PROJECT.json` names module, configuration and expected result of every run.
