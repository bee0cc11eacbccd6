------------------------------ MODULE HashTable ------------------------------
(***************************************************************************)
(* hashtable.c and slist.h: buckets of singly linked entries, growth when  *)
(* three quarters full, shrinking when less than a tenth is used, and the  *)
(* sweep that unlinks entries while it walks.                              *)
(*                                                                         *)
(* An entry is named by the value it holds (a caller stores a value once   *)
(* under a key, and the key lies in the value).  Each call is one step     *)
(* except hashtable_foreach_remove(), which takes one step per entry: its  *)
(* callback decides and may free the value before the walk goes on.        *)
(***************************************************************************)
EXTENDS Integers, Sequences, SequencesExt, FiniteSets

CONSTANTS Key, Value, KeyOf,
          Hash,                \* the hash of a key
          HASHTABLE_MIN_SIZE,  \* 16 in the source
          NULL

VARIABLES live,      \* entries allocated and not freed
          head,      \* ht->buckets[i].head
          next,      \* the next pointer of an entry; NULL once it is freed
          nbuckets, nentries,
          answer,    \* the key of the last call and what it returned
          walk       \* the locals of hashtable_foreach_remove(), or the phase

vars == <<live, head, next, nbuckets, nentries, answer, walk>>

Phase == {"idle", "sweep", "each", "gone"}
Walking == walk.ph \in {"sweep", "each"}
NoWalk(ph) == [ph |-> ph, i |-> 0, entry |-> NULL, prev |-> NULL, seen |-> {}]
Idle == walk.ph = "idle"
NoAnswer == <<NULL, NULL>>

----------------------------------------------------------------------------
\* The powers of 2 up to the one with exponent s
Powers(s) == LET power[e \in 0..s] == IF e = 0 THEN 1 ELSE 2 * power[e - 1]
             IN {power[e] : e \in 0..s}

ASSUME HashTableAssumption ==
  /\ IsFiniteSet(Value) /\ NULL \notin Value
  /\ KeyOf \in [Value -> Key] /\ Hash \in [Key -> Nat]
  /\ HASHTABLE_MIN_SIZE \in Nat \ {0} /\ HASHTABLE_MIN_SIZE \in Powers(HASHTABLE_MIN_SIZE)

\* next_power2(): the smallest power of 2 not below s; 0 - 1 wraps around and
\* the last increment brings it back to 0.
NextPower2(s) == IF s = 0 THEN 0 ELSE Min({p \in Powers(s) : s <= p})

\* faulty: hashtable_rehash() without the factor
NewSize_Tight(entries) == NextPower2(entries)

\* HASHTABLE_HIGH (0.75), HASHTABLE_LOW (0.10) and HASHTABLE_REHASH_FACTOR
\* (2.0 / 0.85) as integer arithmetic.
TooFull(entries, buckets) == 4 * entries > 3 * buckets
TooEmpty(entries, buckets) == 10 * entries < buckets
NewSize(entries) == NextPower2((40 * entries) \div 17)

\* hash & (size - 1), for a size that is a power of 2
Index(v, size) == Hash[KeyOf[v]] % size

\* The entries from e on, in the order of the next pointers.
From(nx, e) ==
  LET path[n \in 0..Cardinality(Value)] ==
        [v \in Value \cup {NULL} |->
           IF n = 0 \/ v = NULL THEN <<>> ELSE <<v>> \o path[n - 1][nx[v]]]
  IN path[Cardinality(Value)][e]

Chain(i) == From(next, head[i])

\* a table without its counters: the heads and the next pointers
Links == [head |-> head, next |-> next]

Prepend(t, i, v) == [t EXCEPT !.head[i] = v, !.next[v] = t.head[i]]

\* slist_remove(), and free(): the pointer of a freed entry is gone
Unlink(t, i, prev, v) ==
  IF prev = NULL THEN [t EXCEPT !.head[i] = t.next[v], !.next[v] = NULL]
                 ELSE [t EXCEPT !.next[prev] = t.next[v], !.next[v] = NULL]

\* hashtable_rehash(): all entries move to the new buckets, bucket by bucket
\* from the head on, each in front of those already there.  (The new size is
\* never the old one when a table is too full or too empty.)
Rehashed(t, size) ==
  LET order == FlattenSeq([j \in 1..nbuckets |-> From(t.next, t.head[j - 1])])
      empty == [head |-> [i \in 0..(size - 1) |-> NULL], next |-> t.next]
  IN FoldLeft(LAMBDA u, v : Prepend(u, Index(v, size), v), empty, order)

----------------------------------------------------------------------------
Empty == [head |-> [i \in 0..(HASHTABLE_MIN_SIZE - 1) |-> NULL],
          next |-> [v \in Value |-> NULL]]

\* hashtable_min_new()
Init ==
  /\ head = Empty.head /\ next = Empty.next
  /\ live = {} /\ nentries = 0 /\ nbuckets = HASHTABLE_MIN_SIZE
  /\ answer = NoAnswer /\ walk = NoWalk("idle")

Become(t, buckets, entries, alloc) ==
  /\ head' = t.head /\ next' = t.next
  /\ nbuckets' = buckets /\ nentries' = entries /\ live' = alloc

\* The buckets after nentries has become entries and, if they are no longer
\* fit for it, hashtable_rehash() had the memory.
Resized(t, entries) == Rehashed(t, NewSize(entries))

\* faulty: the bucket is chosen before the table grows
SetGrown_Early(v) ==
  /\ TooFull(nentries + 1, nbuckets) /\ nbuckets # 0
  /\ LET size == NewSize(nentries + 1)
     IN Become(Prepend(Resized(Links, nentries + 1), Index(v, nbuckets), v),
               size, nentries + 1, live \cup {v})

\* faulty: the table grows with the new entry in it
SetGrown_After(v) ==
  /\ TooFull(nentries + 1, nbuckets) /\ nbuckets # 0
  /\ Become(Resized(Prepend(Links, Index(v, nbuckets), v), nentries + 1),
            NewSize(nentries + 1), nentries + 1, live \cup {v})

\* hashtable_min_set(): the entry is counted, the table grows if need be, and
\* the entry goes in front of its chain.  Without memory for the entry or for
\* the buckets nothing is left of it.
SetGrown(v) ==
  /\ TooFull(nentries + 1, nbuckets)
  /\ LET size == NewSize(nentries + 1)
     IN Become(Prepend(Resized(Links, nentries + 1), Index(v, size), v),
               size, nentries + 1, live \cup {v})

SetInPlace(v) ==
  /\ ~TooFull(nentries + 1, nbuckets)
  /\ Become(Prepend(Links, Index(v, nbuckets), v), nbuckets, nentries + 1, live \cup {v})

Set(v) ==
  /\ Idle /\ v \notin live
  /\ \/ (SetGrown(v) \/ SetInPlace(v)) /\ answer' = <<KeyOf[v], v>>
     \/ answer' = <<KeyOf[v], NULL>> /\ UNCHANGED <<live, head, next, nbuckets, nentries>>
  /\ UNCHANGED walk

----------------------------------------------------------------------------
\* faulty: the hash alone
Matches_Hash(v, k) == Hash[KeyOf[v]] = Hash[k]

\* get_entry(): the first entry of the chain with the key; NULL if none.
Matches(v, k) == Hash[KeyOf[v]] = Hash[k] /\ KeyOf[v] = k

Find(k) ==
  LET chain == Chain(Hash[k] % nbuckets)
      found == {n \in DOMAIN chain : Matches(chain[n], k)}
  IN IF found = {} THEN NULL ELSE chain[Min(found)]

Predecessor(v) == LET before == {u \in live : next[u] = v}
                  IN IF before = {} THEN NULL ELSE CHOOSE u \in before : TRUE

\* hashtable_min_get().  Without buckets the index is the hash itself and the
\* read is undefined; no caller looks into a table it has just emptied.
Get(k) ==
  /\ Idle /\ nbuckets # 0
  /\ answer' = <<k, Find(k)>>
  /\ UNCHANGED <<live, head, next, nbuckets, nentries, walk>>

\* hashtable_min_remove(): shrinking may fail for want of memory, unnoticed.
Unlinked(v) ==
  LET t == Unlink(Links, Index(v, nbuckets), Predecessor(v), v)
  IN \/ /\ TooEmpty(nentries - 1, nbuckets)
        /\ Become(Resized(t, nentries - 1), NewSize(nentries - 1), nentries - 1, live \ {v})
     \/ Become(t, nbuckets, nentries - 1, live \ {v})

RemoveKey(k) ==
  /\ Idle /\ nbuckets # 0
  /\ answer' = <<k, Find(k)>>
  /\ IF Find(k) = NULL THEN UNCHANGED <<live, head, next, nbuckets, nentries>>
                        ELSE Unlinked(Find(k))
  /\ UNCHANGED walk

----------------------------------------------------------------------------
\* hashtable_foreach_remove(), or hashtable_foreach(): the walk begins at the
\* head of the first bucket.
WalkBegin ==
  /\ Idle /\ nbuckets # 0
  /\ \E ph \in {"sweep", "each"} : walk' = [NoWalk(ph) EXCEPT !.entry = head[0]]
  /\ UNCHANGED <<live, head, next, nbuckets, nentries, answer>>

\* faulty: the next entry is read after the callback and free()
Step_Late(v) == [walk EXCEPT !.entry = next'[v], !.seen = @ \cup {v}]

\* The next entry was read before the callback was called.
Step(v) == [walk EXCEPT !.entry = next[v], !.seen = @ \cup {v}]

\* the callback condemns the entry ...
SweepDrop ==
  /\ walk.ph = "sweep" /\ walk.entry # NULL
  /\ Become(Unlink(Links, walk.i, walk.prev, walk.entry), nbuckets, nentries - 1,
            live \ {walk.entry})
  /\ walk' = Step(walk.entry)
  /\ UNCHANGED answer

\* ... or keeps it
WalkOn ==
  /\ Walking /\ walk.entry # NULL
  /\ UNCHANGED <<live, head, next, nbuckets, nentries, answer>>
  /\ walk' = [Step(walk.entry) EXCEPT !.prev = walk.entry]

\* the chain is at its end: the next bucket, or the walk is over
WalkBucket ==
  /\ Walking /\ walk.entry = NULL
  /\ walk' = IF walk.i + 1 < nbuckets
             THEN [walk EXCEPT !.i = @ + 1, !.entry = head[walk.i + 1], !.prev = NULL]
             ELSE NoWalk("idle")
  /\ UNCHANGED <<live, head, next, nbuckets, nentries, answer>>

\* the callback of hashtable_foreach() ends the walk
EachStop ==
  /\ walk.ph = "each" /\ walk.entry # NULL
  /\ walk' = NoWalk("idle")
  /\ UNCHANGED <<live, head, next, nbuckets, nentries, answer>>

\* hashtable_min_detroy(): bucket after bucket until the counter says that none
\* is left; what the counter hides is never freed.
Freed ==
  LET before(i) == UNION {ToSet(Chain(j)) : j \in 0..(i - 1)}
  IN UNION {ToSet(Chain(i)) : i \in {j \in 0..(nbuckets - 1) : Cardinality(before(j)) < nentries}}

Destroy ==
  /\ Idle
  /\ live' = live \ Freed /\ nentries' = nentries - Cardinality(Freed)
  /\ head' = <<>> /\ next' = [v \in Value |-> NULL] /\ nbuckets' = 0
  /\ answer' = NoAnswer /\ walk' = NoWalk("gone")

\* hashtable_new() after the table is gone
New ==
  /\ walk.ph = "gone"
  /\ Become(Empty, HASHTABLE_MIN_SIZE, 0, {}) /\ answer' = NoAnswer /\ walk' = NoWalk("idle")

Next ==
  \/ \E v \in Value : Set(v)
  \/ \E k \in Key : Get(k) \/ RemoveKey(k)
  \/ WalkBegin \/ SweepDrop \/ WalkOn \/ WalkBucket \/ EachStop
  \/ Destroy \/ New

Spec == Init /\ [][Next]_vars

----------------------------------------------------------------------------
Stored == UNION {ToSet(Chain(i)) : i \in DOMAIN head}

TypeOK ==
  /\ live \subseteq Value /\ nbuckets \in Nat /\ nentries \in Nat
  /\ head \in [0..(nbuckets - 1) -> Value \cup {NULL}]
  /\ next \in [Value -> Value \cup {NULL}]
  /\ answer \in (Key \cup {NULL}) \X (Value \cup {NULL})
  /\ walk.ph \in Phase /\ walk.seen \subseteq Value

\* The pointers of hashtable.c describe exactly the entries that are allocated:
\* every one is met by walking the buckets, once, in the bucket its hash names
\* now, and nentries is their number.  When the table is gone nothing is left.
ChainsRight ==
  /\ TypeOK
  /\ Stored = live /\ nentries = Cardinality(live)
  /\ \A i \in DOMAIN head :
       /\ IsInjective(Chain(i))
       /\ \A v \in ToSet(Chain(i)) : Index(v, nbuckets) = i

\* A table that holds something has a power of 2 of buckets (the mask of
\* get_index() needs that) and is at most three quarters full, also where
\* shrinking computes the size anew without regard to HASHTABLE_MIN_SIZE.  Only
\* one that was emptied may be left with no bucket at all.
SizeRight ==
  walk.ph # "gone" =>
    /\ nbuckets \in {0} \cup Powers(nbuckets)
    /\ nbuckets = 0 => live = {}
    /\ ~TooFull(nentries, nbuckets)

\* The walks show every entry to their callback once: what a walk has still
\* before it is what it has not shown, whatever was unlinked.
Rest == ToSet(From(next, walk.entry))
        \cup UNION {ToSet(Chain(i)) : i \in {j \in DOMAIN head : j > walk.i}}

SweepRight == Walking => Rest = live \ walk.seen

\* A value just stored is the one found under its key, also when storing it
\* turned all chains around; otherwise the answer for a key changes only when a
\* value of that key comes or goes, or with the number of buckets (where of two
\* values of one key another may come first).
Under(k) == {v \in live : KeyOf[v] = k}

FoundLatest ==
  [][\A k \in Key :
       nbuckets # 0 /\ nbuckets' # 0 =>
         /\ \A v \in live' \ live : KeyOf[v] = k => Find(k)' = v
         /\ nbuckets' = nbuckets /\ Under(k)' = Under(k) => Find(k)' = Find(k)]_vars

\* The table keeps the promise of its header (module Dictionary).
Promise == INSTANCE Dictionary WITH stored <- Stored
KeepsPromise == Promise!Spec
=============================================================================
