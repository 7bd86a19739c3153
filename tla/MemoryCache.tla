------------------------------ MODULE MemoryCache ------------------------------
(***************************************************************************)
(* ArtifactCache of src/cache.rs: MemoryCache, least recently used and     *)
(* bounded in entries and bytes, and NoopCache. A cache is a record; each  *)
(* method is an operator from a cache to a cache. Counters that are only   *)
(* reported (hits, misses, insertions, evictions) are left out, and so is  *)
(* clear, which nothing calls.                                             *)
(***************************************************************************)
EXTENDS Naturals, Sequences, SequencesExt

CONSTANTS KeyWeight(_)  \* the bytes of a key

EntryWeight(key, bytes) == KeyWeight(key) + bytes.length

\* The entries from the least to the most recently used, as LruCache orders
\* them, and the bytes they are accounted for.
NewCache(max_entries, max_bytes) ==
  [max_entries |-> max_entries, max_bytes |-> max_bytes, entries |-> <<>>, bytes |-> 0]

SaturatingSub(a, b) == IF a < b THEN 0 ELSE a - b

Cached(c, key) == \E i \in DOMAIN c.entries : c.entries[i].key = key
PlaceOf(c, key) == CHOOSE i \in DOMAIN c.entries : c.entries[i].key = key
EntryOf(c, key) == c.entries[PlaceOf(c, key)]
Without(c, key) == RemoveAt(c.entries, PlaceOf(c, key))

\* LruCache::get makes the entry the most recently used. Mutant: it stays.
GetInPlace(c, key) == c
Get(c, key) ==
  IF Cached(c, key) THEN [c EXCEPT !.entries = Append(Without(c, key), EntryOf(c, key))]
  ELSE c

\* The entry that is about to be replaced. Mutant: its bytes stay counted.
PopUncounted(c, key) ==
  IF Cached(c, key) THEN [c EXCEPT !.entries = Without(c, key)] ELSE c
Pop(c, key) ==
  IF Cached(c, key)
  THEN [c EXCEPT !.entries = Without(c, key),
                 !.bytes = SaturatingSub(c.bytes, EntryOf(c, key).weight)]
  ELSE c

EvictOldest(c) ==
  IF c.entries = <<>> THEN c
  ELSE [c EXCEPT !.entries = Tail(c.entries),
                 !.bytes = SaturatingSub(c.bytes, Head(c.entries).weight)]

OverBounds(c) == Len(c.entries) > c.max_entries \/ c.bytes > c.max_bytes

\* The loop at the end of put: no more rounds than there are entries. The
\* entry LruCache::push throws out at capacity is the first round.
EvictWhileOver(c) ==
  LET round[i \in 0..Len(c.entries)] ==
        IF i = 0 THEN c
        ELSE IF OverBounds(round[i - 1]) THEN EvictOldest(round[i - 1]) ELSE round[i - 1]
  IN round[Len(c.entries)]

Admitted(c, weight) == c.max_entries # 0 /\ c.max_bytes # 0 /\ weight <= c.max_bytes

Put(c, key, bytes) ==
  LET weight == EntryWeight(key, bytes)
      popped == Pop(c, key)
  IN IF ~Admitted(c, weight) THEN c
     ELSE EvictWhileOver([popped EXCEPT
            !.entries = Append(popped.entries,
                               [key |-> key, bytes |-> bytes, weight |-> weight]),
            !.bytes = popped.bytes + weight])

PutAccepts(c, key, bytes) == Cached(Put(c, key, bytes), key)
=============================================================================
