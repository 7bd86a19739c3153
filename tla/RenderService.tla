----------------------------- MODULE RenderService -----------------------------
(***************************************************************************)
(* What stands between a recognized block and the bytes that replace it:   *)
(* RenderService of src/render.rs with the cache of src/cache.rs, in front *)
(* of the renderer PipelineFactory of src/runtime.rs composes from the     *)
(* OpenMath adapter of src/format_adapter.rs and the routes of             *)
(* src/routing.rs. Terminal widths change between two blocks.              *)
(*                                                                         *)
(* Bytes are a record of what they were made from and their length: the    *)
(* tools behind a route may answer differently each time, or fail.         *)
(***************************************************************************)
EXTENDS MemoryCache

CONSTANTS Blocks,       \* semantic blocks: records with kind, format and source
          Widths,       \* terminal widths
          EntryLimits, ByteLimits,  \* cache limits a configuration may set
          MaxLength     \* bound: length of what an engine makes of a block

Kinds == {"math", "mermaid"}

ASSUME ServiceAssumption ==
  /\ \A b \in Blocks : /\ b = [kind |-> b.kind, format |-> b.format, source |-> b.source]
                        /\ b.kind \in Kinds
  /\ \A b \in Blocks, w \in Widths :
       KeyWeight([kind |-> b.kind, format |-> b.format, source |-> b.source,
                  columns |-> w]) \in Nat
  /\ Widths \subseteq Nat \ {0} /\ Widths # {}
  /\ EntryLimits \subseteq Nat /\ ByteLimits \subseteq Nat
  /\ MaxLength \in Nat \ {0}

Routes == {"preview", "source", "configured"}
Options == {"safe", "source", "private", "no_cache"}

VARIABLES
  options,   \* PipelineOptions, the rendering mode and cache.enabled
  engines,   \* the backend of each kind
  columns,   \* RenderContext.columns
  cache,     \* the cache of the service
  reply,     \* what the last render returned, and for what
  recency    \* history: the last keys used, the most recent one last; as
             \* many as the cache may hold, so that no more is compared

vars == <<options, engines, columns, cache, reply, recency>>
-----------------------------------------------------------------------------
(* PipelineFactory::build. *)

Caching(opts) == opts \intersect {"safe", "source", "private", "no_cache"} = {}

Detecting(opts) == "safe" \notin opts

\* The route of a block: decided by its kind, unless the source is wanted.
Route(block) == IF "source" \in options THEN "source" ELSE engines[block.kind]
-----------------------------------------------------------------------------
(* The renderer: SourceRenderer, or the adapter around the routes. *)

Bytes(block, length) == [block |-> block, columns |-> columns, route |-> Route(block),
                         length |-> length]

\* The adapter converts OpenMath before any route but the source is taken.
CanFail(block) == Route(block) # "source"

\* RenderArtifact.cacheable: SourceRenderer's artifact is not.
Cacheable(block) == Route(block) # "source"
-----------------------------------------------------------------------------
(* CacheKey; renderer id, color, presentation and theme are fixed in a     *)
(* session. Mutant: without the width.                                     *)
KeyAtAnyWidth(block) ==
  [kind |-> block.kind, format |-> block.format, source |-> block.source, columns |-> 1]
CacheKey(block) ==
  [kind |-> block.kind, format |-> block.format, source |-> block.source,
   columns |-> columns]

Keys == {[kind |-> b.kind, format |-> b.format, source |-> b.source, columns |-> w] :
           b \in Blocks, w \in Widths}
Artifacts == [block : Blocks, columns : Widths, route : Routes, length : 1..MaxLength]

NoReply == [kind |-> "none"]

Init ==
  /\ options \in SUBSET Options
  /\ engines \in [Kinds -> Routes]
  /\ columns \in Widths
  /\ \E n \in EntryLimits, m \in ByteLimits : cache = NewCache(n, m)
  /\ reply = NoReply
  /\ recency = <<>>

Forget(keys, key) ==
  IF \E i \in DOMAIN keys : keys[i] = key
  THEN RemoveAt(keys, CHOOSE i \in DOMAIN keys : keys[i] = key)
  ELSE keys

Use(key) ==
  LET used == Append(Forget(recency, key), key)
      spare == Len(used) - cache.max_entries
  IN recency' = IF spare > 0 THEN SubSeq(used, spare + 1, Len(used)) ELSE used

(* RenderService::render: a hit is served as it is; otherwise the block is *)
(* rendered, and what is cacheable is put.                                 *)
Hit(block) ==
  /\ Detecting(options)
  /\ Caching(options) /\ Cached(cache, CacheKey(block))
  /\ reply' = [kind |-> "hit", block |-> block, columns |-> columns,
               bytes |-> EntryOf(cache, CacheKey(block)).bytes]
  /\ cache' = Get(cache, CacheKey(block))
  /\ Use(CacheKey(block))
  /\ UNCHANGED <<options, engines, columns>>

Missed(block) ==
  /\ Detecting(options)
  /\ ~(Caching(options) /\ Cached(cache, CacheKey(block)))

Rendered(block) ==
  /\ Missed(block)
  /\ \E length \in 1..MaxLength :
       LET bytes == Bytes(block, length)
           key == CacheKey(block)
       IN /\ reply' = [kind |-> "rendered", block |-> block, columns |-> columns,
                       bytes |-> bytes]
          /\ IF Caching(options) /\ Cacheable(block)
             THEN /\ cache' = Put(cache, key, bytes)
                  /\ IF PutAccepts(cache, key, bytes) THEN Use(key)
                     ELSE UNCHANGED recency
             ELSE UNCHANGED <<cache, recency>>
  /\ UNCHANGED <<options, engines, columns>>

Failed(block) ==
  /\ Missed(block)
  /\ CanFail(block)
  /\ reply' = [kind |-> "failed", block |-> block, columns |-> columns]
  /\ UNCHANGED <<options, engines, columns, cache, recency>>

\* DisplayPipeline::set_columns
SetColumns ==
  /\ \E w \in Widths \ {columns} : columns' = w
  /\ UNCHANGED <<options, engines, cache, reply, recency>>

Next ==
  \/ \E block \in Blocks : Hit(block) \/ Rendered(block) \/ Failed(block)
  \/ SetColumns

Spec == Init /\ [][Next]_vars
-----------------------------------------------------------------------------
(* A hit shows what was made of this very block, in its own format and at  *)
(* the width the terminal had when it was asked for, whatever was rendered *)
(* before, at which width (CacheKey, render).                              *)
HitIsCurrent ==
  reply.kind = "hit" =>
    /\ reply.bytes.block = reply.block
    /\ reply.bytes.columns = reply.columns

(* What is kept was used more recently than anything that was evicted: the *)
(* keys of the cache are the latest uses, in the order of use (get, put).  *)
KeptAreMostRecent ==
  IsSuffix([i \in DOMAIN cache.entries |-> cache.entries[i].key], recency)

-----------------------------------------------------------------------------
(* What must hold of any next call of put, a replacement included.         *)

WeightOf(entries) ==
  LET sum[i \in 0..Len(entries)] == IF i = 0 THEN 0 ELSE sum[i - 1] + entries[i].weight
  IN sum[Len(entries)]

WellAccounted(c) ==
  /\ c.bytes = WeightOf(c.entries)
  /\ \A i, j \in DOMAIN c.entries : c.entries[i].key = c.entries[j].key => i = j

(* put evicts from the oldest on, and no more than the limits ask for: it  *)
(* keeps the longest run of recent entries that fits, and what can not fit *)
(* costs no other entry its place. The bytes it counts stay those of the   *)
(* entries, keys included; on a wrong count it might never leave its loop. *)
PutKeepsAllThatFits ==
  \A key \in Keys, n \in 1..MaxLength, b \in Blocks :
    LET bytes == [block |-> b, columns |-> 1, route |-> "preview", length |-> n]
        entry == [key |-> key, bytes |-> bytes, weight |-> EntryWeight(key, bytes)]
        wanted == Append(Pop(cache, key).entries, entry)
        Fits(s) == Len(s) <= cache.max_entries /\ WeightOf(s) <= cache.max_bytes
        after == Put(cache, key, bytes)
        kept == after.entries
    IN /\ WellAccounted(after)
       /\ IF Fits(<<entry>>)
          THEN /\ kept \in Suffixes(wanted) /\ Fits(kept)
               /\ \A s \in Suffixes(wanted) : Fits(s) => Len(s) <= Len(kept)
          ELSE kept = cache.entries
=============================================================================
