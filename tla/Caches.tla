-------------------------------- MODULE Caches --------------------------------
(***************************************************************************)
(* The two caches of a source behind the FUSE file system.                 *)
(*                                                                         *)
(* crates/section-core/src/cache.rs, and data_plane.rs for how they are    *)
(* invalidated together.  A path is the sequence of its names; the empty   *)
(* sequence is the source itself.  A cache is a function from its keys to  *)
(* entries or None.  An entry that has reached its time to live is as good *)
(* as absent and is dropped when time passes.                              *)
(***************************************************************************)
EXTENDS Naturals, SequencesExt

CONSTANTS
  None,      \* no entry
  MaxBytes   \* size of the content cache

Size(bytes) == Cardinality(bytes)

(* parent_dir: a name at the top of the source has none *)
ParentDir(p) == IF Len(p) > 1 THEN {Front(p)} ELSE {}
(* path_matches_prefix *)
Under(prefix, keys) == {k \in keys : IsPrefix(prefix, k)}

Drop(cache, keys) ==
  [k \in DOMAIN cache |-> IF k \in keys THEN None ELSE cache[k]]

-----------------------------------------------------------------------------
(***************************************************************************)
(* MetadataCache: `stats` and `lists`.                                     *)
(***************************************************************************)
Put(cache, p, entry) == [cache EXCEPT ![p] = entry]

(* wrong: the listing that shows the path is kept *)
InvalidatedWithoutParent(p, recursive, keys) ==
  {p} \cup (IF recursive THEN Under(p, keys) ELSE {})
(* invalidate, after invalidate_prefix when it is recursive: the listings *)
InvalidatedLists(p, recursive, keys) ==
  {p} \cup ParentDir(p) \cup (IF recursive THEN Under(p, keys) ELSE {})
(* wrong: only what is below the path *)
StatsBelow(p, recursive, keys) == IF recursive THEN Under(p, keys) ELSE {}
(* ... and the stat entries *)
InvalidatedStats(p, recursive, keys) ==
  {p} \cup (IF recursive THEN Under(p, keys) ELSE {})

(* one unit of time: an entry of age ttl is gone *)
Aged(cache, ttl) ==
  [k \in DOMAIN cache |->
     IF cache[k] = None \/ cache[k].age + 1 = ttl THEN None
     ELSE [cache[k] EXCEPT !.age = @ + 1]]

-----------------------------------------------------------------------------
(***************************************************************************)
(* ContentCache: the entries, the paths from least to most recently used,  *)
(* the number of bytes.                                                    *)
(***************************************************************************)
EmptyContent(keys) ==
  [entries |-> [k \in keys |-> None], order |-> <<>>, current |-> 0]

(* remove_from_order: an order, which has each path once, without some *)
Without(order, gone) ==
  LET left == {i \in 1..Len(order) : order[i] \notin gone}
      Rank(i) == Cardinality({j \in left : j <= i})
  IN  [n \in 1..Cardinality(left) |-> order[CHOOSE i \in left : Rank(i) = n]]

Promote(cache, p) == [cache EXCEPT !.order = Append(Without(@, {p}), p)]

(* wrong: the bytes of the removed entry are still counted *)
RemoveUncounted(cache, p) ==
  IF cache.entries[p] = None THEN cache
  ELSE [entries |-> Drop(cache.entries, {p}),
        order |-> Without(cache.order, {p}),
        current |-> cache.current]
RemovePath(cache, p) ==
  IF cache.entries[p] = None THEN cache
  ELSE [entries |-> Drop(cache.entries, {p}),
        order |-> Without(cache.order, {p}),
        current |-> cache.current - Size(cache.entries[p].data)]

(* the bytes of the contents of some paths together *)
BytesOf(cache, keys) == Size(UNION {{k} \X cache.entries[k].data : k \in keys})

RemovePrefix(cache, prefix) ==
  LET gone == {k \in Under(prefix, DOMAIN cache.entries) : cache.entries[k] # None}
  IN  [entries |-> Drop(cache.entries, gone),
       order |-> Without(cache.order, gone),
       current |-> cache.current - BytesOf(cache, gone)]

(* the shortest run of least recently used entries that makes room *)
Evict(cache, room) ==
  LET Oldest(n) == {cache.order[i] : i \in 1..n}
      Fits(n) == cache.current - BytesOf(cache, Oldest(n)) + room <= MaxBytes
      n == CHOOSE n \in 0..Len(cache.order) :
             Fits(n) /\ \A m \in 0..(n - 1) : ~Fits(m)
  IN  [entries |-> Drop(cache.entries, Oldest(n)),
       order |-> SubSeq(cache.order, n + 1, Len(cache.order)),
       current |-> cache.current - BytesOf(cache, Oldest(n))]

(* wrong: the bytes put are not counted *)
PutUncounted(cache, p, entry) ==
  IF Size(entry.data) > MaxBytes THEN cache
  ELSE LET room == Evict(RemovePath(cache, p), Size(entry.data))
       IN  [entries |-> [room.entries EXCEPT ![p] = entry],
            order |-> Append(room.order, p), current |-> room.current]
(* data too large for the cache leaves it as it is *)
PutContent(cache, p, entry) ==
  IF Size(entry.data) > MaxBytes THEN cache
  ELSE LET room == Evict(RemovePath(cache, p), Size(entry.data))
       IN  [entries |-> [room.entries EXCEPT ![p] = entry],
            order |-> Append(room.order, p),
            current |-> room.current + Size(entry.data)]
=============================================================================
