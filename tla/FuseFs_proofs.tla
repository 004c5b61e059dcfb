----------------------------- MODULE FuseFs_proofs -----------------------------
(***************************************************************************)
(* FuseFs, for any paths, bytes, handles, users, times to live and bounds: *)
(* no request leaves a cache entry that it made wrong, no flush loses      *)
(* bytes behind the back of its handle, and the content cache counts what  *)
(* it holds.                                                               *)
(*                                                                         *)
(* The argument.  Every request is of one of a few kinds (StepKinds), and  *)
(* each kind changes few paths: those it names, besides directories above  *)
(* them that a write makes again (Touched).  What it invalidates covers    *)
(* those paths, and an entry of a path that stays as it was stays right.   *)
(* What others do, and calls that fail, make unsure the entries of the     *)
(* paths that change.  Where the cached contents are right, a handle that  *)
(* is not raced holds every byte of its file (Buffers), so that its flush  *)
(* drops none.  The content cache (Accounts): its count is the cardinality *)
(* of the bytes it holds, each taken with its path (Held), so that what is *)
(* removed takes its share of the count along (BytesApart); eviction ends  *)
(* since dropping everything makes room (EvictAccounts).                   *)
(***************************************************************************)
EXTENDS FuseFs, FiniteSetTheorems, WellFoundedInduction, TLAPS

(* What a cache holds at a key. *)
StatEntries == [meta : {Dir} \cup {Size(b) : b \in Bytes}, age : Nat, sure : BOOLEAN]
ListEntries ==
  [seen : SUBSET (Paths \X ({Dir} \cup {Size(b) : b \in Bytes})), age : Nat, sure : BOOLEAN]
ContentEntries == [data : Bytes, sure : BOOLEAN]

(* What a content cache is made of. *)
IsContent(cache) ==
  /\ cache = [entries |-> cache.entries, order |-> cache.order, current |-> cache.current]
  /\ cache.entries \in [Keys -> ContentEntries \cup {None}]

(* Without a content cache there are no entries. *)
Hides(cache) == ~CachesContent => \A k \in Keys : cache.entries[k] = None
(* What is cached and sure is the file. *)
Current(cache, fs) ==
  \A p \in Paths : cache.entries[p] # None /\ cache.entries[p].sure =>
    fs[p] = cache.entries[p].data
(* No file is larger than the content cache. *)
Fits == \A b \in Bytes : Size(b) <= MaxBytes

(* A path lies below the source, and prefixes itself. *)
LEMMA PathFacts ==
  ASSUME NEW p \in Paths
  PROVE  /\ p # Source /\ p \in Keys /\ Front(p) \in Keys
         /\ IsPrefix(p, p)
         /\ Front(p) \in Paths => ParentDir(p) = {Front(p)}
<1>1. p \in Seq(ToSet(p)) /\ p # <<>> /\ Front(p) \in Keys
  BY PathsAssumption, ValuesAssumption DEF Source
<1>2. IsPrefix(p, p)
  BY <1>1 DEF IsPrefix
<1>3. Len(p) <= 1 => Front(p) = <<>>
  BY <1>1 DEF Front
<1> QED
  BY <1>1, <1>2, <1>3, PathsAssumption DEF Source, Keys, ParentDir

-----------------------------------------------------------------------------
(* The content cache: entries go, and the one that is put is there. *)
LEMMA RemovePathFacts ==
  ASSUME NEW cache, IsContent(cache), NEW p \in Keys
  PROVE  /\ IsContent(RemovePath(cache, p))
         /\ RemovePath(cache, p).entries = [cache.entries EXCEPT ![p] = None]
BY DEF RemovePath, IsContent, Drop

LEMMA RemovePrefixFacts ==
  ASSUME NEW cache, IsContent(cache), NEW p \in Paths
  PROVE  /\ IsContent(RemovePrefix(cache, p))
         /\ RemovePrefix(cache, p).entries[p] = None
         /\ \A k \in Keys : RemovePrefix(cache, p).entries[k] \in {None, cache.entries[k]}
BY PathFacts DEF RemovePrefix, IsContent, Drop, Under

LEMMA EvictFacts ==
  ASSUME NEW cache, IsContent(cache), NEW room
  PROVE  /\ IsContent(Evict(cache, room))
         /\ \A k \in Keys : Evict(cache, room).entries[k] \in {None, cache.entries[k]}
BY DEF Evict, IsContent, Drop

LEMMA SizeFacts ==
  ASSUME NEW b \in Bytes
  PROVE  Size(b) \in Nat
<1>1. IsFiniteSet(b)
  BY SettingsAssumption, FS_Subset DEF Bytes
<1> QED BY <1>1, FS_CardinalityType DEF Size

LEMMA PutFacts ==
  ASSUME NEW cache, IsContent(cache), NEW p \in Keys, NEW data \in Bytes
  PROVE  LET new == PutCachedContent(cache, p, data) IN
         /\ IsContent(new)
         /\ \A k \in Keys \ {p} : new.entries[k] \in {None, cache.entries[k]}
         /\ new.entries[p] \in {cache.entries[p], [data |-> data, sure |-> TRUE]}
         /\ Size(data) <= MaxBytes /\ CachesContent
              => new.entries[p] = [data |-> data, sure |-> TRUE]
         /\ ~CachesContent => new = cache
<1> DEFINE entry == [data |-> data, sure |-> TRUE]
           less == RemovePath(cache, p)
           room == Evict(less, Size(data))
<1>1. IsContent(less) /\ less.entries = [cache.entries EXCEPT ![p] = None]
  BY RemovePathFacts
<1>2. IsContent(room) /\ \A k \in Keys : room.entries[k] \in {None, less.entries[k]}
  BY <1>1, EvictFacts
<1>3. \A k \in Keys \ {p} : room.entries[k] \in {None, cache.entries[k]}
  <2> HIDE DEF less, room
  <2> QED BY <1>1, <1>2 DEF IsContent
<1>4. entry \in ContentEntries /\ entry.data = data
  BY DEF ContentEntries
<1>5. PutContent(cache, p, entry) =
        IF Size(data) > MaxBytes THEN cache
        ELSE [entries |-> [room.entries EXCEPT ![p] = entry],
              order |-> Append(room.order, p),
              current |-> room.current + Size(data)]
  BY <1>4 DEF PutContent
<1>6. MaxBytes \in Nat
  BY SettingsAssumption
<1>7. CASE ~CachesContent
  BY <1>7 DEF PutCachedContent
<1>8. CASE CachesContent /\ Size(data) > MaxBytes
  <2>1. PutCachedContent(cache, p, data) = cache
    BY <1>5, <1>8 DEF PutCachedContent
  <2> QED BY <1>6, <1>8, <2>1, SizeFacts
<1>9. CASE CachesContent /\ ~(Size(data) > MaxBytes)
  <2> HIDE DEF room, entry
  <2>1. PutCachedContent(cache, p, data)
          = [entries |-> [room.entries EXCEPT ![p] = entry],
             order |-> Append(room.order, p),
             current |-> room.current + Size(data)]
    BY <1>5, <1>9 DEF PutCachedContent, entry
  <2>2. [room.entries EXCEPT ![p] = entry] \in [Keys -> ContentEntries \cup {None}]
    BY <1>2, <1>4 DEF IsContent
  <2> QED BY <1>2, <1>3, <1>9, <2>1, <2>2 DEF IsContent, entry
<1> QED BY <1>7, <1>8, <1>9

-----------------------------------------------------------------------------
(* The backing source. *)
LEMMA WithFacts ==
  ASSUME files \in [Paths -> Nodes], NEW p \in Paths, Reachable(p), NEW node \in Nodes
  PROVE  LET new == With(files, p, node) IN
         /\ new \in [Paths -> Nodes] /\ new[p] = node
         /\ \A q \in Paths \ {p} :
              new[q] = files[q] \/ (q \in Above(p) /\ files[q] = Absent /\ new[q] = Dir)
BY DEF With, Above, Reachable, Nodes

LEMMA RemovedFacts ==
  ASSUME NEW fs \in [Paths -> Nodes], NEW p \in Paths
  PROVE  /\ Removed(fs, p) \in [Paths -> Nodes] /\ Removed(fs, p)[p] = Absent
         /\ \A q \in Paths \ {p} : Removed(fs, p)[q] = fs[q]
BY DEF Removed, Nodes

LEMMA NodeFacts ==
  ASSUME NEW node \in Nodes
  PROVE  /\ node \in Bytes <=> node \notin {Dir, Absent}
         /\ node # Absent => Meta(node) \in {Dir} \cup {Size(b) : b \in Bytes}
BY ValuesAssumption DEF Nodes, Meta

(* A listing depends on the names in its directory. *)
LEMMA ListingFacts ==
  ASSUME files \in [Paths -> Nodes], NEW d \in Keys
  PROVE  /\ Listing(d) \in SUBSET (Paths \X ({Dir} \cup {Size(b) : b \in Bytes}))
         /\ (\A p \in Paths : Front(p) = d => files'[p] = files[p]) => Listing(d)' = Listing(d)
<1>1. \A p \in Paths : files[p] \in Nodes
  OBVIOUS
<1>2. Listing(d) \in SUBSET (Paths \X ({Dir} \cup {Size(b) : b \in Bytes}))
  BY <1>1, NodeFacts DEF Listing, Below
<1>3. ASSUME \A p \in Paths : Front(p) = d => files'[p] = files[p]
      PROVE  Listing(d)' = Listing(d)
  BY <1>3 DEF Listing, Below
<1> QED BY <1>2, <1>3

(* What InvalidateMetadata reaches. *)
LEMMA InvalidatedFacts ==
  ASSUME NEW p, NEW recursive
  PROVE  /\ p \in InvalidatedStats(p, recursive, Keys)
         /\ p \in InvalidatedLists(p, recursive, Keys)
         /\ p \in Paths /\ Front(p) \in Paths => Front(p) \in InvalidatedLists(p, recursive, Keys)
BY PathFacts DEF InvalidatedStats, InvalidatedLists

LEMMA RemoveFacts ==
  ASSUME NEW cache, IsContent(cache), NEW p \in Paths, NEW recursive \in BOOLEAN
  PROVE  LET new == RemoveContent(cache, p, recursive) IN
         /\ IsContent(new) /\ new.entries[p] = None
         /\ \A k \in Keys : new.entries[k] \in {None, cache.entries[k]}
<1>1. CASE recursive
  BY <1>1, RemovePrefixFacts DEF RemoveContent
<1>2. CASE ~recursive
  <2>1. RemoveContent(cache, p, recursive) = RemovePath(cache, p) /\ p \in Keys
    BY <1>2, PathFacts DEF RemoveContent
  <2>2. /\ IsContent(RemovePath(cache, p))
        /\ RemovePath(cache, p).entries = [cache.entries EXCEPT ![p] = None]
    BY <2>1, RemovePathFacts
  <2> QED BY <2>1, <2>2 DEF IsContent
<1> QED BY <1>1, <1>2

-----------------------------------------------------------------------------
(***************************************************************************)
(* What a step does, by the kind of request.                               *)
(***************************************************************************)
(* Each kind of request; Troubled stands for what is not this mount's doing. *)
Flushing(h) == Dirty(h) /\ FlushOver(h)
Looking ==
  \/ \E p \in Paths : Lookup(p) \/ GetAttr(p) \/ Refresh(p)
  \/ \E d \in Keys : ReadDir(d)
  \/ ClearAllCaches \/ Tick
Opening(h, p) == \E user \in Users, writes \in BOOLEAN : Open(h, p, user, writes)
Making(p) ==
  \E user \in Users : Mkdir(p, user) \/ \E h \in Handles : Create(h, p, user)
Deleting(p) == \E user \in Users : Unlink(p, user) \/ Rmdir(p, user)
Renaming(p, q) == \E user \in Users : Rename(p, q, user)
Troubled ==
  /\ troubles' = troubles + 1 /\ DoubtCaches /\ files' \in [Paths -> Nodes]
  /\ \/ open' = Raced(open)
     \/ \E h \in Handles :
          /\ Dirty(h) /\ files'[open[h].path] = open[h].data
          /\ open' = [Raced(open) EXCEPT ![h] = open[h]]
     \/ \E h \in Handles : files' = files /\ open' = [open EXCEPT ![h] = Closed]

(* The types of what the properties are about. *)
Typed ==
  /\ files \in [Paths -> Nodes]
  /\ open \in [Handles -> OpenFiles \cup {Closed}]
  /\ IsContent(content) /\ Hides(content)
  /\ troubles \in Nat

(* An open file. *)
LEMMA OpenFacts ==
  ASSUME Typed, NEW h \in Handles, open[h] # Closed
  PROVE  /\ open[h] \in OpenFiles
         /\ open[h].path \in Paths /\ open[h].data \in Bytes /\ open[h].data \in Nodes
BY DEF Typed, OpenFiles, Nodes

(* Every failed call and every change by another client is a trouble. *)
LEMMA FailureKinds ==
  ASSUME Typed, Failure \/ \E p \in Paths, node \in Nodes : Foreign(p, node)
  PROVE  Troubled
<1>1. ASSUME NEW h \in Handles, FlushFails(h)
      PROVE  Troubled
  <2> DEFINE p == open[h].path
             data == open[h].data
  <2>1. p \in Paths /\ data \in Nodes
    BY <1>1, OpenFacts DEF FlushFails, Dirty
  <2>2. Reachable(p) /\ files' = With(files, p, data) /\ files \in [Paths -> Nodes]
    BY <1>1 DEF FlushFails, CanPut, Typed
  <2> HIDE DEF p, data
  <2>3. files' \in [Paths -> Nodes] /\ files'[p] = data
    BY <2>1, <2>2, WithFacts
  <2> QED
    BY <1>1, <2>3 DEF FlushFails, Trouble, Troubled, p, data
<1>2. ASSUME NEW h \in Handles, ReleaseFails(h)
      PROVE  Troubled
  <2>1. files' = files /\ open' = Raced([open EXCEPT ![h] = Closed])
    BY <1>2 DEF ReleaseFails, FailsAfter
  <2>2. Changed = {}
    BY <2>1 DEF Changed
  <2>3. Raced([open EXCEPT ![h] = Closed]) = [open EXCEPT ![h] = Closed]
    BY <2>2 DEF Raced, Typed
  <2> QED
    BY <1>2, <2>1, <2>3 DEF ReleaseFails, FailsAfter, Trouble, Troubled, Typed
<1>3. ASSUME NEW p \in Paths, NEW user \in Users, MakeFails(p, user)
      PROVE  Troubled
  <2>1. {} \in Nodes /\ Dir \in Nodes
    BY DEF Nodes, Bytes
  <2>2. PICK node \in {{}, Dir} : FailsAfter(With(files, p, node), open)
    BY <1>3 DEF MakeFails
  <2>3. With(files, p, node) \in [Paths -> Nodes]
    BY <1>3, <2>1, WithFacts DEF MakeFails, CanPut, Typed
  <2>4. Trouble
    BY <1>3 DEF MakeFails
  <2> QED
    BY <2>2, <2>3, <2>4 DEF FailsAfter, Trouble, Troubled
<1>4. ASSUME NEW p \in Paths, NEW user \in Users, DeleteFails(p, user)
      PROVE  Troubled
  BY <1>4, RemovedFacts DEF DeleteFails, FailsAfter, Trouble, Troubled, Typed
<1>5. ASSUME NEW p \in Paths, NEW q \in Paths, NEW user \in Users, RenameFails(p, q, user)
      PROVE  Troubled
  <2>1. files[p] \in Nodes
    BY DEF Typed
  <2>2. With(files, q, files[p]) \in [Paths -> Nodes]
    BY <1>5, <2>1, WithFacts DEF RenameFails, MayRename, CanPut, Typed
  <2>3. Removed(With(files, q, files[p]), p) \in [Paths -> Nodes]
    BY <2>2, RemovedFacts
  <2> QED
    BY <1>5, <2>2, <2>3 DEF RenameFails, FailsAfter, Trouble, Troubled
<1>6. ASSUME NEW p \in Paths, NEW node \in Nodes, Foreign(p, node)
      PROVE  Troubled
  BY <1>6 DEF Foreign, Trouble, Troubled, Typed
<1> QED
  BY <1>1, <1>2, <1>3, <1>4, <1>5, <1>6 DEF Failure

(* The requests that may change more than the inode table. *)
LEMMA StepKinds ==
  ASSUME Typed, [Next]_vars
  PROVE  \/ UNCHANGED <<files, caches, open>>
         \/ Looking
         \/ \E h \in Handles, p \in Paths : Opening(h, p)
         \/ \E h \in Handles, chunk \in Chunks : Write(h, chunk)
         \/ \E h \in Handles : Flush(h) \/ Release(h)
         \/ \E p \in Paths : Making(p) \/ Deleting(p)
         \/ \E p, q \in Paths : Renaming(p, q)
         \/ Troubled
<1>1. ASSUME NEW p \in Paths, NEW user \in Users, NEW mode \in Modes, NEW uid \in Owners,
             SetAttr(p, user, mode, uid, GroupOf[uid])
      PROVE  UNCHANGED <<files, caches, open>>
  BY <1>1 DEF SetAttr
<1> QED
  BY <1>1, FailureKinds
  DEF Next, Look, Use, Change, Looking, Opening, Making, Deleting, Renaming, vars, caches

(* A call that fails, or another client, leaves every entry as it was or   *)
(* makes it unsure.                                                        *)
LEMMA DoubtedFacts ==
  ASSUME Typed, Troubled
  PROVE  /\ IsContent(content')
         /\ \A k \in Keys : content.entries[k] = None => content'.entries[k] = None
         /\ \A p \in Paths : content'.entries[p] # None /\ content'.entries[p].sure =>
              /\ content.entries[p] # None /\ content.entries[p].sure
              /\ content'.entries[p].data = content.entries[p].data
              /\ files'[p] = files[p]
<1> DEFINE new == Doubted(content.entries, Changed)
<1>1. content' = [content EXCEPT !.entries = new]
  BY DEF Troubled, DoubtCaches
<1>2. content.entries \in [Keys -> ContentEntries \cup {None}]
  BY DEF Typed, IsContent
<1>3. new = [k \in Keys |->
               IF k \in Changed /\ content.entries[k] # None
               THEN [content.entries[k] EXCEPT !.sure = FALSE] ELSE content.entries[k]]
  BY <1>2 DEF Doubted
<1>4. \A e \in ContentEntries : [e EXCEPT !.sure = FALSE] \in ContentEntries
                               /\ ~[e EXCEPT !.sure = FALSE].sure
  BY DEF ContentEntries
<1>5. new \in [Keys -> ContentEntries \cup {None}]
  BY <1>2, <1>3, <1>4
<1>6. content' = [entries |-> new, order |-> content.order, current |-> content.current]
  BY <1>1 DEF Typed, IsContent
<1> HIDE DEF new
<1>7. IsContent(content') /\ content'.entries = new
  BY <1>5, <1>6 DEF IsContent
<1>8. ASSUME NEW p \in Paths, new[p] # None, new[p].sure
      PROVE  /\ content.entries[p] # None /\ content.entries[p].sure
             /\ new[p].data = content.entries[p].data /\ files'[p] = files[p]
  <2>1. p \in Keys
    BY DEF Keys
  <2>2. p \notin Changed
    BY <1>2, <1>3, <1>4, <1>8, <2>1
  <2>3. new[p] = content.entries[p]
    BY <1>3, <2>1, <2>2
  <2> QED BY <1>8, <2>2, <2>3 DEF Changed
<1> QED BY <1>3, <1>7, <1>8

(* Handles are raced when their file changes, and nothing else happens to  *)
(* them.                                                                   *)
LEMMA RacedFacts ==
  ASSUME Typed
  PROVE  /\ Raced(open) \in [Handles -> OpenFiles \cup {Closed}]
         /\ \A h \in Handles :
              /\ open[h] = Closed => Raced(open)[h] = Closed
              /\ open[h] # Closed =>
                   /\ Raced(open)[h] # Closed
                   /\ Raced(open)[h].path = open[h].path
                   /\ Raced(open)[h].data = open[h].data
                   /\ Raced(open)[h].dirty = open[h].dirty
                   /\ ~Raced(open)[h].raced =>
                        ~open[h].raced /\ files'[open[h].path] = files[open[h].path]
<1>1. \A f \in OpenFiles : LET new == [f EXCEPT !.raced = TRUE] IN
        /\ new \in OpenFiles /\ new.path = f.path /\ new.data = f.data
        /\ new.dirty = f.dirty /\ new.raced
  BY DEF OpenFiles
<1>2. ASSUME NEW h \in Handles, open[h] # Closed
      PROVE  open[h] \in OpenFiles /\ open[h].path \in Paths
  BY <1>2, OpenFacts
<1>3. \A h \in Handles :
        Raced(open)[h] = IF open[h] # Closed /\ open[h].path \in Changed
                         THEN [open[h] EXCEPT !.raced = TRUE] ELSE open[h]
  BY DEF Raced
<1>4. Raced(open) \in [Handles -> OpenFiles \cup {Closed}]
  BY <1>1, <1>2 DEF Raced, Typed
<1>5. Closed \notin OpenFiles
  BY ValuesAssumption
<1>6. ASSUME NEW h \in Handles, open[h] # Closed
      PROVE  /\ Raced(open)[h] # Closed
             /\ Raced(open)[h].path = open[h].path
             /\ Raced(open)[h].data = open[h].data
             /\ Raced(open)[h].dirty = open[h].dirty
             /\ ~Raced(open)[h].raced =>
                  ~open[h].raced /\ files'[open[h].path] = files[open[h].path]
  <2>1. CASE open[h].path \in Changed
    <3>1. Raced(open)[h] = [open[h] EXCEPT !.raced = TRUE]
      BY <1>3, <1>6, <2>1
    <3> QED BY <1>1, <1>2, <1>5, <1>6, <3>1
  <2>2. CASE open[h].path \notin Changed
    <3>1. Raced(open)[h] = open[h]
      BY <1>3, <1>6, <2>2
    <3>2. files'[open[h].path] = files[open[h].path]
      BY <1>2, <1>6, <2>2 DEF Changed
    <3> QED BY <1>6, <3>1, <3>2
  <2> QED BY <2>1, <2>2
<1> QED
  BY <1>3, <1>4, <1>6

(* Only the paths in hit change, and directories above them are made. *)
Touched(hit) ==
  /\ files' \in [Paths -> Nodes]
  /\ \A q \in Paths \ hit : files'[q] = files[q]
       \/ (files[q] = Absent /\ files'[q] = Dir /\ \E p \in hit : q \in Above(p))

LEMMA WithTouched ==
  ASSUME files \in [Paths -> Nodes], NEW p \in Paths, Reachable(p), NEW node \in Nodes,
         files' = With(files, p, node)
  PROVE  Touched({p}) /\ files'[p] = node
<1>1. /\ files' \in [Paths -> Nodes] /\ files'[p] = node
      /\ \A q \in Paths \ {p} :
           files'[q] = files[q] \/ (q \in Above(p) /\ files[q] = Absent /\ files'[q] = Dir)
  BY WithFacts
<1> QED BY <1>1 DEF Touched

(* A flush of a handle. *)
LEMMA FlushFacts ==
  ASSUME Typed, NEW h \in Handles, Flushing(h)
  PROVE  LET p == open[h].path IN
         /\ p \in Paths /\ open[h].data \in Bytes
         /\ Touched({p}) /\ files'[p] = open[h].data
         /\ InvalidateMetadata(p, FALSE)
         /\ content' = PutCachedContent(content, p, open[h].data)
<1> DEFINE p == open[h].path
           data == open[h].data
<1>1. p \in Paths /\ data \in Bytes /\ data \in Nodes
  BY OpenFacts DEF Flushing, Dirty
<1>2. /\ Reachable(p) /\ files' = With(files, p, data)
      /\ InvalidateMetadata(p, FALSE)
      /\ content' = PutCachedContent(content, p, data)
  BY DEF Flushing, FlushOver, CanPut
<1>3. files \in [Paths -> Nodes]
  BY DEF Typed
<1> HIDE DEF p, data
<1>4. Touched({p}) /\ files'[p] = data
  BY <1>1, <1>2, <1>3, WithTouched
<1> QED BY <1>1, <1>2, <1>4 DEF p, data

(* Create and mkdir. *)
LEMMA MakeFacts ==
  ASSUME Typed, NEW p \in Paths, Making(p)
  PROVE  /\ Touched({p}) /\ files'[p] # Absent
         /\ CreatesFresh => files[p] = Absent \/ (files[p] = Dir /\ files'[p] = Dir)
         /\ InvalidateMetadata(Front(p), FALSE)
         /\ content' = content
         /\ \/ open' = Raced(open)
            \/ \E h \in Handles :
                 /\ open[h] = Closed /\ files'[p] = {}
                 /\ open' = [Raced(open) EXCEPT ![h] = OpenFile(p, {}, TRUE, FALSE)]
<1>1. {} \in Nodes /\ Dir \in Nodes /\ {} \notin {Dir, Absent} /\ Dir # Absent
  BY ValuesAssumption DEF Nodes, Bytes
<1>2. files \in [Paths -> Nodes]
  BY DEF Typed
<1>3. ASSUME NEW user \in Users, Mkdir(p, user)
      PROVE  /\ Touched({p}) /\ files'[p] = Dir /\ files[p] \in {Dir, Absent}
             /\ InvalidateMetadata(Front(p), FALSE)
             /\ content' = content /\ open' = Raced(open)
  <2>1. Reachable(p) /\ files' = With(files, p, Dir) /\ files[p] \in {Dir, Absent}
        /\ InvalidateMetadata(Front(p), FALSE) /\ content' = content /\ open' = Raced(open)
    BY <1>3 DEF Mkdir, IsFile
  <2> QED BY <1>1, <1>2, <1>3, <2>1, WithTouched
<1>4. ASSUME NEW user \in Users, NEW h \in Handles, Create(h, p, user)
      PROVE  /\ Touched({p}) /\ files'[p] # Absent
             /\ CreatesFresh => files[p] = Absent
             /\ InvalidateMetadata(Front(p), FALSE)
             /\ content' = content
             /\ open[h] = Closed /\ files'[p] = {}
             /\ open' = [Raced(open) EXCEPT ![h] = OpenFile(p, {}, TRUE, FALSE)]
  <2>1. Reachable(p) /\ files' = With(files, p, {}) /\ (CreatesFresh => files[p] = Absent)
        /\ InvalidateMetadata(Front(p), FALSE) /\ content' = content
        /\ open[h] = Closed
        /\ open' = [Raced(open) EXCEPT ![h] = OpenFile(p, {}, TRUE, FALSE)]
    BY <1>4 DEF Create, CanPut, Free
  <2> QED BY <1>1, <1>2, <2>1, WithTouched
<1> QED BY <1>1, <1>3, <1>4 DEF Making

(* Unlink and rmdir. *)
LEMMA DeleteFacts ==
  ASSUME Typed, NEW p \in Paths, Deleting(p)
  PROVE  /\ Touched({p}) /\ files'[p] = Absent
         /\ \E recursive \in BOOLEAN : InvalidateAll(p, recursive)
         /\ open' = Raced(open)
<1>1. files' = Removed(files, p) /\ (\E recursive \in BOOLEAN : InvalidateAll(p, recursive))
      /\ open' = Raced(open)
  BY DEF Deleting, Unlink, Rmdir
<1> QED BY <1>1, RemovedFacts DEF Typed, Touched

(* Rename. *)
LEMMA RenameFacts ==
  ASSUME Typed, NEW p \in Paths, NEW q \in Paths, Renaming(p, q)
  PROVE  /\ p # q /\ Touched({p, q}) /\ files'[p] = Absent
         /\ files[p] # Absent /\ files'[q] = files[p]
         /\ \E recursive \in BOOLEAN : InvalidateBoth(p, q, recursive)
         /\ open' = Raced(open)
<1>1. /\ p # q /\ Reachable(q) /\ files[p] # Absent
      /\ files' = Removed(With(files, q, files[p]), p)
      /\ \E recursive \in BOOLEAN : InvalidateBoth(p, q, recursive)
      /\ open' = Raced(open)
  BY DEF Renaming, Rename, MayRename, IsFile, CanPut
<1>2. files \in [Paths -> Nodes] /\ files[p] \in Nodes
  BY DEF Typed
<1> DEFINE made == With(files, q, files[p])
<1>3. /\ made \in [Paths -> Nodes] /\ made[q] = files[p]
      /\ \A x \in Paths \ {q} :
           made[x] = files[x] \/ (x \in Above(q) /\ files[x] = Absent /\ made[x] = Dir)
  BY <1>1, <1>2, WithFacts
<1> HIDE DEF made
<1>4. /\ Removed(made, p) \in [Paths -> Nodes] /\ Removed(made, p)[p] = Absent
      /\ \A x \in Paths \ {p} : Removed(made, p)[x] = made[x]
  BY <1>3, RemovedFacts
<1>5. files' = Removed(made, p)
  BY <1>1 DEF made
<1>6. Touched({p, q})
  BY <1>3, <1>4, <1>5 DEF Touched
<1> QED BY <1>1, <1>3, <1>4, <1>5, <1>6

-----------------------------------------------------------------------------
(***************************************************************************)
(* Types of the tree, the open files and the cached contents.              *)
(***************************************************************************)
LEMMA TypedInitially == Init => Typed
BY DEF Init, Typed, IsContent, Hides, EmptyContent, Nodes

(* An open file that a request opens or writes. *)
LEMMA OpenedTyped ==
  ASSUME NEW p \in Paths, NEW data \in Bytes, NEW writes \in BOOLEAN, NEW raced \in BOOLEAN
  PROVE  OpenFile(p, data, writes, raced) \in OpenFiles
BY DEF OpenFile, OpenFiles

(* The handle that is opened: it has read the file or its cached content. *)
Opened(h, p, f) ==
  /\ f.path = p /\ open' = [open EXCEPT ![h] = f]
  /\ \/ files[p] \in {f.data, Absent}
     \/ /\ content.entries[p] # None /\ f.data = content.entries[p].data
        /\ f.raced = ~content.entries[p].sure

LEMMA OpeningFacts ==
  ASSUME Typed, NEW h \in Handles, NEW p \in Paths, Opening(h, p)
  PROVE  /\ files' = files /\ stats' = stats /\ lists' = lists /\ troubles' = troubles
         /\ open[h] = Closed
         /\ IsContent(content')
         /\ \A k \in Keys : \/ content'.entries[k] \in {None, content.entries[k]}
                           \/ /\ k = p /\ CachesContent
                              /\ content'.entries[k] = [data |-> files[p], sure |-> TRUE]
         /\ \E f \in OpenFiles : Opened(h, p, f)
<1>0. PICK user \in Users, writes \in BOOLEAN : Open(h, p, user, writes)
  BY DEF Opening
<1>f. ASSUME NEW data \in Bytes, NEW raced \in BOOLEAN,
             open' = [open EXCEPT ![h] = OpenFile(p, data, writes, raced)],
             \/ files[p] \in {data, Absent}
             \/ /\ content.entries[p] # None /\ data = content.entries[p].data
                /\ raced = ~content.entries[p].sure
      PROVE  \E f \in OpenFiles : Opened(h, p, f)
  <2> DEFINE g == OpenFile(p, data, writes, raced)
  <2>1. g \in OpenFiles
    BY OpenedTyped
  <2>2. g.path = p /\ g.data = data /\ g.raced = raced
    BY DEF OpenFile
  <2> HIDE DEF g
  <2>3. open' = [open EXCEPT ![h] = g]
    BY <1>f DEF g
  <2> WITNESS g \in OpenFiles
  <2> QED BY <1>f, <2>2, <2>3 DEF Opened
<1>u. /\ files' = files /\ stats' = stats /\ lists' = lists /\ troubles' = troubles
      /\ open[h] = Closed
  BY <1>0 DEF Open
<1>1. p \in Keys /\ IsContent(content) /\ files[p] \in Nodes
  BY DEF Typed, Keys
<1>2. CASE /\ CachedContent(p)
           /\ open' = [open EXCEPT ![h] = OpenFile(p, content.entries[p].data, writes,
                                                   ~content.entries[p].sure)]
           /\ content' = Promote(content, p)
  <2>1. content.entries[p] \in ContentEntries
    BY <1>1, <1>2 DEF CachedContent, IsContent
  <2>2. content.entries[p].data \in Bytes /\ content.entries[p].sure \in BOOLEAN
    BY <2>1 DEF ContentEntries
  <2>3. IsContent(content') /\ content'.entries = content.entries
    BY <1>1, <1>2 DEF Promote, IsContent
  <2> QED BY <1>2, <1>f, <1>u, <2>2, <2>3 DEF CachedContent
<1>3. CASE /\ IsFile(p)
           /\ open' = [open EXCEPT ![h] = OpenFile(p, files[p], writes, FALSE)]
           /\ content' = PutCachedContent(content, p, files[p])
  <2>1. files[p] \in Bytes
    BY <1>1, <1>3, NodeFacts DEF IsFile
  <2>2. /\ IsContent(content')
        /\ \A k \in Keys \ {p} : content'.entries[k] \in {None, content.entries[k]}
        /\ content'.entries[p] \in {content.entries[p], [data |-> files[p], sure |-> TRUE]}
        /\ ~CachesContent => content' = content
    BY <1>1, <1>3, <2>1, PutFacts
  <2>3. \A k \in Keys : \/ content'.entries[k] \in {None, content.entries[k]}
                        \/ /\ k = p /\ CachesContent
                           /\ content'.entries[k] = [data |-> files[p], sure |-> TRUE]
    BY <2>2, SettingsAssumption
  <2> QED BY <1>3, <1>f, <1>u, <2>1, <2>2, <2>3
<1>4. CASE /\ files[p] = Absent
           /\ open' = [open EXCEPT ![h] = OpenFile(p, {}, writes, FALSE)]
           /\ content' = content
  <2>1. {} \in Bytes
    BY DEF Bytes
  <2> QED BY <1>1, <1>4, <1>f, <1>u, <2>1
<1> QED BY <1>0, <1>2, <1>3, <1>4 DEF Open

(***************************************************************************)
(* Cached contents.                                                        *)
(***************************************************************************)
(* Where entries only go, those that stay are right. *)
LEMMA FewerContents ==
  ASSUME NEW cache, NEW new, NEW fs, IsContent(cache), Hides(cache), IsContent(new),
         \A k \in Keys : new.entries[k] \in {None, cache.entries[k]}
  PROVE  Hides(new) /\ (Current(cache, fs) => Current(new, fs))
BY DEF Hides, Current, Keys

(* A path of which a sure content is cached is a file, and no file becomes *)
(* a directory because something below it is made.                         *)
LEMMA TouchedContent ==
  ASSUME Typed, NEW hit, Touched(hit), NEW q \in Paths \ hit,
         Current(content, files), content.entries[q] # None, content.entries[q].sure
  PROVE  files'[q] = files[q]
<1>1. content.entries[q] \in ContentEntries
  BY DEF Typed, IsContent, Keys
<1>2. files[q] \in Bytes
  BY <1>1 DEF Current, ContentEntries
<1> QED BY <1>2, ValuesAssumption DEF Touched

LEMMA ContentStep ==
  ASSUME Typed, [Next]_vars
  PROVE  /\ IsContent(content') /\ Hides(content')
         /\ CreatesFresh /\ Fits /\ Current(content, files) => Current(content', files')
<1> DEFINE Good ==
             /\ IsContent(content') /\ Hides(content')
             /\ CreatesFresh /\ Fits /\ Current(content, files) => Current(content', files')
<1> SUFFICES Good
  OBVIOUS
<1>0. IsContent(content) /\ Hides(content) /\ files \in [Paths -> Nodes]
  BY DEF Typed, Hides
<1>s. CASE files' = files /\ content' = content
  BY <1>0, <1>s
<1>f. ASSUME files' = files, IsContent(content'),
             \A k \in Keys : content'.entries[k] \in {None, content.entries[k]}
      PROVE  Good
  BY <1>0, <1>f, FewerContents
<1>1. CASE Looking
  <2>1. ASSUME NEW p \in Paths, Refresh(p)
        PROVE  Good
    <3>1. /\ files' = files /\ (inodes[p].kind = Dir) \in BOOLEAN
          /\ content' = RemoveContent(content, p, inodes[p].kind = Dir)
      BY <2>1 DEF Refresh, InvalidateAll
    <3>2. /\ IsContent(content')
          /\ \A k \in Keys : content'.entries[k] \in {None, content.entries[k]}
      BY <1>0, <3>1, RemoveFacts
    <3> QED BY <1>f, <3>1, <3>2
  <2>2. CASE ClearAllCaches
    <3>1. files' = files /\ content' = EmptyContent(Keys)
      BY <2>2 DEF ClearAllCaches
    <3>2. IsContent(content') /\ \A k \in Keys : content'.entries[k] = None
      BY <3>1 DEF EmptyContent, IsContent
    <3> QED BY <1>f, <3>1, <3>2
  <2>3. ASSUME NEW p \in Paths, Lookup(p) \/ GetAttr(p)
        PROVE  Good
    BY <1>s, <2>3 DEF Lookup, GetAttr
  <2>4. ASSUME NEW d \in Keys, ReadDir(d)
        PROVE  Good
    BY <1>s, <2>4 DEF ReadDir
  <2>5. CASE Tick
    BY <1>s, <2>5 DEF Tick
  <2> QED BY <1>1, <2>1, <2>2, <2>3, <2>4, <2>5 DEF Looking
<1>2. ASSUME NEW h \in Handles, NEW p \in Paths, Opening(h, p)
      PROVE  Good
  <2>2. /\ files' = files /\ IsContent(content')
        /\ \A k \in Keys : \/ content'.entries[k] \in {None, content.entries[k]}
                          \/ /\ k = p /\ CachesContent
                             /\ content'.entries[k] = [data |-> files[p], sure |-> TRUE]
    BY <1>2, OpeningFacts
  <2>3. Hides(content')
    BY <1>0, <2>2 DEF Hides
  <2>4. ASSUME Current(content, files)
        PROVE  Current(content', files')
    BY <2>2, <2>4 DEF Current, Keys
  <2> QED BY <2>2, <2>3, <2>4
<1>3. ASSUME NEW h \in Handles, Flushing(h)
      PROVE  Good
  <2> DEFINE p == open[h].path
             data == open[h].data
  <2>1. /\ p \in Paths /\ data \in Bytes /\ Touched({p}) /\ files'[p] = data
        /\ content' = PutCachedContent(content, p, data)
    BY <1>3, FlushFacts
  <2> HIDE DEF p, data
  <2>2. /\ IsContent(content')
        /\ \A k \in Keys \ {p} : content'.entries[k] \in {None, content.entries[k]}
        /\ content'.entries[p] \in {content.entries[p], [data |-> data, sure |-> TRUE]}
        /\ Size(data) <= MaxBytes /\ CachesContent
             => content'.entries[p] = [data |-> data, sure |-> TRUE]
        /\ ~CachesContent => content' = content
    BY <1>0, <2>1, PutFacts DEF Keys
  <2>3. Hides(content')
    BY <1>0, <2>2 DEF Hides
  <2>4. ASSUME Fits, Current(content, files), NEW q \in Paths,
               content'.entries[q] # None, content'.entries[q].sure
        PROVE  files'[q] = content'.entries[q].data
    <3>1. CASE q = p
      <4>1. CachesContent
        BY <1>0, <2>2, <2>4, <3>1 DEF Hides, Keys
      <4> QED BY <2>1, <2>2, <2>4, <3>1, <4>1 DEF Fits
    <3>2. CASE q # p
      <4>1. content'.entries[q] = content.entries[q] /\ q \in Paths \ {p}
        BY <2>2, <2>4, <3>2 DEF Keys
      <4>2. files'[q] = files[q]
        BY <2>1, <2>4, <4>1, TouchedContent
      <4> QED BY <2>4, <4>1, <4>2 DEF Current
    <3> QED BY <3>1, <3>2
  <2> QED BY <2>2, <2>3, <2>4 DEF Current
<1>4. ASSUME NEW h \in Handles, Flush(h) \/ Release(h)
      PROVE  Good
  BY <1>s, <1>3, <1>4 DEF Flush, Release, Flushing, caches
<1>5. ASSUME NEW p \in Paths, Making(p)
      PROVE  Good
  <2>1. /\ content' = content /\ Touched({p})
        /\ CreatesFresh => files[p] = Absent \/ (files[p] = Dir /\ files'[p] = Dir)
    BY <1>5, MakeFacts
  <2>2. ASSUME CreatesFresh, Current(content, files), NEW q \in Paths,
               content.entries[q] # None, content.entries[q].sure
        PROVE  files'[q] = content.entries[q].data
    <3>1. content.entries[q] \in ContentEntries /\ files[q] = content.entries[q].data
      BY <1>0, <2>2 DEF IsContent, Keys, Current
    <3>2. q # p
      BY <2>1, <2>2, <3>1, ValuesAssumption DEF ContentEntries
    <3>3. files'[q] = files[q]
      BY <2>1, <2>2, <3>2, TouchedContent
    <3> QED BY <3>1, <3>3
  <2> QED BY <1>0, <2>1, <2>2 DEF Current
<1>r. ASSUME NEW hit \in SUBSET Paths, Touched(hit), IsContent(content'),
             \A k \in Keys : content'.entries[k] \in {None, content.entries[k]},
             \A p \in hit : content'.entries[p] = None
      PROVE  Good
  <2>1. Hides(content')
    BY <1>0, <1>r, FewerContents
  <2>2. ASSUME Current(content, files), NEW q \in Paths,
               content'.entries[q] # None, content'.entries[q].sure
        PROVE  files'[q] = content'.entries[q].data
    <3>1. content'.entries[q] = content.entries[q] /\ q \in Paths \ hit
      BY <1>r, <2>2 DEF Keys
    <3>2. files'[q] = files[q]
      BY <1>r, <2>2, <3>1, TouchedContent
    <3> QED BY <2>2, <3>1, <3>2 DEF Current
  <2> QED BY <1>r, <2>1, <2>2 DEF Current
<1>6. ASSUME NEW p \in Paths, Deleting(p)
      PROVE  Good
  <2>1. PICK recursive \in BOOLEAN : InvalidateAll(p, recursive)
    BY <1>6, DeleteFacts
  <2>2. /\ IsContent(content') /\ content'.entries[p] = None
        /\ \A k \in Keys : content'.entries[k] \in {None, content.entries[k]}
    BY <1>0, <2>1, RemoveFacts DEF InvalidateAll
  <2>3. Touched({p})
    BY <1>6, DeleteFacts
  <2> QED BY <1>r, <2>2, <2>3
<1>7. ASSUME NEW p \in Paths, NEW q \in Paths, Renaming(p, q)
      PROVE  Good
  <2>1. PICK recursive \in BOOLEAN : InvalidateBoth(p, q, recursive)
    BY <1>7, RenameFacts
  <2> DEFINE half == RemoveContent(content, p, recursive)
  <2>2. /\ IsContent(half) /\ half.entries[p] = None
        /\ \A k \in Keys : half.entries[k] \in {None, content.entries[k]}
    BY <1>0, RemoveFacts
  <2>3. content' = RemoveContent(half, q, recursive)
    BY <2>1 DEF InvalidateBoth
  <2> HIDE DEF half
  <2>4. /\ IsContent(content') /\ content'.entries[q] = None
        /\ \A k \in Keys : content'.entries[k] \in {None, half.entries[k]}
    BY <2>2, <2>3, RemoveFacts
  <2>5. Touched({p, q})
    BY <1>7, RenameFacts
  <2>6. \A k \in Keys : content'.entries[k] \in {None, content.entries[k]}
    BY <2>2, <2>4
  <2>7. p \in Keys /\ content'.entries[p] = None
    BY <2>2, <2>4 DEF Keys
  <2> QED BY <1>r, <2>4, <2>5, <2>6, <2>7
<1>8. CASE Troubled
  BY <1>0, <1>8, DoubtedFacts DEF Hides, Current
<1>9. ASSUME NEW h \in Handles, NEW chunk \in Chunks, Write(h, chunk)
      PROVE  Good
  BY <1>s, <1>9 DEF Write, caches
<1>10. CASE UNCHANGED <<files, caches, open>>
  BY <1>s, <1>10 DEF caches
<1> HIDE DEF Good
<1> QED
  BY <1>1, <1>2, <1>4, <1>5, <1>6, <1>7, <1>8, <1>9, <1>10, StepKinds

-----------------------------------------------------------------------------
(***************************************************************************)
(* Open files.  A handle that is not raced lacks nothing of its file.      *)
(***************************************************************************)
Holds(f, fs) == ~f.raced /\ fs[f.path] \in Bytes => fs[f.path] \subseteq f.data
(* ... for every open file; and what UnracedFlushKeeps says of a handle. *)
Buffers == \A h \in Handles : open[h] # Closed => Holds(open[h], files)
Flushed(h) ==
  Dirty(h) /\ ~open[h].raced /\ ~Dirty(h)' /\ troubles' = troubles /\ IsFile(open[h].path)
    => files[open[h].path] \subseteq files'[open[h].path]

LEMMA RacedKeeps ==
  ASSUME Typed, NEW h \in Handles, open[h] # Closed
  PROVE  /\ Raced(open)[h] # Closed /\ (Dirty(h) => Raced(open)[h].dirty)
         /\ Holds(open[h], files) => Holds(Raced(open)[h], files')
BY RacedFacts DEF Holds, Dirty

(* All handles are raced as the files change, but for one that is set. *)
LEMMA OneHandleSet ==
  ASSUME Typed, NEW g \in Handles, NEW f \in OpenFiles \cup {Closed},
         open' = [Raced(open) EXCEPT ![g] = f]
  PROVE  /\ open' \in [Handles -> OpenFiles \cup {Closed}]
         /\ Buffers /\ (f # Closed => Holds(f, files')) => Buffers'
         /\ \A h \in Handles \ {g} : Dirty(h) => Dirty(h)'
<1>1. Raced(open) \in [Handles -> OpenFiles \cup {Closed}]
  BY RacedFacts
<1>2. open'[g] = f /\ \A h \in Handles \ {g} : open'[h] = Raced(open)[h]
  BY <1>1
<1>3. open' \in [Handles -> OpenFiles \cup {Closed}]
  BY <1>1
<1>4. \A h \in Handles : open[h] = Closed => Raced(open)[h] = Closed
  BY RacedFacts
<1>5. ASSUME Buffers, f # Closed => Holds(f, files')
      PROVE  Buffers'
  <2> SUFFICES ASSUME NEW h \in Handles, open'[h] # Closed
               PROVE  Holds(open'[h], files')
    BY DEF Buffers
  <2> QED BY <1>2, <1>4, <1>5, RacedKeeps DEF Buffers
<1>6. ASSUME NEW h \in Handles \ {g}, Dirty(h)
      PROVE  Dirty(h)'
  BY <1>2, <1>6, RacedKeeps DEF Dirty
<1> QED BY <1>3, <1>5, <1>6

LEMMA AllRaced ==
  ASSUME Typed, open' = Raced(open)
  PROVE  /\ open' \in [Handles -> OpenFiles \cup {Closed}]
         /\ Buffers => Buffers'
         /\ \A h \in Handles : Dirty(h) => Dirty(h)'
<1>1. \A h \in Handles : open[h] = Closed => Raced(open)[h] = Closed
  BY RacedFacts
<1>2. ASSUME Buffers
      PROVE  Buffers'
  <2> SUFFICES ASSUME NEW h \in Handles, open'[h] # Closed
               PROVE  Holds(open'[h], files')
    BY DEF Buffers
  <2> QED BY <1>1, <1>2, RacedKeeps DEF Buffers
<1>3. ASSUME NEW h \in Handles, Dirty(h)
      PROVE  Dirty(h)'
  BY <1>3, RacedKeeps DEF Dirty
<1> QED BY <1>2, <1>3, RacedFacts

(* The files stay as they are, and one handle is set. *)
LEMMA OneHandleChanged ==
  ASSUME Typed, NEW g \in Handles, NEW f \in OpenFiles \cup {Closed},
         files' = files, open' = [open EXCEPT ![g] = f]
  PROVE  /\ open' \in [Handles -> OpenFiles \cup {Closed}]
         /\ Buffers /\ (f # Closed => Holds(f, files')) => Buffers'
         /\ \A h \in Handles \ {g} : Dirty(h) => Dirty(h)'
<1>1. Changed = {}
  BY DEF Changed
<1>2. Raced(open) = open
  BY <1>1 DEF Raced, Typed
<1> QED BY <1>2, OneHandleSet

LEMMA TroublesStep ==
  ASSUME Typed, [Next]_vars
  PROVE  troubles' \in Nat
<1>1. troubles' = troubles \/ Trouble
  BY DEF Next, Look, Use, Change, Failure, vars, Lookup, GetAttr, Refresh, ReadDir, ClearAllCaches,
         SetAttr, Open, Write, Flush, Release, Create, Mkdir, Unlink, Rmdir, Rename,
         FlushFails, ReleaseFails, MakeFails, DeleteFails, RenameFails, FailsAfter, Foreign, Tick
<1> QED BY <1>1 DEF Trouble, Typed

LEMMA FlushKeeps ==
  ASSUME Typed, NEW g \in Handles, Flush(g)
  PROVE  /\ open' \in [Handles -> OpenFiles \cup {Closed}]
         /\ Buffers => Buffers'
         /\ Buffers => \A h \in Handles : Flushed(h)
<1> DEFINE f == [open[g] EXCEPT !.dirty = FALSE, !.raced = FALSE]
<1>1. Flushing(g) /\ open' = [Raced(open) EXCEPT ![g] = f]
  BY DEF Flush, Flushing
<1>2. open[g] \in OpenFiles /\ files'[open[g].path] = open[g].data
  BY <1>1, FlushFacts, OpenFacts DEF Flushing, Dirty
<1>3. f \in OpenFiles /\ f.path = open[g].path /\ f.data = open[g].data
  BY <1>2 DEF OpenFiles
<1> HIDE DEF f
<1>4. Holds(f, files')
  BY <1>2, <1>3 DEF Holds
<1>5. ASSUME Buffers
      PROVE  Flushed(g)
  BY <1>2, <1>5, NodeFacts DEF Flushed, Dirty, Buffers, Holds, IsFile, Typed
<1> QED BY <1>1, <1>3, <1>4, <1>5, OneHandleSet DEF Flushed

LEMMA ReleaseKeeps ==
  ASSUME Typed, NEW g \in Handles, Release(g)
  PROVE  /\ files' \in [Paths -> Nodes]
         /\ open' \in [Handles -> OpenFiles \cup {Closed}]
         /\ Buffers => Buffers'
         /\ Buffers => \A h \in Handles : Flushed(h)
<1>1. open' = [Raced(open) EXCEPT ![g] = Closed]
  BY DEF Release
<1>2. /\ open' \in [Handles -> OpenFiles \cup {Closed}]
      /\ Buffers => Buffers'
      /\ \A h \in Handles \ {g} : Dirty(h) => Dirty(h)'
  BY <1>1, OneHandleSet
<1>3. CASE Flushing(g)
  <2>1. open[g] \in OpenFiles /\ files'[open[g].path] = open[g].data
    BY <1>3, FlushFacts, OpenFacts DEF Flushing, Dirty
  <2>2. files' \in [Paths -> Nodes]
    BY <1>3, FlushFacts DEF Touched
  <2>3. ASSUME Buffers
        PROVE  Flushed(g)
    BY <2>1, <2>3, NodeFacts DEF Flushed, Dirty, Buffers, Holds, IsFile, Typed
  <2> QED BY <1>2, <2>2, <2>3 DEF Flushed
<1>4. CASE ~Dirty(g) /\ files' = files
  BY <1>2, <1>4 DEF Flushed, Typed
<1> QED BY <1>3, <1>4 DEF Release, Flushing

LEMMA OpenStep ==
  ASSUME Typed, [Next]_vars
  PROVE  /\ files' \in [Paths -> Nodes]
         /\ open' \in [Handles -> OpenFiles \cup {Closed}]
         /\ Current(content, files) /\ Buffers => Buffers'
         /\ Buffers => \A h \in Handles : Flushed(h)
<1> DEFINE Good ==
             /\ files' \in [Paths -> Nodes]
             /\ open' \in [Handles -> OpenFiles \cup {Closed}]
             /\ Current(content, files) /\ Buffers => Buffers'
             /\ Buffers => \A h \in Handles : Flushed(h)
<1> SUFFICES Good
  OBVIOUS
<1>d. (\A h \in Handles : Dirty(h) => Dirty(h)') => \A h \in Handles : Flushed(h)
  BY DEF Flushed
<1>s. CASE files' = files /\ open' = open
  BY <1>s DEF Typed, Buffers, Flushed, Dirty
<1>1. CASE Looking
  BY <1>s, <1>1 DEF Looking, Lookup, GetAttr, Refresh, ReadDir, ClearAllCaches, Tick
<1>2. ASSUME NEW h \in Handles, NEW p \in Paths, Opening(h, p)
      PROVE  Good
  <2>1. files' = files /\ open[h] = Closed
    BY <1>2, OpeningFacts
  <2>2. PICK f \in OpenFiles : Opened(h, p, f)
    BY <1>2, OpeningFacts
  <2>3. Current(content, files) => Holds(f, files')
    BY <2>1, <2>2, ValuesAssumption DEF Opened, Current, Holds
  <2>4. ~Dirty(h)
    BY <2>1 DEF Dirty
  <2> QED BY <1>d, <2>1, <2>2, <2>3, <2>4, OneHandleChanged DEF Opened, Typed
<1>3. ASSUME NEW g \in Handles, NEW chunk \in Chunks, Write(g, chunk)
      PROVE  Good
  <2> DEFINE f == [open[g] EXCEPT !.data = @ \cup {chunk}, !.dirty = TRUE]
  <2>1. /\ files' = files /\ open[g] \in OpenFiles /\ open[g] # Closed
        /\ open' = [open EXCEPT ![g].data = @ \cup {chunk}, ![g].dirty = TRUE]
    BY <1>3, OpenFacts DEF Write
  <2>2. open' = [open EXCEPT ![g] = f]
    BY <2>1 DEF Typed
  <2>3. f \in OpenFiles /\ f.path = open[g].path /\ f.data = open[g].data \cup {chunk}
        /\ f.raced = open[g].raced /\ f.dirty
    BY <2>1 DEF OpenFiles, Bytes
  <2> HIDE DEF f
  <2>4. Buffers => Holds(f, files')
    BY <2>1, <2>3 DEF Buffers, Holds
  <2>5. open'[g] = f /\ f # Closed
    BY <2>2, <2>3, ValuesAssumption DEF Typed
  <2>6. Dirty(g)'
    BY <2>3, <2>5 DEF Dirty
  <2> QED BY <1>d, <2>1, <2>2, <2>3, <2>4, <2>6, OneHandleChanged DEF Typed
<1>4. ASSUME NEW h \in Handles, Flush(h) \/ Release(h)
      PROVE  Good
  <2>1. CASE Flush(h)
    <3>1. files' \in [Paths -> Nodes]
      BY <2>1, FlushFacts DEF Flush, Flushing, Touched
    <3> QED BY <2>1, <3>1, FlushKeeps
  <2>2. CASE Release(h)
    BY <2>2, ReleaseKeeps
  <2> QED BY <1>4, <2>1, <2>2
<1>r. ASSUME files' \in [Paths -> Nodes], open' = Raced(open)
      PROVE  Good
  BY <1>d, <1>r, AllRaced
<1>5. ASSUME NEW p \in Paths, Making(p)
      PROVE  Good
  <2>1. files' \in [Paths -> Nodes]
    BY <1>5, MakeFacts DEF Touched
  <2>2. ASSUME NEW h \in Handles, open[h] = Closed, files'[p] = {},
               open' = [Raced(open) EXCEPT ![h] = OpenFile(p, {}, TRUE, FALSE)]
        PROVE  Good
    <3> DEFINE f == OpenFile(p, {}, TRUE, FALSE)
    <3>1. {} \in Bytes
      BY DEF Bytes
    <3>2. f \in OpenFiles /\ f.path = p /\ f.data = {}
      BY <3>1, OpenedTyped DEF OpenFile
    <3> HIDE DEF f
    <3>3. Holds(f, files')
      BY <2>2, <3>2 DEF Holds
    <3>4. ~Dirty(h)
      BY <2>2 DEF Dirty
    <3>5. open' = [Raced(open) EXCEPT ![h] = f]
      BY <2>2 DEF f
    <3> QED BY <1>d, <2>1, <3>2, <3>3, <3>4, <3>5, OneHandleSet
  <2> QED BY <1>5, <1>r, <2>1, <2>2, MakeFacts
<1>6. ASSUME NEW p \in Paths, Deleting(p)
      PROVE  Good
  BY <1>6, <1>r, DeleteFacts DEF Touched
<1>7. ASSUME NEW p \in Paths, NEW q \in Paths, Renaming(p, q)
      PROVE  Good
  BY <1>7, <1>r, RenameFacts DEF Touched
<1>8. CASE Troubled
  <2>1. \A h \in Handles : Flushed(h)
    BY <1>8 DEF Troubled, Flushed, Typed
  <2>2. files' \in [Paths -> Nodes]
    BY <1>8 DEF Troubled
  <2>3. ASSUME NEW h \in Handles, Dirty(h), files'[open[h].path] = open[h].data,
               open' = [Raced(open) EXCEPT ![h] = open[h]]
        PROVE  Good
    <3>1. open[h] \in OpenFiles
      BY <2>3, OpenFacts DEF Dirty
    <3>2. Holds(open[h], files')
      BY <2>3 DEF Holds
    <3> QED BY <2>1, <2>2, <2>3, <3>1, <3>2, OneHandleSet
  <2>4. ASSUME NEW h \in Handles, files' = files, open' = [open EXCEPT ![h] = Closed]
        PROVE  Good
    BY <2>1, <2>2, <2>4, OneHandleChanged
  <2> QED BY <1>8, <1>r, <2>2, <2>3, <2>4 DEF Troubled
<1>9. CASE UNCHANGED <<files, caches, open>>
  BY <1>s, <1>9
<1> QED
  BY <1>1, <1>2, <1>3, <1>4, <1>5, <1>6, <1>7, <1>8, <1>9, StepKinds

LEMMA TypedStep == Typed /\ [Next]_vars => Typed'
BY OpenStep, ContentStep, TroublesStep DEF Typed, IsContent, Hides

(* The tree holds files and directories, cached contents are bytes, and an *)
(* open file has a path and a buffer.                                      *)
THEOREM TypesStay == Spec => []Typed
BY TypedInitially, TypedStep, PTL DEF Spec

(* Read your writes: where creates find their name free and no file is     *)
(* larger than the cache, a cached content that nobody else has touched is *)
(* the file, whatever was flushed, made, removed or renamed over.          *)
THEOREM ReadsOwnWrites ==
  ASSUME CreatesFresh, Fits
  PROVE  Spec => []CachedContentCurrent
<1>1. Init => Current(content, files)
  BY DEF Init, EmptyContent, Current, Keys
<1>2. Typed /\ Current(content, files) /\ [Next]_vars => Current(content, files)'
  BY ContentStep DEF Current
<1>3. Current(content, files) => CachedContentCurrent
  BY DEF Current, CachedContentCurrent, CachedContent
<1> QED
  BY <1>1, <1>2, <1>3, TypesStay, PTL DEF Spec

(* Then a flush keeps every byte of a file that nothing else changed since *)
(* the handle read it or flushed to it.                                    *)
THEOREM FlushesKeepBytes ==
  ASSUME CreatesFresh, Fits
  PROVE  Spec => UnracedFlushKeeps
<1> DEFINE Inv == Typed /\ Current(content, files) /\ Buffers
<1>1. Init => Inv
  BY TypedInitially DEF Init, EmptyContent, Current, Keys, Buffers
<1>2. Inv /\ [Next]_vars => Inv'
  BY TypedStep, ContentStep, OpenStep DEF Current
<1>3. Inv /\ [Next]_vars =>
        [\A h \in Handles :
           Dirty(h) /\ ~open[h].raced /\ ~Dirty(h)' /\ troubles' = troubles
           /\ IsFile(open[h].path)
             => files[open[h].path] \subseteq files'[open[h].path]]_vars
  BY OpenStep DEF Flushed
<1> QED
  BY <1>1, <1>2, <1>3, PTL DEF Spec, UnracedFlushKeeps

-----------------------------------------------------------------------------
(***************************************************************************)
(* Cached stats.                                                           *)
(***************************************************************************)
StatsTyped == stats \in [Keys -> StatEntries \cup {None}]
Right(cache, fs) ==
  \A p \in Paths : cache[p] # None /\ cache[p].sure =>
    fs[p] # Absent /\ cache[p].meta = Meta(fs[p])

(* Entries that go, whatever else stays. *)
LEMMA DroppedStats ==
  ASSUME StatsTyped, NEW S, stats' = Drop(stats, S), files \in [Paths -> Nodes],
         NEW hit \in SUBSET Paths, Touched(hit),
         \A p \in hit : p \in S \/ files[p] = Absent \/ (files[p] = Dir /\ files'[p] = Dir)
  PROVE  StatsTyped' /\ (Right(stats, files) => Right(stats', files'))
<1>1. /\ stats' \in [Keys -> StatEntries \cup {None}]
      /\ \A k \in Keys : stats'[k] \in {None, stats[k]} /\ (k \in S => stats'[k] = None)
  BY DEF Drop, StatsTyped
<1>2. ASSUME Right(stats, files), NEW p \in Paths, stats'[p] # None, stats'[p].sure
      PROVE  files'[p] # Absent /\ stats'[p].meta = Meta(files'[p])
  <2>1. p \notin S /\ stats'[p] = stats[p]
    BY <1>1, <1>2 DEF Keys
  <2>2. files[p] # Absent /\ stats[p].meta = Meta(files[p])
    BY <1>2, <2>1 DEF Right
  <2>3. files'[p] = files[p]
    BY <2>1, <2>2 DEF Touched
  <2> QED BY <2>1, <2>2, <2>3
<1> QED BY <1>1, <1>2 DEF StatsTyped, Right

(* Nothing changes. *)
LEMMA UntouchedFiles ==
  ASSUME files \in [Paths -> Nodes], files' = files
  PROVE  Touched({})
BY DEF Touched

LEMMA PutStats ==
  ASSUME Typed, StatsTyped, files' = files, NEW p \in Paths, NEW meta, NEW sure \in BOOLEAN,
         PutStat(p, meta, sure), meta \in {Dir} \cup {Size(b) : b \in Bytes},
         sure /\ Right(stats, files) => files[p] # Absent /\ meta = Meta(files[p])
  PROVE  StatsTyped' /\ (Right(stats, files) => Right(stats', files'))
<1> DEFINE entry == [meta |-> meta, age |-> 0, sure |-> sure]
<1>1. entry \in StatEntries /\ entry.meta = meta /\ entry.sure = sure
  BY DEF StatEntries
<1> HIDE DEF entry
<1>2. stats' = stats \/ stats' = [stats EXCEPT ![p] = entry]
  BY DEF PutStat, Put, entry
<1>3. p \in Keys
  BY DEF Keys
<1> QED BY <1>1, <1>2, <1>3 DEF StatsTyped, Right, Keys

LEMMA DoubtedStats ==
  ASSUME Typed, StatsTyped, Troubled
  PROVE  StatsTyped' /\ (Right(stats, files) => Right(stats', files'))
<1>1. stats' = [k \in Keys |->
                  IF k \in Changed /\ stats[k] # None
                  THEN [stats[k] EXCEPT !.sure = FALSE] ELSE stats[k]]
  BY DEF Troubled, DoubtCaches, Doubted, StatsTyped
<1>2. \A e \in StatEntries : [e EXCEPT !.sure = FALSE] \in StatEntries
                            /\ ~[e EXCEPT !.sure = FALSE].sure
  BY DEF StatEntries
<1>3. StatsTyped'
  BY <1>1, <1>2 DEF StatsTyped
<1>4. ASSUME NEW p \in Paths, stats'[p] # None, stats'[p].sure
      PROVE  stats'[p] = stats[p] /\ files'[p] = files[p]
  BY <1>1, <1>2, <1>4 DEF StatsTyped, Keys, Changed
<1> QED BY <1>3, <1>4 DEF Right

LEMMA AgedStats ==
  ASSUME StatsTyped, files' = files, stats' = Aged(stats, MetadataTTL)
  PROVE  StatsTyped' /\ (Right(stats, files) => Right(stats', files'))
<1>1. stats' = [k \in Keys |->
                  IF stats[k] = None \/ stats[k].age + 1 = MetadataTTL THEN None
                  ELSE [stats[k] EXCEPT !.age = @ + 1]]
  BY DEF Aged, StatsTyped
<1>2. \A e \in StatEntries : LET new == [e EXCEPT !.age = @ + 1] IN
        new \in StatEntries /\ new.meta = e.meta /\ new.sure = e.sure
  BY DEF StatEntries
<1>3. StatsTyped'
  BY <1>1, <1>2 DEF StatsTyped
<1>4. ASSUME NEW p \in Paths, stats'[p] # None
      PROVE  stats[p] # None /\ stats'[p].meta = stats[p].meta /\ stats'[p].sure = stats[p].sure
  BY <1>1, <1>2, <1>4 DEF StatsTyped, Keys
<1> QED BY <1>3, <1>4 DEF Right

LEMMA StatsStep ==
  ASSUME Typed, StatsTyped, [Next]_vars
  PROVE  StatsTyped' /\ (CreatesFresh /\ Right(stats, files) => Right(stats', files'))
<1> DEFINE Good == StatsTyped' /\ (CreatesFresh /\ Right(stats, files) => Right(stats', files'))
<1> SUFFICES Good
  OBVIOUS
<1>0. files \in [Paths -> Nodes]
  BY DEF Typed
<1>s. CASE files' = files /\ stats' = stats
  BY <1>s DEF StatsTyped
<1>d. ASSUME files' = files, NEW S, stats' = Drop(stats, S)
      PROVE  Good
  BY <1>0, <1>d, UntouchedFiles, DroppedStats
<1>1. ASSUME NEW p \in Paths, Lookup(p)
      PROVE  Good
  <2>1. files' = files
    BY <1>1 DEF Lookup
  <2>2. CASE CachedStat(p) /\ PutStat(p, stats[p].meta, stats[p].sure)
    <3>1. stats[p] \in StatEntries
      BY <2>2 DEF CachedStat, StatsTyped, Keys
    <3>2. stats[p].sure \in BOOLEAN /\ stats[p].meta \in {Dir} \cup {Size(b) : b \in Bytes}
      BY <3>1 DEF StatEntries
    <3>3. stats[p].sure /\ Right(stats, files)
            => files[p] # Absent /\ stats[p].meta = Meta(files[p])
      BY <2>2 DEF CachedStat, Right
    <3> QED BY <2>1, <2>2, <3>2, <3>3, PutStats
  <2>3. CASE files[p] # Absent /\ PutStat(p, Meta(files[p]), TRUE)
    <3>1. Meta(files[p]) \in {Dir} \cup {Size(b) : b \in Bytes}
      BY <1>0, <2>3, NodeFacts
    <3> QED BY <2>1, <2>3, <3>1, PutStats
  <2> QED BY <1>1, <1>s, <2>1, <2>2, <2>3 DEF Lookup
<1>2. ASSUME NEW p \in Paths, GetAttr(p)
      PROVE  Good
  <2>1. files' = files
    BY <1>2 DEF GetAttr
  <2>2. CASE files[p] # Absent /\ PutStat(p, Meta(files[p]), TRUE)
    <3>1. Meta(files[p]) \in {Dir} \cup {Size(b) : b \in Bytes}
      BY <1>0, <2>2, NodeFacts
    <3> QED BY <2>1, <2>2, <3>1, PutStats
  <2> QED BY <1>2, <1>s, <2>1, <2>2 DEF GetAttr
<1>3. CASE Looking
  <2>1. ASSUME NEW p \in Paths, Refresh(p)
        PROVE  Good
    BY <1>d, <2>1 DEF Refresh, InvalidateAll, InvalidateMetadata
  <2>2. ASSUME NEW d \in Keys, ReadDir(d)
        PROVE  Good
    BY <1>s, <2>2 DEF ReadDir
  <2>3. CASE ClearAllCaches
    BY <1>d, <2>3 DEF ClearAllCaches
  <2>4. CASE Tick
    BY <2>4, AgedStats DEF Tick
  <2> QED BY <1>1, <1>2, <1>3, <2>1, <2>2, <2>3, <2>4 DEF Looking
<1>4. ASSUME NEW h \in Handles, NEW p \in Paths, Opening(h, p)
      PROVE  Good
  BY <1>4, <1>s, OpeningFacts
<1>5. ASSUME NEW h \in Handles, NEW chunk \in Chunks, Write(h, chunk)
      PROVE  Good
  BY <1>5, <1>s DEF Write, caches
<1>6. ASSUME NEW h \in Handles, Flush(h) \/ Release(h)
      PROVE  Good
  <2>1. CASE Flushing(h)
    <3> DEFINE p == open[h].path
    <3>1. p \in Paths /\ Touched({p}) /\ InvalidateMetadata(p, FALSE)
      BY <2>1, FlushFacts
    <3> HIDE DEF p
    <3> DEFINE S == InvalidatedStats(p, FALSE, Keys)
    <3>2. stats' = Drop(stats, S) /\ \A x \in {p} : x \in S
      BY <3>1, InvalidatedFacts DEF InvalidateMetadata
    <3> HIDE DEF S
    <3>3. {p} \in SUBSET Paths
      BY <3>1
    <3> QED BY <1>0, <3>1, <3>2, <3>3, DroppedStats
  <2>2. CASE files' = files /\ stats' = stats
    BY <1>s, <2>2
  <2>3. Flushing(h) \/ (files' = files /\ stats' = stats)
    BY <1>6 DEF Flush, Release, Flushing, caches
  <2> QED BY <2>1, <2>2, <2>3
<1>7. ASSUME NEW p \in Paths, Making(p)
      PROVE  Good
  <2>1. /\ Touched({p}) /\ InvalidateMetadata(Front(p), FALSE)
        /\ CreatesFresh => files[p] = Absent \/ (files[p] = Dir /\ files'[p] = Dir)
    BY <1>7, MakeFacts
  <2>2. stats' = Drop(stats, InvalidatedStats(Front(p), FALSE, Keys))
    BY <2>1 DEF InvalidateMetadata
  <2>3. StatsTyped'
    BY <2>2 DEF StatsTyped, Drop
  <2> QED BY <1>0, <2>1, <2>2, <2>3, DroppedStats
<1>8. ASSUME NEW p \in Paths, Deleting(p)
      PROVE  Good
  <2>1. PICK recursive \in BOOLEAN : InvalidateAll(p, recursive)
    BY <1>8, DeleteFacts
  <2>2. Touched({p})
    BY <1>8, DeleteFacts
  <2>3. stats' = Drop(stats, InvalidatedStats(p, recursive, Keys))
        /\ p \in InvalidatedStats(p, recursive, Keys)
    BY <2>1, InvalidatedFacts DEF InvalidateAll, InvalidateMetadata
  <2> QED BY <1>0, <2>2, <2>3, DroppedStats
<1>9. ASSUME NEW p \in Paths, NEW q \in Paths, Renaming(p, q)
      PROVE  Good
  <2>1. PICK recursive \in BOOLEAN : InvalidateBoth(p, q, recursive)
    BY <1>9, RenameFacts
  <2>2. Touched({p, q})
    BY <1>9, RenameFacts
  <2> DEFINE S == InvalidatedStats(p, recursive, Keys) \cup InvalidatedStats(q, recursive, Keys)
  <2>3. stats' = Drop(stats, S) /\ p \in S /\ q \in S
    BY <2>1, InvalidatedFacts DEF InvalidateBoth
  <2> HIDE DEF S
  <2> QED BY <1>0, <2>2, <2>3, DroppedStats
<1>10. CASE Troubled
  BY <1>10, DoubtedStats
<1>11. CASE UNCHANGED <<files, caches, open>>
  BY <1>11, <1>s DEF caches
<1> QED
  BY <1>3, <1>4, <1>5, <1>6, <1>7, <1>8, <1>9, <1>10, <1>11, StepKinds

(* The same of cached stats, where creates find their name free: what is   *)
(* cached as present is present, with that kind and size.                  *)
THEOREM StatsStayRight ==
  ASSUME CreatesFresh
  PROVE  Spec => []StatsCurrent
<1>1. Init => StatsTyped /\ Right(stats, files)
  BY DEF Init, StatsTyped, Right, Keys
<1>2. Typed /\ StatsTyped /\ Right(stats, files) /\ [Next]_vars
        => (StatsTyped /\ Right(stats, files))'
  BY StatsStep DEF Right
<1>3. Right(stats, files) => StatsCurrent
  BY DEF Right, StatsCurrent, CachedStat
<1> QED
  BY <1>1, <1>2, <1>3, TypesStay, PTL DEF Spec

-----------------------------------------------------------------------------
(***************************************************************************)
(* Cached listings.  Writing a file makes the directories above it, of     *)
(* which only the one that holds the file is told: a listing further up    *)
(* may lack such a directory.                                              *)
(***************************************************************************)
ListsTyped == lists \in [Keys -> ListEntries \cup {None}]
(* What a listing may lack. *)
MadeAgain(e) == e[2] = Dir /\ \E p \in Paths : e[1] \in Above(p)
Near(seen, listing) ==
  seen \subseteq listing /\ \A e \in listing \ seen : MadeAgain(e)
ListsRight ==
  \A d \in Paths : lists[d] # None /\ lists[d].sure => Near(lists[d].seen, Listing(d))

LEMMA DroppedLists ==
  ASSUME ListsTyped, NEW S, lists' = Drop(lists, S), files \in [Paths -> Nodes],
         NEW hit \in SUBSET Paths, Touched(hit),
         \A p \in hit : Front(p) \in Paths => Front(p) \in S
  PROVE  ListsTyped' /\ (ListsRight => ListsRight')
<1>1. /\ lists' \in [Keys -> ListEntries \cup {None}]
      /\ \A k \in Keys : lists'[k] \in {None, lists[k]} /\ (k \in S => lists'[k] = None)
  BY DEF Drop, ListsTyped
<1>2. ASSUME ListsRight, NEW d \in Paths, lists'[d] # None, lists'[d].sure
      PROVE  Near(lists'[d].seen, Listing(d)')
  <2>1. d \notin S /\ lists'[d] = lists[d] /\ d \in Keys
    BY <1>1, <1>2 DEF Keys
  <2> DEFINE seen == lists[d].seen
  <2>2. Near(seen, Listing(d))
    BY <1>2, <2>1 DEF ListsRight
  <2>3. \A q \in Paths : Front(q) = d =>
          \/ files'[q] = files[q]
          \/ (files[q] = Absent /\ files'[q] = Dir /\ \E p \in hit : q \in Above(p))
    BY <2>1 DEF Touched
  <2> HIDE DEF seen
  <2>4. Listing(d) \subseteq Listing(d)'
    BY <2>3 DEF Listing, Below
  <2>5. \A e \in Listing(d)' : e \in Listing(d) \/ MadeAgain(e)
    BY <2>3 DEF Listing, Below, Meta, MadeAgain
  <2>6. Near(seen, Listing(d)')
    BY <2>2, <2>4, <2>5 DEF Near
  <2> QED BY <2>1, <2>6 DEF seen
<1> QED BY <1>1, <1>2 DEF ListsTyped, ListsRight

LEMMA DoubtedLists ==
  ASSUME Typed, ListsTyped, Troubled
  PROVE  ListsTyped' /\ (ListsRight => ListsRight')
<1> DEFINE doubted == Changed \cup {Front(p) : p \in Changed}
<1>1. lists' = [k \in Keys |->
                  IF k \in doubted /\ lists[k] # None
                  THEN [lists[k] EXCEPT !.sure = FALSE] ELSE lists[k]]
  BY DEF Troubled, DoubtCaches, Doubted, ListsTyped
<1>2. \A e \in ListEntries : [e EXCEPT !.sure = FALSE] \in ListEntries
                            /\ ~[e EXCEPT !.sure = FALSE].sure
  BY DEF ListEntries
<1>3. \A p \in Paths : Front(p) \notin doubted => files'[p] = files[p]
  BY DEF Changed
<1> HIDE DEF doubted
<1>4. ListsTyped'
  BY <1>1, <1>2 DEF ListsTyped
<1>5. ASSUME NEW d \in Paths, lists'[d] # None, lists'[d].sure
      PROVE  lists'[d] = lists[d] /\ Listing(d)' = Listing(d)
  <2>1. d \notin doubted /\ lists'[d] = lists[d] /\ d \in Keys
    BY <1>1, <1>2, <1>5 DEF ListsTyped, Keys
  <2> QED BY <1>3, <2>1, ListingFacts DEF Typed
<1> QED BY <1>4, <1>5 DEF ListsRight

LEMMA AgedLists ==
  ASSUME Typed, ListsTyped, files' = files, lists' = Aged(lists, MetadataTTL)
  PROVE  ListsTyped' /\ (ListsRight => ListsRight')
<1>1. lists' = [k \in Keys |->
                  IF lists[k] = None \/ lists[k].age + 1 = MetadataTTL THEN None
                  ELSE [lists[k] EXCEPT !.age = @ + 1]]
  BY DEF Aged, ListsTyped
<1>2. \A e \in ListEntries : LET new == [e EXCEPT !.age = @ + 1] IN
        new \in ListEntries /\ new.seen = e.seen /\ new.sure = e.sure
  BY DEF ListEntries
<1>3. ListsTyped'
  BY <1>1, <1>2 DEF ListsTyped
<1>4. ASSUME NEW d \in Paths, lists'[d] # None
      PROVE  /\ lists[d] # None /\ lists'[d].seen = lists[d].seen /\ lists'[d].sure = lists[d].sure
             /\ Listing(d)' = Listing(d)
  BY <1>1, <1>2, <1>4, ListingFacts DEF ListsTyped, Keys, Typed
<1> QED BY <1>3, <1>4 DEF ListsRight

LEMMA PutLists ==
  ASSUME Typed, ListsTyped, files' = files, NEW d \in Keys, PutListing(d)
  PROVE  ListsTyped' /\ (ListsRight => ListsRight')
<1> DEFINE entry == [seen |-> Listing(d), age |-> 0, sure |-> TRUE]
<1>1. entry \in ListEntries /\ entry.seen = Listing(d)
  BY ListingFacts DEF ListEntries, Typed
<1>2. \A e \in Keys : Listing(e)' = Listing(e)
  BY ListingFacts DEF Typed
<1> HIDE DEF entry
<1>3. lists' = lists \/ lists' = [lists EXCEPT ![d] = entry]
  BY DEF PutListing, Put, entry
<1>4. Near(Listing(d), Listing(d))
  BY DEF Near
<1> QED BY <1>1, <1>2, <1>3, <1>4 DEF ListsTyped, ListsRight, Keys

LEMMA ListsStep ==
  ASSUME Typed, ListsTyped, [Next]_vars
  PROVE  ListsTyped' /\ (ListsRight => ListsRight')
<1> DEFINE Good == ListsTyped' /\ (ListsRight => ListsRight')
<1> SUFFICES Good
  OBVIOUS
<1>0. files \in [Paths -> Nodes]
  BY DEF Typed
<1>s. CASE files' = files /\ lists' = lists
  <2>1. \A d \in Keys : Listing(d)' = Listing(d)
    BY <1>0, <1>s, ListingFacts
  <2> QED BY <1>s, <2>1 DEF ListsTyped, ListsRight, Keys
<1>d. ASSUME files' = files, NEW S, lists' = Drop(lists, S)
      PROVE  Good
  BY <1>0, <1>d, UntouchedFiles, DroppedLists
<1>1. CASE Looking
  <2>1. ASSUME NEW p \in Paths, Refresh(p)
        PROVE  Good
    BY <1>d, <2>1 DEF Refresh, InvalidateAll, InvalidateMetadata
  <2>2. ASSUME NEW d \in Keys, ReadDir(d)
        PROVE  Good
    BY <1>s, <2>2, PutLists DEF ReadDir
  <2>3. CASE ClearAllCaches
    BY <1>d, <2>3 DEF ClearAllCaches
  <2>4. CASE Tick
    BY <2>4, AgedLists DEF Tick
  <2>5. ASSUME NEW p \in Paths, Lookup(p) \/ GetAttr(p)
        PROVE  Good
    BY <1>s, <2>5 DEF Lookup, GetAttr
  <2> QED BY <1>1, <2>1, <2>2, <2>3, <2>4, <2>5 DEF Looking
<1>2. ASSUME NEW h \in Handles, NEW p \in Paths, Opening(h, p)
      PROVE  Good
  BY <1>2, <1>s DEF Opening, Open
<1>3. ASSUME NEW h \in Handles, NEW chunk \in Chunks, Write(h, chunk)
      PROVE  Good
  BY <1>3, <1>s DEF Write, caches
<1>4. ASSUME NEW h \in Handles, Flush(h) \/ Release(h)
      PROVE  Good
  <2>1. CASE Flushing(h)
    <3> DEFINE p == open[h].path
    <3>1. p \in Paths /\ Touched({p}) /\ InvalidateMetadata(p, FALSE)
      BY <2>1, FlushFacts
    <3> HIDE DEF p
    <3>2. lists' = Drop(lists, InvalidatedLists(p, FALSE, Keys))
          /\ (Front(p) \in Paths => Front(p) \in InvalidatedLists(p, FALSE, Keys))
      BY <3>1, InvalidatedFacts DEF InvalidateMetadata
    <3> QED BY <1>0, <3>1, <3>2, DroppedLists
  <2>2. CASE files' = files /\ lists' = lists
    BY <1>s, <2>2
  <2>3. Flushing(h) \/ (files' = files /\ lists' = lists)
    BY <1>4 DEF Flush, Release, Flushing, caches
  <2> QED BY <2>1, <2>2, <2>3
<1>5. ASSUME NEW p \in Paths, Making(p)
      PROVE  Good
  <2>1. Touched({p}) /\ InvalidateMetadata(Front(p), FALSE)
    BY <1>5, MakeFacts
  <2>2. lists' = Drop(lists, InvalidatedLists(Front(p), FALSE, Keys))
        /\ Front(p) \in InvalidatedLists(Front(p), FALSE, Keys)
    BY <2>1, InvalidatedFacts DEF InvalidateMetadata
  <2> QED BY <1>0, <2>1, <2>2, DroppedLists
<1>6. ASSUME NEW p \in Paths, Deleting(p)
      PROVE  Good
  <2>1. PICK recursive \in BOOLEAN : InvalidateAll(p, recursive)
    BY <1>6, DeleteFacts
  <2>2. Touched({p})
    BY <1>6, DeleteFacts
  <2>3. lists' = Drop(lists, InvalidatedLists(p, recursive, Keys))
        /\ (Front(p) \in Paths => Front(p) \in InvalidatedLists(p, recursive, Keys))
    BY <2>1, InvalidatedFacts DEF InvalidateAll, InvalidateMetadata
  <2> QED BY <1>0, <2>2, <2>3, DroppedLists
<1>7. ASSUME NEW p \in Paths, NEW q \in Paths, Renaming(p, q)
      PROVE  Good
  <2>1. PICK recursive \in BOOLEAN : InvalidateBoth(p, q, recursive)
    BY <1>7, RenameFacts
  <2>2. Touched({p, q})
    BY <1>7, RenameFacts
  <2> DEFINE S == InvalidatedLists(p, recursive, Keys) \cup InvalidatedLists(q, recursive, Keys)
  <2>3. /\ lists' = Drop(lists, S)
        /\ \A x \in {p, q} : Front(x) \in Paths => Front(x) \in S
    BY <2>1, InvalidatedFacts DEF InvalidateBoth
  <2> HIDE DEF S
  <2> QED BY <1>0, <2>2, <2>3, DroppedLists
<1>8. CASE Troubled
  BY <1>8, DoubtedLists
<1>9. CASE UNCHANGED <<files, caches, open>>
  BY <1>9, <1>s DEF caches
<1> QED
  BY <1>1, <1>2, <1>3, <1>4, <1>5, <1>6, <1>7, <1>8, <1>9, StepKinds

LEMMA ListsAlways == Spec => [](ListsTyped /\ ListsRight)
<1>1. Init => ListsTyped /\ ListsRight
  BY DEF Init, ListsTyped, ListsRight, Keys
<1>2. Typed /\ ListsTyped /\ ListsRight /\ [Next]_vars => (ListsTyped /\ ListsRight)'
  BY ListsStep
<1> QED
  BY <1>1, <1>2, TypesStay, PTL DEF Spec

(* A cached listing of a directory that nobody else changed shows only     *)
(* what is there, and lacks at most directories that a flush of a path     *)
(* below them has made again.                                              *)
THEOREM ListingsStayRight == Spec => []ListingsCurrent
<1>1. ListsRight => ListingsCurrent
  BY DEF ListsRight, ListingsCurrent, CachedListing, Near, MadeAgain
<1> QED
  BY <1>1, ListsAlways, PTL

-----------------------------------------------------------------------------
(***************************************************************************)
(* The accounting of the content cache.                                    *)
(***************************************************************************)
(* The paths it holds, an order of some paths, each in it once. *)
Kept(cache) == {k \in Keys : cache.entries[k] # None}
Ordered(order, keys) == order \in Seq(Keys) /\ IsInjective(order) /\ ToSet(order) = keys
(* What the count of bytes is the count of. *)
Held(cache, keys) == UNION {{k} \X cache.entries[k].data : k \in keys}

(* The order is that of the paths held, the count that of their bytes. *)
Accounts(cache) ==
  /\ IsContent(cache)
  /\ Ordered(cache.order, Kept(cache))
  /\ cache.current = BytesOf(cache, Kept(cache)) /\ cache.current <= MaxBytes

(* A set of numbers that is not empty has a least one. *)
LEMMA LeastExists ==
  ASSUME NEW S \in SUBSET Nat, S # {}
  PROVE  \E e \in S : \A x \in S : e <= x
<1>1. PICK e \in S : \A x \in S : ~(<<x, e>> \in OpToRel(<, Nat))
  BY WFMin, NatLessThanWellFounded
<1>2. ASSUME NEW x \in S PROVE e <= x
  <2>0. x \in Nat /\ e \in Nat
    OBVIOUS
  <2>1. ASSUME x < e PROVE FALSE
    <3> DEFINE both == <<x, e>>
    <3>1. both \in Nat \X Nat /\ both[1] = x /\ both[2] = e
      BY <2>0
    <3> HIDE DEF both
    <3>2. both \in OpToRel(<, Nat)
      BY <2>1, <3>1, Zenon DEF OpToRel
    <3> QED BY <1>1, <3>2 DEF both
  <2> QED BY <2>0, <2>1
<1> QED BY <1>2

(* What is left of an order: the i-th of the places that are left is the   *)
(* one with i such places up to it.                                        *)
LEMMA WithoutFacts ==
  ASSUME NEW order, NEW keys, Ordered(order, keys), NEW gone
  PROVE  Ordered(Without(order, gone), keys \ gone)
<1> DEFINE left == {i \in 1..Len(order) : order[i] \notin gone}
           Upto(i) == {j \in left : j <= i}
           Rank(i) == Cardinality(Upto(i))
           N == Cardinality(left)
           new == Without(order, gone)
<1>0. order \in Seq(Keys) /\ Len(order) \in Nat /\ IsInjective(order) /\ ToSet(order) = keys
  BY DEF Ordered
<1>1. IsFiniteSet(left) /\ N \in Nat /\ left \in SUBSET (1..Len(order))
  <2>1. IsFiniteSet(1..Len(order))
    BY <1>0, FS_Interval
  <2> QED BY <2>1, FS_Subset, FS_CardinalityType
<1> HIDE DEF left
<1>2. ASSUME NEW i \in left PROVE Rank(i) \in 1..N
  <2>1. Upto(i) \in SUBSET left /\ i \in Upto(i)
    BY <1>1
  <2> HIDE DEF Upto
  <2>2. IsFiniteSet(Upto(i)) /\ Cardinality(Upto(i)) <= N
    BY <1>1, <2>1, FS_Subset
  <2>3. Cardinality(Upto(i)) \in Nat /\ Cardinality(Upto(i)) # 0
    BY <2>1, <2>2, FS_CardinalityType, FS_EmptySet
  <2> QED BY <1>1, <2>2, <2>3
<1>3. ASSUME NEW i \in left, NEW j \in left, i < j PROVE Rank(i) # Rank(j)
  <2>0. \A x \in left : x \in Nat
    BY <1>1
  <2>a. \A x, y, z \in Nat : (x <= y /\ y < z => x <= z) /\ (y < z => ~(z <= y)) /\ z <= z
    OBVIOUS
  <2>1. Upto(i) \in SUBSET Upto(j) /\ Upto(j) \in SUBSET left /\ j \in Upto(j) /\ j \notin Upto(i)
    BY <1>3, <2>0, <2>a, Zenon
  <2> HIDE DEF Upto
  <2>2. IsFiniteSet(Upto(j))
    BY <1>1, <2>1, FS_Subset
  <2> QED BY <2>1, <2>2, FS_Subset
<1> DEFINE rank == [i \in left |-> Rank(i)]
<1>4. ASSUME NEW n \in 1..N PROVE \E i \in left : Rank(i) = n
  <2> HIDE DEF Rank
  <2>1. rank \in [left -> 1..N]
    BY <1>2
  <2>2. IsInjective(rank)
    <3> SUFFICES ASSUME NEW i \in left, NEW j \in left, Rank(i) = Rank(j) PROVE i = j
      BY DEF IsInjective
    <3>1. i \in Nat /\ j \in Nat
      BY <1>1
    <3> QED BY <1>3, <3>1
  <2>3. rank \in Injection(left, 1..N)
    BY <2>1, <2>2 DEF Injection
  <2>4. IsFiniteSet(1..N) /\ Cardinality(1..N) = N
    BY <1>1, FS_Interval
  <2> HIDE DEF rank
  <2>5. rank \in Surjection(left, 1..N)
    BY <1>1, <2>3, <2>4, FS_Injection
  <2>6. \A m \in 1..N : \E i \in left : rank[i] = m
    BY <2>5 DEF Surjection
  <2> QED BY <2>6 DEF rank
<1> DEFINE At(n) == CHOOSE i \in left : Rank(i) = n
<1>5. new = [n \in 1..N |-> order[At(n)]]
  BY DEF Without, left
<1> HIDE DEF new, Rank
<1>6. ASSUME NEW n \in 1..N PROVE At(n) \in left /\ Rank(At(n)) = n
  BY <1>4
<1>7. ASSUME NEW i \in left PROVE At(Rank(i)) = i
  <2>1. Rank(i) \in 1..N
    BY <1>2
  <2> DEFINE other == At(Rank(i))
  <2>2. other \in left /\ Rank(other) = Rank(i)
    BY <1>6, <2>1
  <2> HIDE DEF other, At
  <2>3. other \in Nat /\ i \in Nat
    BY <1>1, <2>2
  <2>4. other = i
    BY <1>3, <2>2, <2>3
  <2> QED BY <2>4 DEF other
<1> HIDE DEF At, N
<1>8. DOMAIN new = 1..N /\ \A n \in 1..N : new[n] = order[At(n)]
  BY <1>5
<1>9. \A i \in left : i \in 1..Len(order) /\ order[i] \in Keys /\ order[i] \notin gone
  BY <1>0, <1>1 DEF left
<1>10. new \in Seq(Keys)
  <2>1. N \in Nat /\ \A n \in 1..N : order[At(n)] \in Keys
    BY <1>1, <1>6, <1>9
  <2> QED BY <1>5, <2>1
<1>11. IsInjective(new)
  <2> SUFFICES ASSUME NEW a \in 1..N, NEW b \in 1..N, order[At(a)] = order[At(b)]
               PROVE  a = b
    BY <1>8 DEF IsInjective
  <2>1. At(a) \in 1..Len(order) /\ At(b) \in 1..Len(order)
    BY <1>6, <1>9
  <2>2. At(a) = At(b)
    BY <1>0, <2>1 DEF IsInjective
  <2> QED BY <1>6, <2>2
<1>12. ToSet(new) = keys \ gone
  <2>1. ASSUME NEW n \in 1..N PROVE new[n] \in keys \ gone
    <3>1. At(n) \in left
      BY <1>6
    <3> QED BY <1>0, <1>8, <1>9, <3>1 DEF ToSet
  <2>2. ASSUME NEW k \in keys \ gone PROVE \E n \in 1..N : new[n] = k
    <3>1. PICK i \in 1..Len(order) : order[i] = k
      BY <1>0 DEF ToSet
    <3>2. i \in left
      BY <3>1 DEF left
    <3>3. Rank(i) \in 1..N /\ new[Rank(i)] = k
      BY <1>2, <1>7, <1>8, <3>1, <3>2
    <3> QED BY <3>3
  <2> QED BY <1>8, <2>1, <2>2 DEF ToSet
<1> QED BY <1>10, <1>11, <1>12 DEF Ordered, new

(* The bytes of some cached contents: a number, the sum of those of two    *)
(* parts, the size of the content if it is one.                            *)
LEMMA HeldFacts ==
  ASSUME NEW cache, IsContent(cache), NEW keys \in SUBSET Kept(cache), IsFiniteSet(keys)
  PROVE  /\ IsFiniteSet(Held(cache, keys)) /\ BytesOf(cache, keys) \in Nat
         /\ BytesOf(cache, keys) = Cardinality(Held(cache, keys))
<1>1. \A k \in keys : cache.entries[k].data \in SUBSET Chunks
  BY DEF IsContent, Kept, ContentEntries, Bytes
<1>2. Held(cache, keys) \in SUBSET (keys \X Chunks)
  BY <1>1 DEF Held
<1>3. IsFiniteSet(keys \X Chunks)
  BY SettingsAssumption, FS_Product
<1>4. IsFiniteSet(Held(cache, keys))
  BY <1>2, <1>3, FS_Subset
<1>5. BytesOf(cache, keys) = Cardinality(Held(cache, keys))
  BY DEF BytesOf, Held, Size
<1> QED BY <1>4, <1>5, FS_CardinalityType

LEMMA BytesApart ==
  ASSUME NEW cache, IsContent(cache),
         NEW keys \in SUBSET Kept(cache), IsFiniteSet(keys), NEW gone \in SUBSET keys
  PROVE  /\ IsFiniteSet(gone) /\ IsFiniteSet(keys \ gone)
         /\ BytesOf(cache, gone) \in Nat /\ BytesOf(cache, keys \ gone) \in Nat
         /\ BytesOf(cache, keys) = BytesOf(cache, gone) + BytesOf(cache, keys \ gone)
<1> DEFINE rest == keys \ gone
<1>1. /\ IsFiniteSet(gone) /\ IsFiniteSet(rest)
      /\ gone \in SUBSET Kept(cache) /\ rest \in SUBSET Kept(cache)
  BY FS_Subset, FS_Difference
<1>2. Held(cache, keys) = Held(cache, gone) \cup Held(cache, rest)
  BY DEF Held
<1>3. Held(cache, gone) \cap Held(cache, rest) = {}
  BY DEF Held
<1> HIDE DEF rest
<1>4. IsFiniteSet(Held(cache, gone)) /\ IsFiniteSet(Held(cache, rest))
  BY <1>1, HeldFacts
<1>5. Cardinality(Held(cache, keys))
        = Cardinality(Held(cache, gone)) + Cardinality(Held(cache, rest)) - Cardinality({})
  BY <1>2, <1>3, <1>4, FS_Union
<1>6. /\ BytesOf(cache, gone) = Cardinality(Held(cache, gone)) /\ BytesOf(cache, gone) \in Nat
      /\ BytesOf(cache, rest) = Cardinality(Held(cache, rest)) /\ BytesOf(cache, rest) \in Nat
      /\ BytesOf(cache, keys) = Cardinality(Held(cache, keys))
  BY <1>1, HeldFacts
<1> QED BY <1>1, <1>5, <1>6, FS_EmptySet DEF rest

LEMMA BytesOfOne ==
  ASSUME NEW cache, IsContent(cache), NEW p \in Kept(cache)
  PROVE  BytesOf(cache, {p}) = Size(cache.entries[p].data)
<1> DEFINE data == cache.entries[p].data
<1>1. data \in SUBSET Chunks
  BY DEF IsContent, Kept, ContentEntries, Bytes
<1>2. IsFiniteSet(data)
  BY <1>1, SettingsAssumption, FS_Subset
<1>s. IsFiniteSet({p}) /\ Cardinality({p}) = 1
  BY FS_Singleton
<1> HIDE DEF data
<1>3. Cardinality({p} \X data) = 1 * Cardinality(data) /\ Cardinality(data) \in Nat
  BY <1>2, <1>s, FS_Product, FS_CardinalityType
<1>4. UNION {{k} \X cache.entries[k].data : k \in {p}} = {p} \X data
  BY DEF data
<1>5. Cardinality({p} \X data) = Cardinality(data)
  BY <1>3
<1> QED BY <1>4, <1>5 DEF BytesOf, Size, data

LEMMA BytesSame ==
  ASSUME NEW cache, NEW other, NEW keys,
         \A k \in keys : other.entries[k].data = cache.entries[k].data
  PROVE  BytesOf(other, keys) = BytesOf(cache, keys)
<1>1. UNION {{k} \X other.entries[k].data : k \in keys}
        = UNION {{k} \X cache.entries[k].data : k \in keys}
  OBVIOUS
<1> QED BY <1>1 DEF BytesOf

(* The cached paths are those of the order, so they are finitely many. *)
LEMMA OrderFinite ==
  ASSUME NEW order, NEW keys, Ordered(order, keys)
  PROVE  IsFiniteSet(keys)
<1>1. /\ order \in [1..Len(order) -> keys] /\ \A k \in keys : \E i \in 1..Len(order) : order[i] = k
      /\ Len(order) \in Nat
  BY DEF Ordered, ToSet
<1>2. order \in Surjection(1..Len(order), keys) /\ IsFiniteSet(1..Len(order))
  BY <1>1, FS_Interval DEF Surjection
<1> QED BY <1>2, FS_Surjection

-----------------------------------------------------------------------------
(* Contents go, and with them their places and their bytes. *)
LEMMA DropAccounts ==
  ASSUME NEW cache, Accounts(cache), NEW gone \in SUBSET Kept(cache),
         NEW order, Ordered(order, Kept(cache) \ gone),
         NEW new, new = [entries |-> Drop(cache.entries, gone), order |-> order,
                         current |-> cache.current - BytesOf(cache, gone)]
  PROVE  /\ Accounts(new) /\ Kept(new) = Kept(cache) \ gone
         /\ new.current \in Nat /\ new.current <= cache.current
<1> DEFINE rest == Kept(cache) \ gone
<1>1. IsContent(cache) /\ IsFiniteSet(Kept(cache))
  BY OrderFinite DEF Accounts
<1>2. /\ BytesOf(cache, gone) \in Nat /\ BytesOf(cache, rest) \in Nat
      /\ BytesOf(cache, Kept(cache)) = BytesOf(cache, gone) + BytesOf(cache, rest)
  BY <1>1, BytesApart
<1>3. /\ new.entries = [k \in Keys |-> IF k \in gone THEN None ELSE cache.entries[k]]
      /\ new.order = order
  BY <1>1 DEF Drop, IsContent
<1>4. IsContent(new)
  BY <1>1, <1>3 DEF IsContent
<1>5. Kept(new) = rest /\ \A k \in rest : new.entries[k].data = cache.entries[k].data
  BY <1>3 DEF Kept
<1>6. BytesOf(new, rest) = BytesOf(cache, rest)
  BY <1>5, BytesSame
<1>7. new.current = cache.current - BytesOf(cache, gone)
  OBVIOUS
<1> HIDE DEF rest
<1>8. cache.current = BytesOf(cache, Kept(cache)) /\ cache.current <= MaxBytes /\ MaxBytes \in Nat
  BY SettingsAssumption DEF Accounts
<1>9. new.current = BytesOf(new, rest) /\ new.current \in Nat /\ new.current <= cache.current
      /\ new.current <= MaxBytes
  BY <1>2, <1>6, <1>7, <1>8
<1> QED BY <1>3, <1>4, <1>5, <1>9 DEF Accounts, rest

LEMMA RemovePathAccounts ==
  ASSUME NEW cache, Accounts(cache), NEW p \in Keys
  PROVE  Accounts(RemovePath(cache, p)) /\ Kept(RemovePath(cache, p)) = Kept(cache) \ {p}
<1>1. CASE cache.entries[p] = None
  BY <1>1 DEF RemovePath, Kept
<1>2. CASE cache.entries[p] # None
  <2>1. p \in Kept(cache) /\ IsContent(cache) /\ Ordered(cache.order, Kept(cache))
    BY <1>2 DEF Kept, Accounts
  <2>2. Ordered(Without(cache.order, {p}), Kept(cache) \ {p})
    BY <2>1, WithoutFacts
  <2>3. BytesOf(cache, {p}) = Size(cache.entries[p].data)
    BY <2>1, BytesOfOne
  <2> DEFINE new == RemovePath(cache, p)
  <2>4. new
          = [entries |-> Drop(cache.entries, {p}), order |-> Without(cache.order, {p}),
             current |-> cache.current - BytesOf(cache, {p})]
    BY <1>2, <2>3 DEF RemovePath
  <2>5. {p} \in SUBSET Kept(cache)
    BY <2>1
  <2> HIDE DEF new
  <2>6. Accounts(new) /\ Kept(new) = Kept(cache) \ {p}
    BY <2>2, <2>4, <2>5, DropAccounts
  <2> QED BY <2>6 DEF new
<1> QED BY <1>1, <1>2

LEMMA RemovePrefixAccounts ==
  ASSUME NEW cache, Accounts(cache), NEW p
  PROVE  Accounts(RemovePrefix(cache, p))
<1> DEFINE gone == {k \in Under(p, DOMAIN cache.entries) : cache.entries[k] # None}
<1>1. gone \in SUBSET Kept(cache)
  BY DEF Accounts, IsContent, Kept, Under
<1>2. RemovePrefix(cache, p)
        = [entries |-> Drop(cache.entries, gone), order |-> Without(cache.order, gone),
           current |-> cache.current - BytesOf(cache, gone)]
  BY DEF RemovePrefix
<1> HIDE DEF gone
<1>3. Ordered(Without(cache.order, gone), Kept(cache) \ gone)
  BY WithoutFacts DEF Accounts
<1> QED BY <1>1, <1>2, <1>3, DropAccounts

(* What is behind the first n places of an order. *)
LEMMA OrderBehind ==
  ASSUME NEW order, NEW keys, Ordered(order, keys), NEW n \in 0..Len(order)
  PROVE  LET oldest == {order[i] : i \in 1..n} IN
         /\ oldest \in SUBSET keys
         /\ n = Len(order) => oldest = keys
         /\ Ordered(SubSeq(order, n + 1, Len(order)), keys \ oldest)
<1> DEFINE oldest == {order[i] : i \in 1..n}
           rest == SubSeq(order, n + 1, Len(order))
<1>0. order \in Seq(Keys) /\ Len(order) \in Nat /\ n \in Nat /\ n <= Len(order)
      /\ IsInjective(order) /\ keys = {order[i] : i \in 1..Len(order)}
  BY DEF Ordered, ToSet
<1>d. \A i, j \in 1..Len(order) : order[i] = order[j] => i = j
  BY <1>0 DEF IsInjective
<1>1. oldest \in SUBSET keys /\ (n = Len(order) => oldest = keys)
  BY <1>0
<1>2. /\ rest \in Seq(Keys) /\ Len(rest) = Len(order) - n /\ DOMAIN rest = 1..Len(rest)
      /\ \A i \in 1..Len(rest) : rest[i] = order[n + i] /\ n + i \in 1..Len(order)
  BY <1>0
<1> HIDE DEF rest
<1>3. IsInjective(rest)
  <2> SUFFICES ASSUME NEW i \in 1..Len(rest), NEW j \in 1..Len(rest), rest[i] = rest[j]
               PROVE  i = j
    BY <1>2 DEF IsInjective
  <2>1. n + i = n + j
    BY <1>2, <1>d
  <2> QED BY <1>0, <2>1
<1>4. ToSet(rest) = keys \ oldest
  <2>1. ASSUME NEW i \in 1..Len(rest) PROVE rest[i] \in keys \ oldest
    <3>1. rest[i] = order[n + i] /\ n + i \in 1..Len(order) /\ n + i > n
      BY <1>0, <1>2
    <3>2. \A j \in 1..n : j \in 1..Len(order) /\ j # n + i
      BY <1>0
    <3> QED BY <1>0, <1>d, <3>1, <3>2
  <2>2. ASSUME NEW k \in keys \ oldest PROVE \E i \in 1..Len(rest) : rest[i] = k
    <3>1. PICK i \in 1..Len(order) : order[i] = k
      BY <1>0
    <3>2. i \notin 1..n
      BY <3>1
    <3>3. i - n \in 1..Len(rest) /\ n + (i - n) = i
      BY <1>0, <1>2, <3>2
    <3> QED BY <1>2, <3>1, <3>3
  <2>3. ToSet(rest) = {rest[i] : i \in 1..Len(rest)}
    BY <1>2 DEF ToSet
  <2> HIDE DEF oldest
  <2> QED BY <2>1, <2>2, <2>3
<1> QED BY <1>1, <1>2, <1>3, <1>4 DEF Ordered, rest

(* Enough of the oldest contents are evicted, for dropping all is enough. *)
LEMMA EvictAccounts ==
  ASSUME NEW cache, Accounts(cache), NEW room \in Nat, room <= MaxBytes
  PROVE  LET new == Evict(cache, room) IN
         /\ Accounts(new) /\ Kept(new) \in SUBSET Kept(cache)
         /\ new.current \in Nat /\ new.current + room <= MaxBytes
<1> DEFINE Oldest(n) == {cache.order[i] : i \in 1..n}
           FitsAt(n) == cache.current - BytesOf(cache, Oldest(n)) + room <= MaxBytes
           length == Len(cache.order)
           fits == {n \in 0..length : FitsAt(n)}
           new == Evict(cache, room)
<1>0. /\ Ordered(cache.order, Kept(cache)) /\ length \in Nat
      /\ cache.current = BytesOf(cache, Kept(cache)) /\ IsContent(cache)
      /\ IsFiniteSet(Kept(cache))
  BY OrderFinite DEF Accounts, Ordered
<1>1. BytesOf(cache, Kept(cache)) \in Nat /\ MaxBytes \in Nat
  BY <1>0, HeldFacts, SettingsAssumption
<1>2. length \in fits
  <2>1. length \in 0..length /\ Oldest(length) = Kept(cache)
    BY <1>0 DEF Ordered, ToSet
  <2> HIDE DEF Oldest
  <2>2. FitsAt(length)
    BY <1>0, <1>1, <2>1
  <2> QED BY <2>1, <2>2
<1> HIDE DEF FitsAt, Oldest
<1>3. \E n \in 0..length : FitsAt(n) /\ \A m \in 0..(n - 1) : ~FitsAt(m)
  <2>1. fits \in SUBSET Nat /\ fits # {}
    BY <1>2
  <2> HIDE DEF fits
  <2>2. PICK n \in fits : \A x \in fits : n <= x
    BY <2>1, LeastExists
  <2>3. n \in 0..length /\ FitsAt(n)
    BY <2>2 DEF fits
  <2>4. ASSUME NEW m \in 0..(n - 1) PROVE ~FitsAt(m)
    <3>1. m \in 0..length /\ ~(n <= m)
      BY <1>0, <2>3
    <3> QED BY <2>2, <3>1 DEF fits
  <2> QED BY <2>3, <2>4
<1> DEFINE n == CHOOSE n \in 0..length : FitsAt(n) /\ \A m \in 0..(n - 1) : ~FitsAt(m)
<1>4. n \in 0..length /\ FitsAt(n)
  BY <1>3
<1>5. new = [entries |-> Drop(cache.entries, Oldest(n)),
             order |-> SubSeq(cache.order, n + 1, length),
             current |-> cache.current - BytesOf(cache, Oldest(n))]
  BY DEF Evict, FitsAt, Oldest
<1> HIDE DEF n, new
<1>6. /\ Oldest(n) \in SUBSET Kept(cache)
      /\ Ordered(SubSeq(cache.order, n + 1, length), Kept(cache) \ Oldest(n))
  BY <1>0, <1>4, OrderBehind DEF Oldest
<1>7. Accounts(new) /\ Kept(new) = Kept(cache) \ Oldest(n) /\ new.current \in Nat
  <2> DEFINE gone == Oldest(n)
             order == SubSeq(cache.order, n + 1, length)
  <2>1. /\ gone \in SUBSET Kept(cache) /\ Ordered(order, Kept(cache) \ gone)
        /\ new = [entries |-> Drop(cache.entries, gone), order |-> order,
                  current |-> cache.current - BytesOf(cache, gone)]
    BY <1>5, <1>6
  <2> HIDE DEF gone, order
  <2>2. Accounts(new) /\ Kept(new) = Kept(cache) \ gone /\ new.current \in Nat
    BY <2>1, DropAccounts
  <2> QED BY <2>2 DEF gone
<1>8. new.current + room <= MaxBytes
  BY <1>4, <1>5 DEF FitsAt
<1> QED BY <1>7, <1>8 DEF new

(* A path that has no place in an order takes the last one. *)
LEMMA AppendOrdered ==
  ASSUME NEW old, NEW keys, Ordered(old, keys), NEW p \in Keys \ keys
  PROVE  Ordered(Append(old, p), keys \cup {p})
<1> DEFINE order == Append(old, p)
<1>1. /\ old \in Seq(Keys) /\ Len(old) \in Nat /\ DOMAIN old = 1..Len(old)
      /\ ToSet(old) = keys /\ IsInjective(old) /\ \A i \in 1..Len(old) : old[i] # p
  BY DEF Ordered, ToSet
<1>2. /\ order \in Seq(Keys) /\ Len(order) = Len(old) + 1 /\ DOMAIN order = 1..Len(order)
      /\ order[Len(old) + 1] = p /\ \A i \in 1..Len(old) : order[i] = old[i]
  BY <1>1
<1> HIDE DEF order
<1>3. \A i \in 1..Len(order) : i \in 1..Len(old) \/ i = Len(old) + 1
  BY <1>1, <1>2
<1>4. 1..Len(old) \in SUBSET (1..Len(order)) /\ Len(old) + 1 \in 1..Len(order)
  BY <1>1, <1>2
<1>5. IsInjective(order)
  BY <1>1, <1>2, <1>3 DEF IsInjective
<1>6. ToSet(order) = keys \cup {p}
  BY <1>1, <1>2, <1>3, <1>4 DEF ToSet
<1> QED BY <1>2, <1>5, <1>6 DEF Ordered, order

(* The content that is put takes the last place. *)
LEMMA PutAccounts ==
  ASSUME NEW cache, Accounts(cache), NEW p \in Keys, NEW data \in Bytes
  PROVE  Accounts(PutCachedContent(cache, p, data))
<1> DEFINE entry == [data |-> data, sure |-> TRUE]
           less == RemovePath(cache, p)
           room == Evict(less, Size(data))
           new == [entries |-> [room.entries EXCEPT ![p] = entry],
                   order |-> Append(room.order, p),
                   current |-> room.current + Size(data)]
<1>0. Size(data) \in Nat /\ MaxBytes \in Nat
  BY SizeFacts, SettingsAssumption
<1>e. entry \in [data : Bytes, sure : BOOLEAN] /\ entry.data = data
  OBVIOUS
<1>1. entry \in ContentEntries /\ entry.data = data /\ entry # None
  BY <1>e, ValuesAssumption DEF ContentEntries
<1>2. PutCachedContent(cache, p, data) \in {cache, new}
      /\ (PutCachedContent(cache, p, data) # cache => ~(Size(data) > MaxBytes))
  BY <1>1 DEF PutCachedContent, PutContent
<1>3. CASE PutCachedContent(cache, p, data) = cache
  BY <1>3
<1>4. CASE Size(data) <= MaxBytes
  <2>1. Accounts(less) /\ Kept(less) = Kept(cache) \ {p}
    BY RemovePathAccounts
  <2> HIDE DEF less
  <2>2. /\ Accounts(room) /\ Kept(room) \in SUBSET Kept(less)
        /\ room.current \in Nat /\ room.current + Size(data) <= MaxBytes
    BY <1>0, <1>4, <2>1, EvictAccounts
  <2> HIDE DEF room
  <2>3. p \notin Kept(room) /\ IsContent(room) /\ Ordered(room.order, Kept(room))
        /\ room.current = BytesOf(room, Kept(room))
    BY <2>1, <2>2 DEF Accounts
  <2> HIDE DEF entry
  <2>4. new.entries \in [Keys -> ContentEntries \cup {None}]
    BY <1>1, <2>3 DEF IsContent
  <2>5. IsContent(new)
    BY <2>4 DEF IsContent
  <2>6. /\ Kept(new) = Kept(room) \cup {p} /\ new.entries[p] = entry
        /\ \A k \in Kept(room) : new.entries[k] = room.entries[k]
    BY <1>1, <2>3 DEF Kept, IsContent
  <2>7. Ordered(new.order, Kept(room) \cup {p})
    BY <2>3, AppendOrdered
  <2>8. BytesOf(new, Kept(new)) = room.current + Size(data)
    <3>1. IsFiniteSet(Kept(new))
      BY <2>6, <2>7, OrderFinite
    <3>2. Kept(new) \ {p} = Kept(room) /\ {p} \in SUBSET Kept(new) /\ p \in Kept(new)
      BY <2>3, <2>6
    <3> HIDE DEF new
    <3> DEFINE kept == Kept(new)
               one == {p}
    <3>c. IsContent(new) /\ kept \in SUBSET Kept(new) /\ one \in SUBSET kept /\ IsFiniteSet(kept)
      BY <2>5, <3>1, <3>2
    <3> HIDE DEF kept, one
    <3>3. /\ BytesOf(new, kept) = BytesOf(new, one) + BytesOf(new, kept \ one)
          /\ BytesOf(new, one) \in Nat /\ BytesOf(new, kept \ one) \in Nat
      BY <3>c, BytesApart
    <3>4. BytesOf(new, {p}) = Size(data)
      BY <1>1, <3>c, <2>6, <3>2, BytesOfOne
    <3>5. BytesOf(new, Kept(room)) = BytesOf(room, Kept(room))
      BY <2>6, BytesSame
    <3> QED BY <1>0, <2>2, <2>3, <3>2, <3>3, <3>4, <3>5 DEF kept, one
  <2>9. new.order = Append(room.order, p) /\ new.current = room.current + Size(data)
    OBVIOUS
  <2> HIDE DEF new
  <2>10. Accounts(new)
    BY <2>2, <2>5, <2>6, <2>7, <2>8, <2>9 DEF Accounts
  <2> QED BY <1>2, <1>3, <2>10
<1> QED BY <1>0, <1>2, <1>3, <1>4

(* A content that is read takes the last place. *)
LEMMA PromoteAccounts ==
  ASSUME NEW cache, Accounts(cache), NEW p \in Kept(cache)
  PROVE  Accounts(Promote(cache, p))
<1> DEFINE old == Without(cache.order, {p})
           new == Promote(cache, p)
<1>1. /\ IsContent(cache) /\ Ordered(cache.order, Kept(cache)) /\ p \in Keys
      /\ cache.current = BytesOf(cache, Kept(cache)) /\ cache.current <= MaxBytes
  BY DEF Accounts, Kept
<1>2. Ordered(old, Kept(cache) \ {p})
  BY <1>1, WithoutFacts
<1>3. new = [entries |-> cache.entries, order |-> Append(old, p), current |-> cache.current]
  <2>1. new = [cache EXCEPT !.order = Append(old, p)]
    BY DEF Promote
  <2>2. cache = [entries |-> cache.entries, order |-> cache.order, current |-> cache.current]
    BY <1>1 DEF IsContent
  <2> HIDE DEF old, new
  <2> DEFINE e == cache.entries
             o == cache.order
             c == cache.current
  <2>3. cache = [entries |-> e, order |-> o, current |-> c]
    BY <2>2
  <2> HIDE DEF e, o, c
  <2>4. new = [entries |-> e, order |-> Append(old, p), current |-> c]
    BY <2>1, <2>3
  <2> QED BY <2>4 DEF e, c
<1> HIDE DEF old, new
<1>4. new.entries = cache.entries /\ new.order = Append(old, p) /\ new.current = cache.current
  BY <1>3
<1>5. Ordered(Append(old, p), Kept(cache))
  <2>1. (Kept(cache) \ {p}) \cup {p} = Kept(cache)
    OBVIOUS
  <2>2. Ordered(Append(old, p), (Kept(cache) \ {p}) \cup {p})
    BY <1>1, <1>2, AppendOrdered
  <2> QED BY <2>1, <2>2
<1>6. IsContent(new) /\ Kept(new) = Kept(cache)
  BY <1>1, <1>3, <1>4 DEF IsContent, Kept
<1>7. BytesOf(new, Kept(cache)) = BytesOf(cache, Kept(cache))
  BY <1>4, BytesSame
<1>8. Accounts(new)
  BY <1>1, <1>4, <1>5, <1>6, <1>7 DEF Accounts
<1> QED BY <1>8 DEF new

LEMMA RemoveAccounts ==
  ASSUME NEW cache, Accounts(cache), NEW p \in Paths, NEW recursive
  PROVE  Accounts(RemoveContent(cache, p, recursive))
BY PathFacts, RemovePathAccounts, RemovePrefixAccounts DEF RemoveContent

LEMMA EmptyAccounts == Accounts(EmptyContent(Keys))
<1> DEFINE empty == EmptyContent(Keys)
<1>1. /\ empty = [entries |-> empty.entries, order |-> <<>>, current |-> 0]
      /\ empty.entries = [k \in Keys |-> None] /\ empty.order = <<>> /\ empty.current = 0
  BY DEF EmptyContent
<1> HIDE DEF empty
<1>2. IsContent(empty) /\ Kept(empty) = {}
  BY <1>1 DEF IsContent, Kept
<1>3. Ordered(<<>>, {})
  BY DEF Ordered, IsInjective, ToSet
<1>4. BytesOf(empty, {}) = 0
  <2>1. UNION {{k} \X empty.entries[k].data : k \in {}} = {}
    OBVIOUS
  <2> QED BY <2>1, FS_EmptySet DEF BytesOf, Size
<1>5. 0 <= MaxBytes
  BY SettingsAssumption
<1>6. Accounts(empty)
  BY <1>1, <1>2, <1>3, <1>4, <1>5 DEF Accounts
<1> QED BY <1>6 DEF empty

(* A failed call makes entries unsure and touches nothing that is counted. *)
LEMMA DoubtedAccounts ==
  ASSUME Typed, Accounts(content), Troubled
  PROVE  Accounts(content')
<1> DEFINE new == Doubted(content.entries, Changed)
           next == [entries |-> new, order |-> content.order, current |-> content.current]
<1>1. content.entries \in [Keys -> ContentEntries \cup {None}]
  BY DEF Typed, IsContent
<1>2. content' = next
  BY DEF Troubled, DoubtCaches, Typed, IsContent
<1>3. \A k \in Keys : /\ content.entries[k] = None => new[k] = None
                      /\ content.entries[k] # None =>
                           new[k] \in ContentEntries /\ new[k].data = content.entries[k].data
  <2>1. new = [k \in Keys |->
                 IF k \in Changed /\ content.entries[k] # None
                 THEN [content.entries[k] EXCEPT !.sure = FALSE] ELSE content.entries[k]]
    BY <1>1 DEF Doubted
  <2>2. \A e \in ContentEntries : LET unsure == [e EXCEPT !.sure = FALSE] IN
          unsure \in ContentEntries /\ unsure.data = e.data
    BY DEF ContentEntries
  <2> HIDE DEF new
  <2> QED BY <1>1, <2>1, <2>2
<1>4. IsContent(content')
  BY DoubtedFacts
<1>5. None \notin ContentEntries
  BY ValuesAssumption DEF ContentEntries
<1> HIDE DEF new
<1>6. next.entries = new /\ next.order = content.order /\ next.current = content.current
  OBVIOUS
<1> HIDE DEF next
<1>7. Kept(next) = Kept(content)
  BY <1>3, <1>5, <1>6 DEF Kept
<1>8. BytesOf(next, Kept(content)) = BytesOf(content, Kept(content))
  <2>1. \A k \in Kept(content) : next.entries[k].data = content.entries[k].data
    BY <1>3, <1>6 DEF Kept
  <2> QED BY <2>1, BytesSame
<1>9. Accounts(next)
  BY <1>2, <1>4, <1>6, <1>7, <1>8 DEF Accounts
<1> QED BY <1>2, <1>9

LEMMA AccountsStep ==
  ASSUME Typed, Accounts(content), [Next]_vars
  PROVE  Accounts(content')
<1>s. CASE content' = content
  BY <1>s
<1>1. CASE Looking
  <2>1. ASSUME NEW p \in Paths, Refresh(p)
        PROVE  Accounts(content')
    <3>1. content' = RemoveContent(content, p, inodes[p].kind = Dir)
      BY <2>1 DEF Refresh, InvalidateAll
    <3> QED BY <3>1, RemoveAccounts
  <2>2. CASE ClearAllCaches
    BY <2>2, EmptyAccounts DEF ClearAllCaches
  <2>3. ASSUME NEW p \in Paths, Lookup(p) \/ GetAttr(p)
        PROVE  Accounts(content')
    BY <1>s, <2>3 DEF Lookup, GetAttr
  <2>4. ASSUME NEW d \in Keys, ReadDir(d)
        PROVE  Accounts(content')
    BY <1>s, <2>4 DEF ReadDir
  <2>5. CASE Tick
    BY <1>s, <2>5 DEF Tick
  <2> QED BY <1>1, <2>1, <2>2, <2>3, <2>4, <2>5 DEF Looking
<1>2. ASSUME NEW h \in Handles, NEW p \in Paths, Opening(h, p)
      PROVE  Accounts(content')
  <2>0. p \in Keys /\ files[p] \in Nodes
    BY DEF Typed, Keys
  <2>1. CASE CachedContent(p) /\ content' = Promote(content, p)
    <3>1. p \in Kept(content)
      BY <2>0, <2>1 DEF CachedContent, Kept
    <3> QED BY <2>1, <3>1, PromoteAccounts
  <2>2. CASE IsFile(p) /\ content' = PutCachedContent(content, p, files[p])
    <3>1. files[p] \in Bytes
      BY <2>0, <2>2, NodeFacts DEF IsFile
    <3> QED BY <2>0, <2>2, <3>1, PutAccounts
  <2> QED BY <1>2, <1>s, <2>1, <2>2 DEF Opening, Open
<1>3. ASSUME NEW h \in Handles, Flush(h) \/ Release(h)
      PROVE  Accounts(content')
  <2>1. CASE Flushing(h)
    <3> DEFINE p == open[h].path
               data == open[h].data
    <3>1. p \in Paths /\ data \in Bytes /\ content' = PutCachedContent(content, p, data)
      BY <2>1, FlushFacts
    <3> HIDE DEF p, data
    <3>2. p \in Keys
      BY <3>1 DEF Keys
    <3> QED BY <3>1, <3>2, PutAccounts
  <2>2. Flushing(h) \/ content' = content
    BY <1>3 DEF Flush, Release, Flushing, caches
  <2> QED BY <1>s, <2>1, <2>2
<1>4. ASSUME NEW p \in Paths, Making(p)
      PROVE  Accounts(content')
  BY <1>4, <1>s, MakeFacts
<1>5. ASSUME NEW p \in Paths, Deleting(p)
      PROVE  Accounts(content')
  <2>1. PICK recursive \in BOOLEAN : InvalidateAll(p, recursive)
    BY <1>5, DeleteFacts
  <2> QED BY <2>1, RemoveAccounts DEF InvalidateAll
<1>6. ASSUME NEW p \in Paths, NEW q \in Paths, Renaming(p, q)
      PROVE  Accounts(content')
  <2>1. PICK recursive \in BOOLEAN : InvalidateBoth(p, q, recursive)
    BY <1>6, RenameFacts
  <2> DEFINE half == RemoveContent(content, p, recursive)
  <2>2. Accounts(half) /\ content' = RemoveContent(half, q, recursive)
    BY <2>1, RemoveAccounts DEF InvalidateBoth
  <2> HIDE DEF half
  <2> QED BY <2>2, RemoveAccounts
<1>7. CASE Troubled
  BY <1>7, DoubtedAccounts
<1>8. ASSUME NEW h \in Handles, NEW chunk \in Chunks, Write(h, chunk)
      PROVE  Accounts(content')
  BY <1>s, <1>8 DEF Write, caches
<1>9. CASE UNCHANGED <<files, caches, open>>
  BY <1>s, <1>9 DEF caches
<1> QED
  BY <1>1, <1>2, <1>3, <1>4, <1>5, <1>6, <1>7, <1>8, <1>9, StepKinds

LEMMA AccountsAlways == Spec => []Accounts(content)
<1>1. Init => Accounts(content)
  BY EmptyAccounts DEF Init
<1>2. Typed /\ Accounts(content) /\ [Next]_vars => Accounts(content)'
  <2> SUFFICES ASSUME Typed, Accounts(content), [Next]_vars PROVE Accounts(content')
    BY DEF Accounts, IsContent, Ordered, Kept, BytesOf
  <2> QED BY AccountsStep
<1> QED
  BY <1>1, <1>2, TypesStay, PTL DEF Spec

(* The content cache counts what it holds, whatever was read, written,     *)
(* removed, renamed or evicted in any order: every cached path has one     *)
(* place in the order and no other path has any, and the count of bytes    *)
(* is their sum, which the cache never passes.                             *)
THEOREM CacheCountsRight == Spec => []CacheAccounted
<1>1. Accounts(content) => CacheAccounted
  BY DEF Accounts, CacheAccounted, Ordered, Kept, CachedContent
<1> QED BY <1>1, AccountsAlways, PTL

-----------------------------------------------------------------------------
(* The name of which the last lookup said no is one of those there are. *)
MissedTyped == missed \in Paths \cup {None}

LEMMA MissedStep == MissedTyped /\ [Next]_vars => MissedTyped'
<1> SUFFICES ASSUME MissedTyped, [Next]_vars PROVE MissedTyped'
  OBVIOUS
<1> USE DEF MissedTyped
<1>s. CASE missed' = missed
  BY <1>s
<1>1. CASE Look
  BY <1>1 DEF Look, Lookup, GetAttr, Refresh, ReadDir, ClearAllCaches, SetAttr, Found
<1>2. CASE Use
  BY <1>2 DEF Use, Open, Write, Flush, Release
<1>3. CASE Change
  BY <1>3 DEF Change, Create, Mkdir, Unlink, Rmdir, Rename, Found
<1>4. CASE Failure
  BY <1>4 DEF Failure, FlushFails, ReleaseFails, MakeFails, DeleteFails, RenameFails, FailsAfter
<1>5. CASE Tick \/ \E p \in Paths, node \in Nodes : Foreign(p, node)
  BY <1>5 DEF Tick, Foreign
<1> QED
  BY <1>s, <1>1, <1>2, <1>3, <1>4, <1>5 DEF Next, vars

(* Type correctness of the file system over any paths, bytes and users. *)
THEOREM FuseTyped == Spec => []TypeOK
<1>1. Init => StatsTyped /\ MissedTyped
  BY DEF Init, StatsTyped, MissedTyped, Keys
<1>2. Typed /\ StatsTyped /\ [Next]_vars => StatsTyped'
  BY StatsStep
<1>3. Spec => [](StatsTyped /\ MissedTyped)
  BY <1>1, <1>2, MissedStep, TypesStay, PTL DEF Spec
<1>4. Typed /\ StatsTyped /\ MissedTyped /\ ListsTyped /\ Accounts(content) => TypeOK
  <2> SUFFICES ASSUME Typed, StatsTyped, MissedTyped, ListsTyped, Accounts(content)
               PROVE  TypeOK
    OBVIOUS
  <2>1. \A p \in Paths : files[p] \in {Dir, Absent} \/ files[p] \in Bytes
    BY DEF Typed, Nodes
  <2>2. content.current \in Nat
    BY OrderFinite, HeldFacts DEF Accounts
  <2>3. ASSUME NEW p \in Keys
        PROVE  /\ CachedStat(p) => stats[p].age \in Nat /\ stats[p].sure \in BOOLEAN
               /\ CachedListing(p) => lists[p].age \in Nat /\ lists[p].sure \in BOOLEAN
               /\ CachedContent(p) => content.entries[p] \in [data : Bytes, sure : BOOLEAN]
    <3>1. CachedStat(p) => stats[p].age \in Nat /\ stats[p].sure \in BOOLEAN
      BY DEF CachedStat, StatsTyped, StatEntries
    <3>2. CachedListing(p) => lists[p].age \in Nat /\ lists[p].sure \in BOOLEAN
      BY DEF CachedListing, ListsTyped, ListEntries
    <3>3. CachedContent(p) => content.entries[p] \in [data : Bytes, sure : BOOLEAN]
      BY DEF CachedContent, Typed, IsContent, ContentEntries
    <3> QED BY <3>1, <3>2, <3>3
  <2>4. \A h \in Handles : open[h] # Closed => open[h].path \in Paths /\ open[h].data \in Bytes
    BY OpenFacts
  <2> QED BY <2>1, <2>2, <2>3, <2>4 DEF TypeOK, MissedTyped
<1> QED BY <1>3, <1>4, TypesStay, ListsAlways, AccountsAlways, PTL
=============================================================================
