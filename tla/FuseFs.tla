-------------------------------- MODULE FuseFs --------------------------------
(***************************************************************************)
(* The FUSE file system over one source: requests of the kernel, open      *)
(* files with their write buffers, the inode table, the caches, and the    *)
(* backing source that other clients change too.                           *)
(*                                                                         *)
(* crates/section-fuse/src/fs.rs and inode.rs; sectiond/src/permission.rs, *)
(* section-core/src/permission.rs and router.rs.  SectionFs serves one     *)
(* request at a time, so a request is one action; the calls it makes may   *)
(* fail.  A refused request changes nothing and is no action.              *)
(***************************************************************************)
EXTENDS Caches

CONSTANTS
  Paths,     \* the names below the source that occur, without the source
  Chunks,    \* positions in a file; bytes are the positions written
  Dir, Absent, Closed,
  Handles,   \* file handles open at a time
  Users, Root, Owner, GroupOf,   \* who asks; who runs the file system
  Owners,        \* to whom root gives files
  Modes, FileMode, DirMode,      \* which class may read and write
  MetadataTTL,   \* life of a metadata entry; 0: no metadata cache
  CachesContent, \* whether there is a content cache
  CreatesFresh,  \* whether a name lookup did not find is still free when it is
                 \* created: nobody makes it in between
  MaxTroubles    \* bound on changes of other clients and failed calls together

Source == <<>>
Keys == Paths \cup {Source}
Bytes == SUBSET Chunks
Nodes == Bytes \cup {Dir, Absent}
Classes == {"owner", "group", "other"}
OpenFiles ==
  [path : Paths, data : Bytes, dirty : BOOLEAN, writes : BOOLEAN, raced : BOOLEAN]

ASSUME PathsAssumption ==
  Source \notin Paths /\ \A p \in Paths : Front(p) \in Keys
ASSUME UsersAssumption ==
  /\ Owner \in Owners /\ Owners \subseteq Users
  /\ FileMode \in Modes /\ DirMode \in Modes
  /\ Modes \subseteq [read : SUBSET Classes, write : SUBSET Classes]
ASSUME SettingsAssumption ==
  /\ IsFiniteSet(Chunks) /\ {CachesContent, CreatesFresh} \subseteq BOOLEAN
  /\ {MaxBytes, MetadataTTL, MaxTroubles} \subseteq Nat
ASSUME ValuesAssumption ==
  /\ Dir # Absent /\ \A b \in Bytes : b \notin {Dir, Absent}
  /\ Closed \notin OpenFiles /\ None \notin [data : Bytes, sure : BOOLEAN]
  /\ \A p \in Paths : p \in Seq(ToSet(p))

VARIABLES
  files,   \* the backing source
  stats, lists,   \* MetadataCache
  content,        \* ContentCache
  inodes,  \* inodes with their attributes
  missed,  \* external: the name of which the last lookup said no
  open,    \* open_files
  troubles \* the bound's counter

vars == <<files, stats, lists, content, inodes, missed, open, troubles>>
caches == <<stats, lists, content>>

Init ==
  /\ files = [p \in Paths |-> Absent]
  /\ stats = [p \in Keys |-> None] /\ lists = [p \in Keys |-> None]
  /\ content = EmptyContent(Keys)
  /\ inodes = [p \in Paths |-> None]
  /\ missed = None
  /\ open = [h \in Handles |-> Closed]
  /\ troubles = 0

-----------------------------------------------------------------------------
(***************************************************************************)
(* The backing source, as OpenDAL's operator shows it: writing makes the   *)
(* directories above, deleting what is not there succeeds, a directory is  *)
(* deleted when it is empty, only files are copied.                        *)
(***************************************************************************)
IsDir(p) == p \in {Source} \cup {q \in Paths : files[q] = Dir}
IsFile(p) == p \in {q \in Paths : files[q] \notin {Dir, Absent}}
Above(p) == {q \in Paths : IsStrictPrefix(q, p)}
Below(d) == {p \in Paths : Front(p) = d}
Reachable(p) == \A q \in Above(p) : files[q] \in {Dir, Absent}
CanPut(p) == files[p] # Dir /\ Reachable(p)
CanDelete(p) == \A q \in Below(p) : files[q] = Absent

With(fs, p, node) ==
  [q \in Paths |-> IF q = p THEN node ELSE IF q \in Above(p) THEN Dir ELSE fs[q]]
Removed(fs, p) == [fs EXCEPT ![p] = Absent]

(* what a stat tells: a directory, or a file and its size *)
Meta(node) == IF node = Dir THEN Dir ELSE Size(node)
Listing(d) == {<<p, Meta(files[p])>> : p \in {q \in Below(d) : files[q] # Absent}}

(***************************************************************************)
(* History.  A cache entry is `sure` while nobody but this mount has       *)
(* changed what it speaks of, and no call that failed may have.  A handle  *)
(* is `raced` when its path was changed, since it read it or flushed to    *)
(* it, by anything but its own flush, or when what it read was not sure.   *)
(***************************************************************************)
Changed == {p \in Paths : files'[p] # files[p]}
Doubted(cache, keys) ==
  [k \in DOMAIN cache |->
     IF k \in keys /\ cache[k] # None THEN [cache[k] EXCEPT !.sure = FALSE]
     ELSE cache[k]]
DoubtCaches ==
  /\ stats' = Doubted(stats, Changed)
  /\ lists' = Doubted(lists, Changed \cup {Front(p) : p \in Changed})
  /\ content' = [content EXCEPT !.entries = Doubted(@, Changed)]
Raced(handles) ==
  [h \in Handles |->
     IF handles[h] # Closed /\ handles[h].path \in Changed
     THEN [handles[h] EXCEPT !.raced = TRUE] ELSE handles[h]]

-----------------------------------------------------------------------------
(***************************************************************************)
(* The caches through SectiondDataPlane.  Putting replaces an entry and    *)
(* its time; InvalidateMetadata and InvalidateAll take a path alone or     *)
(* with everything below it.                                               *)
(***************************************************************************)
CachedStat(p) == stats[p] # None
PutStat(p, meta, sure) ==
  stats' = IF MetadataTTL = 0 THEN stats
           ELSE Put(stats, p, [meta |-> meta, age |-> 0, sure |-> sure])
CachedListing(d) == lists[d] # None
PutListing(d) ==
  lists' = IF MetadataTTL = 0 THEN lists
           ELSE Put(lists, d, [seen |-> Listing(d), age |-> 0, sure |-> TRUE])
CachedContent(p) == content.entries[p] # None
PutCachedContent(cache, p, data) ==
  IF CachesContent THEN PutContent(cache, p, [data |-> data, sure |-> TRUE])
  ELSE cache

InvalidateMetadata(p, recursive) ==
  /\ stats' = Drop(stats, InvalidatedStats(p, recursive, Keys))
  /\ lists' = Drop(lists, InvalidatedLists(p, recursive, Keys))
RemoveContent(cache, p, recursive) ==
  IF recursive THEN RemovePrefix(cache, p) ELSE RemovePath(cache, p)
InvalidateAll(p, recursive) ==
  /\ InvalidateMetadata(p, recursive)
  /\ content' = RemoveContent(content, p, recursive)

-----------------------------------------------------------------------------
(***************************************************************************)
(* Inodes and permissions.                                                 *)
(***************************************************************************)
ModeOf(kind) == IF kind = Dir THEN DirMode ELSE FileMode
KindOf(meta) == IF meta = Dir THEN Dir ELSE "file"
NewInode(kind) ==
  [kind |-> kind, mode |-> ModeOf(kind), uid |-> Owner, gid |-> GroupOf[Owner]]
Known(p) == p \in {Source} \cup {q \in Paths : inodes[q] # None}

(* ensure: a known inode keeps its owner and group and nothing else *)
Ensured(table, p, kind) ==
  [table EXCEPT ![p] =
     IF @ = None THEN NewInode(kind)
     ELSE [@ EXCEPT !.kind = kind, !.mode = ModeOf(kind)]]
EnsuredAll(table, d, seen) ==
  [p \in Paths |->
     IF \E e \in seen : e[1] = p
     THEN Ensured(table, p, KindOf((CHOOSE e \in seen : e[1] = p)[2]))[p]
     ELSE table[p]]
(* remove, and invalidate_children *)
Forget(table, S) == [p \in Paths |-> IF p \in S THEN None ELSE table[p]]

Class(user, inode) ==
  IF user = inode.uid THEN "owner"
  ELSE IF GroupOf[user] = inode.gid THEN "group" ELSE "other"
CanRead(user, inode) == user = Root \/ Class(user, inode) \in inode.mode.read
CanWrite(user, inode) == user = Root \/ Class(user, inode) \in inode.mode.write
InodeOf(d) == IF d = Source THEN NewInode(Dir) ELSE inodes[d]
(* ensure_parent_writable *)
MayChange(user, d) == Known(d) /\ CanWrite(user, InodeOf(d))

(* external: the kernel looks a name up before it uses or creates it, with *)
(* its directory locked until a create or a rename is done                 *)
Found(p) == missed' = IF missed = p THEN None ELSE missed
Named(p) == inodes[p] # None /\ missed # p

-----------------------------------------------------------------------------
(***************************************************************************)
(* Looking.                                                                *)
(***************************************************************************)
(* lookup: the entry found in the cache is put there again *)
Lookup(p) ==
  /\ Known(Front(p))
  /\ \/ /\ CachedStat(p)
        /\ PutStat(p, stats[p].meta, stats[p].sure)
        /\ inodes' = Ensured(inodes, p, KindOf(stats[p].meta))
        /\ Found(p)
     \/ /\ ~CachedStat(p) /\ files[p] # Absent
        /\ PutStat(p, Meta(files[p]), TRUE)
        /\ inodes' = Ensured(inodes, p, KindOf(Meta(files[p])))
        /\ Found(p)
     \/ /\ ~CachedStat(p) /\ files[p] = Absent
        /\ missed' = p
        /\ UNCHANGED <<stats, inodes>>
  /\ UNCHANGED <<files, lists, content, open, troubles>>

GetAttr(p) ==
  /\ Named(p)
  /\ \/ /\ CachedStat(p)
        /\ inodes' = [inodes EXCEPT ![p].kind = KindOf(stats[p].meta)]
        /\ UNCHANGED stats
     \/ /\ ~CachedStat(p) /\ files[p] # Absent
        /\ PutStat(p, Meta(files[p]), TRUE)
        /\ inodes' = [inodes EXCEPT ![p].kind = KindOf(Meta(files[p]))]
  /\ UNCHANGED <<files, lists, content, missed, open, troubles>>

ReadDir(d) ==
  /\ Known(d)
  /\ \/ /\ CachedListing(d)
        /\ inodes' = EnsuredAll(inodes, d, lists[d].seen)
        /\ UNCHANGED lists
     \/ /\ ~CachedListing(d)
        /\ ~IsFile(d)
        /\ PutListing(d)
        /\ inodes' = EnsuredAll(inodes, d, Listing(d))
  /\ UNCHANGED <<files, stats, content, missed, open, troubles>>

(* ensure_setattr_allowed, when the mode is set too *)
MaySetAttr(user, inode, uid, gid) ==
  user = Root \/ (user = inode.uid /\ uid = inode.uid /\ gid = inode.gid)

(* setattr.  A new size changes nothing but the size in the reply, which   *)
(* the next getattr or lookup replaces: neither the file nor a buffer.     *)
SetAttr(p, user, mode, uid, gid) ==
  /\ Named(p) /\ MaySetAttr(user, inodes[p], uid, gid)
  /\ inodes' = [inodes EXCEPT ![p].mode = mode, ![p].uid = uid, ![p].gid = gid]
  /\ UNCHANGED <<files, caches, missed, open, troubles>>

(* getxattr of section.refresh; the root of the mount clears everything *)
Refresh(p) ==
  /\ Named(p)
  /\ InvalidateAll(p, inodes[p].kind = Dir)
  /\ UNCHANGED <<files, inodes, missed, open, troubles>>
ClearAllCaches ==
  /\ stats' = Drop(stats, Keys) /\ lists' = Drop(lists, Keys)
  /\ content' = EmptyContent(Keys)
  /\ UNCHANGED <<files, inodes, missed, open, troubles>>

-----------------------------------------------------------------------------
(***************************************************************************)
(* Open files.                                                             *)
(***************************************************************************)
OpenFile(p, data, writes, raced) ==
  [path |-> p, data |-> data, dirty |-> FALSE, writes |-> writes, raced |-> raced]

MayOpen(user, p, writes) ==
  IF writes THEN CanRead(user, inodes[p]) /\ CanWrite(user, inodes[p])
  ELSE CanRead(user, inodes[p])

(* open, for reading or for reading and writing *)
Open(h, p, user, writes) ==
  /\ open[h] = Closed
  /\ Named(p) /\ inodes[p].kind # Dir /\ MayOpen(user, p, writes)
  /\ \/ /\ CachedContent(p)
        /\ open' = [open EXCEPT ![h] = OpenFile(p, content.entries[p].data, writes,
                                                ~content.entries[p].sure)]
        /\ content' = Promote(content, p)
     \/ /\ ~CachedContent(p) /\ IsFile(p)
        /\ open' = [open EXCEPT ![h] = OpenFile(p, files[p], writes, FALSE)]
        /\ content' = PutCachedContent(content, p, files[p])
     \/ /\ ~CachedContent(p) /\ files[p] = Absent /\ writes
        /\ open' = [open EXCEPT ![h] = OpenFile(p, {}, writes, FALSE)]
        /\ UNCHANGED content
  /\ UNCHANGED <<files, stats, lists, inodes, missed, troubles>>

Write(h, chunk) ==
  /\ open[h] # Closed /\ open[h].writes
  /\ open' = [open EXCEPT ![h].data = @ \cup {chunk}, ![h].dirty = TRUE]
  /\ UNCHANGED <<files, caches, inodes, missed, troubles>>

Dirty(h) == open[h] # Closed /\ open[h].dirty
(* wrong: the content cache is not told *)
FlushPast(h) ==
  LET p == open[h].path IN
  /\ CanPut(p)
  /\ files' = With(files, p, open[h].data)
  /\ InvalidateMetadata(p, FALSE)
  /\ UNCHANGED content
(* flush_fh of a dirty handle, up to what becomes of the handle *)
FlushOver(h) ==
  LET p == open[h].path IN
  /\ CanPut(p)
  /\ files' = With(files, p, open[h].data)
  /\ InvalidateMetadata(p, FALSE)
  /\ content' = PutCachedContent(content, p, open[h].data)

Flush(h) ==
  /\ Dirty(h) /\ FlushOver(h)
  /\ open' = [Raced(open) EXCEPT ![h] = [open[h] EXCEPT !.dirty = FALSE, !.raced = FALSE]]
  /\ UNCHANGED <<inodes, missed, troubles>>

Release(h) ==
  /\ open[h] # Closed
  /\ \/ Dirty(h) /\ FlushOver(h)
     \/ ~Dirty(h) /\ UNCHANGED <<files, caches>>
  /\ open' = [Raced(open) EXCEPT ![h] = Closed]
  /\ UNCHANGED <<inodes, missed, troubles>>

-----------------------------------------------------------------------------
(***************************************************************************)
(* Changing the tree.                                                      *)
(***************************************************************************)
Free(p) == CreatesFresh => files[p] = Absent

(* create, which the kernel sends for a name that lookup did not find *)
Create(h, p, user) ==
  /\ open[h] = Closed /\ missed = p /\ MayChange(user, Front(p)) /\ CanPut(p)
  /\ Free(p)
  /\ files' = With(files, p, {})
  /\ inodes' = Ensured(inodes, p, "file")
  /\ InvalidateMetadata(Front(p), FALSE)
  /\ open' = [Raced(open) EXCEPT ![h] = OpenFile(p, {}, TRUE, FALSE)]
  /\ missed' = None
  /\ UNCHANGED <<content, troubles>>

Mkdir(p, user) ==
  /\ missed = p /\ MayChange(user, Front(p))
  /\ Reachable(p) /\ ~IsFile(p)
  /\ files' = With(files, p, Dir)
  /\ inodes' = Ensured(inodes, p, Dir)
  /\ InvalidateMetadata(Front(p), FALSE)
  /\ open' = Raced(open)
  /\ missed' = None
  /\ UNCHANGED <<content, troubles>>

Unlink(p, user) ==
  /\ Named(p) /\ MayChange(user, Front(p)) /\ CanDelete(p)
  /\ inodes[p].kind # Dir
  /\ files' = Removed(files, p)
  /\ InvalidateAll(p, FALSE)
  /\ inodes' = Forget(inodes, {p})
  /\ open' = Raced(open)
  /\ UNCHANGED <<missed, troubles>>

Rmdir(p, user) ==
  /\ Named(p) /\ MayChange(user, Front(p)) /\ CanDelete(p)
  /\ inodes[p].kind = Dir
  /\ files' = Removed(files, p)
  /\ InvalidateAll(p, TRUE)
  /\ inodes' = Forget(inodes, {p} \cup Below(p))
  /\ open' = Raced(open)
  /\ UNCHANGED <<missed, troubles>>

(* wrong: the entries of the name that is replaced stay *)
InvalidateOld(p, q, recursive) ==
  /\ stats' = Drop(stats, InvalidatedStats(p, recursive, Keys))
  /\ lists' = Drop(lists, InvalidatedLists(p, recursive, Keys)
                          \cup InvalidatedLists(q, recursive, Keys))
  /\ content' = RemoveContent(content, p, recursive)
(* invalidate_all_path of one path and then of the other *)
InvalidateBoth(p, q, recursive) ==
  /\ stats' = Drop(stats, InvalidatedStats(p, recursive, Keys)
                          \cup InvalidatedStats(q, recursive, Keys))
  /\ lists' = Drop(lists, InvalidatedLists(p, recursive, Keys)
                          \cup InvalidatedLists(q, recursive, Keys))
  /\ content' = RemoveContent(RemoveContent(content, p, recursive), q, recursive)

MayRename(p, q, user) ==
  /\ p # q /\ Named(p)
  /\ MayChange(user, Front(p)) /\ MayChange(user, Front(q))
  /\ IsFile(p) /\ CanPut(q)

(* rename: copy, then delete *)
Rename(p, q, user) ==
  LET recursive == inodes[p].kind = Dir IN
  /\ MayRename(p, q, user)
  /\ files' = Removed(With(files, q, files[p]), p)
  /\ InvalidateBoth(p, q, recursive)
  /\ inodes' = Forget(inodes, {p} \cup (IF recursive THEN Below(p) ELSE {}))
  /\ open' = Raced(open)
  /\ Found(q)
  /\ UNCHANGED <<troubles>>

-----------------------------------------------------------------------------
(***************************************************************************)
(* What is not this mount's doing.  A call that fails may have had its     *)
(* effect; the request then ends with the error and nothing else is done.  *)
(* A release loses the handle all the same.                                *)
(***************************************************************************)
Trouble == troubles < MaxTroubles /\ troubles' = troubles + 1

(* the calls of a request reach the source in part, as `after` says *)
FailsAfter(after, handles) ==
  /\ files' = after
  /\ DoubtCaches
  /\ open' = Raced(handles)
  /\ UNCHANGED <<inodes, missed>>

FlushFails(h) ==
  /\ Dirty(h) /\ CanPut(open[h].path)
  /\ Trouble
  /\ files' = With(files, open[h].path, open[h].data)
  /\ DoubtCaches
  /\ open' = [Raced(open) EXCEPT ![h] = open[h]]
  /\ UNCHANGED <<inodes, missed>>
ReleaseFails(h) ==
  /\ Trouble /\ Dirty(h)
  /\ FailsAfter(files, [open EXCEPT ![h] = Closed])
(* create and mkdir, unlink and rmdir *)
MakeFails(p, user) ==
  /\ Trouble
  /\ missed = p /\ MayChange(user, Front(p)) /\ CanPut(p) /\ Free(p)
  /\ \E node \in {{}, Dir} : FailsAfter(With(files, p, node), open)
DeleteFails(p, user) ==
  /\ Trouble
  /\ Named(p) /\ MayChange(user, Front(p)) /\ CanDelete(p)
  /\ FailsAfter(Removed(files, p), open)
RenameFails(p, q, user) ==
  /\ Trouble /\ MayRename(p, q, user)
  /\ \/ FailsAfter(With(files, q, files[p]), open)
     \/ FailsAfter(Removed(With(files, q, files[p]), p), open)

(* another client of the source *)
Foreign(p, node) ==
  /\ Trouble
  /\ node # files[p] /\ IsDir(Front(p))
  /\ files[p] = Dir => CanDelete(p)
  /\ files' = [files EXCEPT ![p] = node]
  /\ DoubtCaches
  /\ open' = Raced(open)
  /\ UNCHANGED <<inodes, missed>>

Tick ==
  /\ stats' = Aged(stats, MetadataTTL) /\ lists' = Aged(lists, MetadataTTL)
  /\ UNCHANGED <<files, content, inodes, missed, open, troubles>>

Look ==
  \/ \E p \in Paths : Lookup(p) \/ GetAttr(p) \/ Refresh(p)
  \/ \E d \in Keys : ReadDir(d)
  \/ ClearAllCaches
  \/ \E p \in Paths, user \in Users, mode \in Modes, uid \in Owners :
       SetAttr(p, user, mode, uid, GroupOf[uid])
Use ==
  \/ \E h \in Handles, p \in Paths, user \in Users, writes \in BOOLEAN :
       Open(h, p, user, writes)
  \/ \E h \in Handles, chunk \in Chunks : Write(h, chunk)
  \/ \E h \in Handles : Flush(h) \/ Release(h)
Change ==
  \E p \in Paths, user \in Users :
    \/ \E h \in Handles : Create(h, p, user)
    \/ Mkdir(p, user) \/ Unlink(p, user) \/ Rmdir(p, user)
    \/ \E q \in Paths : Rename(p, q, user)
Failure ==
  \/ \E h \in Handles : FlushFails(h) \/ ReleaseFails(h)
  \/ \E p \in Paths, user \in Users :
       \/ MakeFails(p, user) \/ DeleteFails(p, user)
       \/ \E q \in Paths : RenameFails(p, q, user)

Next ==
  \/ Look \/ Use \/ Change \/ Failure \/ Tick
  \/ \E p \in Paths, node \in Nodes : Foreign(p, node)

Spec == Init /\ [][Next]_vars

-----------------------------------------------------------------------------
(* The cached sizes are numbers, buffers hold bytes, entries have ages. *)
TypeOK ==
  /\ \A p \in Paths : files[p] \in {Dir, Absent} \/ files[p] \in Bytes
  /\ missed \in Paths \cup {None}
  /\ content.current \in Nat
  /\ \A p \in Keys :
       /\ CachedStat(p) => stats[p].age \in Nat /\ stats[p].sure \in BOOLEAN
       /\ CachedListing(p) => lists[p].age \in Nat /\ lists[p].sure \in BOOLEAN
       /\ CachedContent(p) => content.entries[p] \in [data : Bytes, sure : BOOLEAN]
  /\ \A h \in Handles : open[h] # Closed =>
       open[h].path \in Paths /\ open[h].data \in Bytes

(***************************************************************************)
(* Read your writes: as long as no other client changed a file and no call *)
(* on it failed, the cached content, which every open takes for the file,  *)
(* is what the source holds: whatever was flushed by any handle, created,  *)
(* removed or renamed over in the meantime (fs.rs:203, 897, 1008).         *)
(***************************************************************************)
CachedContentCurrent ==
  \A p \in Paths : CachedContent(p) /\ content.entries[p].sure =>
    files[p] = content.entries[p].data

(* The same of cached stats, which getattr and lookup answer from: what is *)
(* cached as present is present, with that kind and size (fs.rs:259, 414). *)
StatsCurrent ==
  \A p \in Paths : CachedStat(p) /\ stats[p].sure =>
    files[p] # Absent /\ stats[p].meta = Meta(files[p])

(***************************************************************************)
(* The same of cached listings, except that of the source itself: a path   *)
(* without a slash has no parent_dir, so that its listing stays when a     *)
(* name in it is removed, renamed or written (cache.rs:104).  A listing    *)
(* shows only what is there, with its kind and size, and misses nothing    *)
(* but directories which a flush of a path below them has made again: that *)
(* invalidates the listing of its own directory and none further up        *)
(* (fs.rs:203).                                                            *)
(***************************************************************************)
ListingsCurrent ==
  \A d \in Paths : CachedListing(d) /\ lists[d].sure =>
    /\ lists[d].seen \subseteq Listing(d)
    /\ \A e \in Listing(d) \ lists[d].seen :
         e[2] = Dir /\ \E p \in Paths : e[1] \in Above(p)

(* The accounting of the content cache: its order is that of the cached    *)
(* paths, each once, and its count the sum of their sizes, so that it      *)
(* neither underflows nor passes max_bytes (cache.rs:174).                 *)
CacheAccounted ==
  LET cached == {p \in Keys : CachedContent(p)} IN
  /\ content.current = BytesOf(content, cached) /\ content.current <= MaxBytes
  /\ ToSet(content.order) = cached /\ IsInjective(content.order)

(* A flush writes back a whole buffer.  If nothing else changed the file   *)
(* since the handle read it or flushed to it, it keeps every byte the file *)
(* had: no handle starts from less than the file holds (fs.rs:203, 569).   *)
UnracedFlushKeeps ==
  [][\A h \in Handles :
       Dirty(h) /\ ~open[h].raced /\ ~Dirty(h)' /\ troubles' = troubles
       /\ IsFile(open[h].path)
         => files[open[h].path] \subseteq files'[open[h].path]]_vars
=============================================================================
