----------------------------- MODULE SyncEngine -----------------------------
(***************************************************************************)
(* One source bound to one local directory, as `section source sync` and   *)
(* `section path resolve` leave it: the two trees, the four tables the     *)
(* store keeps about them, the steps of a synchronisation pass and of a    *)
(* conflict resolution, and the people and devices that edit both trees.   *)
(*                                                                         *)
(* crates/sectiond/src/sync.rs and sync/{collector,coordinator,transport}. *)
(* The kind of a path is fixed here; PathSync covers a path whose kind     *)
(* changes.                                                                *)
(***************************************************************************)
EXTENDS Naturals, SyncPlanner

CONSTANTS
  Paths,      \* the paths of the source
  DirPaths,   \* those that are directories when present
  Above,      \* Above[p]: the proper ancestors of p
  Content,    \* contents a user may give a file
  Partial,    \* what an interrupted transfer leaves in a file
  Absent, Directory,   \* the other things a path may hold
  HasTokens,  \* the backend gives every write a version token or etag
  Quiet,      \* "pass", "resolve": the commands during which nobody edits
  Alone,      \* no second command runs during a command
  MaxEdits,   \* bound on the edits of a behaviour
  MaxFaults   \* bound on the failed transfers, failed commands and crashes

Bytes == Content \cup {Partial}
Holdings == Bytes \cup {Absent, Directory}
FilePaths == Paths \ DirPaths

ASSUME TreeAssumption ==
  /\ DirPaths \subseteq Paths
  /\ Above \in [Paths -> SUBSET DirPaths]
  /\ \A p \in Paths : p \notin Above[p]
  /\ \A p \in Paths : \A q \in Above[p] : Above[q] \subseteq Above[p]
ASSUME ValuesAssumption ==
  /\ Partial \notin Content
  /\ Absent \notin Bytes /\ Directory \notin Bytes /\ Absent # Directory
  /\ None \notin Bytes \cup Nat
  /\ \A b \in Bytes : b \notin Nat
ASSUME SettingsAssumption ==
  /\ HasTokens \in BOOLEAN /\ Alone \in BOOLEAN
  /\ Quiet \subseteq {"pass", "resolve"}
  /\ MaxEdits \in Nat /\ MaxFaults \in Nat

(***************************************************************************)
(* A local version is the hash of the bytes, so the bytes themselves; a    *)
(* remote version is the backend's token where it has one, else the hash.  *)
(***************************************************************************)
Version == Bytes \cup Nat
MaybeVersion == Maybe(Version)
Record == Records(Version)
Observation == Observations(Version)

VARIABLES
  local, remote,       \* the trees: path -> what it holds, and its stamp
  records,             \* table path_sync_state
  localCache, manifest,\* tables local_scan_cache and remote_manifest
  watch,               \* the public state of the last event of each path
  phase,               \* where the pass is; the next five are its variables
  seen, newCache, newManifest, work, got,
  rsv,                 \* the resolve command
  edits, faults,       \* the bounds' counters
  uploaded            \* history: <<version, bytes>> the remote path has held

trees == <<local, remote, uploaded>>
store == <<records, localCache, manifest>>
pass  == <<phase, seen, newCache, newManifest, work, got>>
vars  == <<trees, store, watch, pass, rsv, edits, faults>>

-----------------------------------------------------------------------------
(***************************************************************************)
(* Trees.  The stamp of a path stands for what tells two writes of it      *)
(* apart without reading it: size and modification time, or the token.     *)
(***************************************************************************)
IsFile(node) == node.data \in Bytes
Exists(node) == node.data # Absent
Tree(p) == {p} \cup {q \in Paths : p \in Above[q]}

Written(node, data) == [data |-> data, stamp |-> node.stamp + 1]
Gone(node) == [data |-> Absent, stamp |-> node.stamp]
AsDir(node) == IF Exists(node) THEN node ELSE Written(node, Directory)

MakeParents(tree, p) ==
  [q \in Paths |-> IF q \in Above[p] THEN AsDir(tree[q]) ELSE tree[q]]
MakeDir(tree, p) == [MakeParents(tree, p) EXCEPT ![p] = AsDir(@)]
Put(tree, p, data) == [MakeParents(tree, p) EXCEPT ![p] = Written(@, data)]
Drop(tree, gone) ==
  [q \in Paths |-> IF q \in gone THEN Gone(tree[q]) ELSE tree[q]]

RemoteVersion(node) == IF HasTokens THEN node.stamp ELSE node.data

SetRemote(tree) ==
  /\ remote' = tree
  /\ uploaded' = [p \in Paths |->
       IF IsFile(tree[p]) THEN uploaded[p] \cup {<<RemoteVersion(tree[p]), tree[p].data>>}
                          ELSE uploaded[p]]
SetLocal(tree) == local' = tree /\ UNCHANGED <<remote, uploaded>>

-----------------------------------------------------------------------------
(***************************************************************************)
(* Scans.  A cache line is what a scan saw and the stamp it saw it with;   *)
(* an unchanged stamp makes the next scan reuse the version of the line.   *)
(***************************************************************************)
NoLine == [kind |-> "nothing", version |-> None, stamp |-> 0]
Line(observed, stamp) ==
  [kind |-> observed.kind, version |-> observed.version,
   stamp |-> IF observed.kind = "file" THEN stamp ELSE 0]

Hit(line, node) == line.kind = "file" /\ line.stamp = node.stamp

(* wrong: whatever is there is read as a file *)
ObserveAsFile(node, version) == IF node.data = Absent THEN Nothing ELSE File(version)

Observe(node, version) ==
  IF node.data = Absent THEN Nothing
  ELSE IF node.data = Directory THEN Dir ELSE File(version)

ScanLocal(p) ==
  Observe(local[p], IF Hit(localCache[p], local[p]) THEN localCache[p].version
                                                    ELSE local[p].data)
ScanRemote(p) ==
  Observe(remote[p], IF ~HasTokens /\ Hit(manifest[p], remote[p])
                     THEN manifest[p].version ELSE RemoteVersion(remote[p]))

(* inspect_local_entry and inspect_remote_entry bypass both caches *)
InspectLocal(p) == Observe(local[p], local[p].data)
InspectRemote(p) == Observe(remote[p], RemoteVersion(remote[p]))

-----------------------------------------------------------------------------
NoInput == [prev |-> NoRecord, local |-> Nothing, remote |-> Nothing]
NoResolve == [step |-> "idle", path |-> None, how |-> "use_local",
              local |-> Nothing, remote |-> Nothing, row |-> NoRecord]
Fresh == [p \in Paths |-> [data |-> Absent, stamp |-> 0]]

Init ==
  /\ local = Fresh /\ remote = Fresh
  /\ records = [p \in Paths |-> NoRecord]
  /\ localCache = [p \in Paths |-> NoLine] /\ manifest = [p \in Paths |-> NoLine]
  /\ watch = [p \in Paths |-> "none"]
  /\ phase = "idle" /\ seen = [p \in Paths |-> NoInput]
  /\ newCache = [p \in Paths |-> NoLine] /\ newManifest = [p \in Paths |-> NoLine]
  /\ work = [p \in Paths |-> "done"] /\ got = [p \in Paths |-> None]
  /\ rsv = NoResolve
  /\ edits = 0 /\ faults = 0
  /\ uploaded = [p \in Paths |-> {}]

PlanFor(p) == Plan(seen[p].prev, seen[p].local, seen[p].remote)

EndPass ==
  /\ phase' = "idle" /\ seen' = [p \in Paths |-> NoInput]
  /\ newCache' = [p \in Paths |-> NoLine] /\ newManifest' = [p \in Paths |-> NoLine]
  /\ work' = [p \in Paths |-> "done"] /\ got' = [p \in Paths |-> None]

(* the budget every injected failure draws on *)
Fault == faults < MaxFaults /\ faults' = faults + 1
-----------------------------------------------------------------------------
(***************************************************************************)
(* A pass (sync_source_with_options).  First the stored rows and caches    *)
(* are read and the local root is walked ...                               *)
(***************************************************************************)
CommandMayStart == Alone => phase = "idle" /\ rsv.step = "idle"

StartPass ==
  /\ phase = "idle" /\ CommandMayStart
  /\ phase' = "listing"
  /\ seen' = [p \in Paths |-> [prev |-> records[p], local |-> ScanLocal(p),
                               remote |-> Nothing]]
  /\ newCache' = [p \in Paths |-> Line(ScanLocal(p), local[p].stamp)]
  /\ newManifest' = manifest
  /\ UNCHANGED <<trees, store, watch, work, got, rsv, edits, faults>>

(***************************************************************************)
(* ... then the remote is listed, each path is planned, and the paths with *)
(* a transfer are announced as syncing.                                    *)
(***************************************************************************)
PlanPass ==
  /\ phase = "listing"
  /\ phase' = "run"
  /\ seen' = [p \in Paths |-> [prev |-> seen[p].prev, local |-> seen[p].local,
                               remote |-> ScanRemote(p)]]
  /\ newManifest' = [p \in Paths |-> Line(ScanRemote(p), remote[p].stamp)]
  /\ LET busy == {p \in Paths : PlanFor(p)'.op # "none"}
     IN  /\ work' = [p \in Paths |-> IF p \in busy THEN "todo" ELSE "done"]
         /\ watch' = [p \in Paths |-> IF p \in busy THEN "syncing" ELSE watch[p]]
  /\ UNCHANGED <<trees, store, newCache, got, rsv, edits, faults>>

-----------------------------------------------------------------------------
(***************************************************************************)
(* Transfers (OpenDalTransport::execute), run by a pool of workers in any  *)
(* order.  The bytes are those found when the transfer runs, not those the *)
(* scan saw.                                                               *)
(***************************************************************************)
Ready(p, op) == phase = "run" /\ work[p] = "todo" /\ PlanFor(p).op = op

Finish(p, status, version) ==
  /\ work' = [work EXCEPT ![p] = status]
  /\ got' = [got EXCEPT ![p] = version]
  /\ UNCHANGED <<store, watch, phase, seen, newCache, newManifest, rsv, edits>>

CreateLocalDir(p) ==
  /\ Ready(p, "create_local_dir")
  /\ SetLocal(MakeDir(local, p))
  /\ Finish(p, "done", None)
  /\ UNCHANGED faults

CreateRemoteDir(p) ==
  /\ Ready(p, "create_remote_dir")
  /\ SetRemote(MakeDir(remote, p))
  /\ Finish(p, "done", None)
  /\ UNCHANGED <<local, faults>>

PullFile(p) ==
  /\ Ready(p, "pull_file") /\ IsFile(remote[p])
  /\ SetLocal(Put(local, p, remote[p].data))
  /\ Finish(p, "done", remote[p].data)
  /\ UNCHANGED faults

(* the writer's close may already report the token; if not, a stat follows *)
PushFile(p) ==
  /\ Ready(p, "push_file") /\ IsFile(local[p])
  /\ SetRemote(Put(remote, p, local[p].data))
  /\ \/ HasTokens /\ Finish(p, "done", remote'[p].stamp)
     \/ Finish(p, "stat", None)
  /\ UNCHANGED <<local, faults>>

StatPushed(p) ==
  /\ phase = "run" /\ work[p] = "stat" /\ Exists(remote[p])
  /\ Finish(p, "done", IF HasTokens THEN remote[p].stamp ELSE None)
  /\ UNCHANGED <<trees, faults>>

DeleteLocal(p) ==
  /\ Ready(p, "delete_local")
  /\ SetLocal(Drop(local, Tree(p)))
  /\ Finish(p, "done", None)
  /\ UNCHANGED faults

DeleteRemote(p) ==
  /\ Ready(p, "delete_remote")
  /\ SetRemote(Drop(remote, Tree(p)))
  /\ Finish(p, "done", None)
  /\ UNCHANGED <<local, faults>>

(***************************************************************************)
(* A transfer whose source is gone fails with NotFound.  A pull has made   *)
(* the parent directories by then and, where the backend's reader opens    *)
(* lazily, truncated the file.                                             *)
(***************************************************************************)
SourceMissing(p) ==
  /\ \/ /\ Ready(p, "pull_file") /\ ~IsFile(remote[p])
        /\ \/ SetLocal(MakeParents(local, p))
           \/ SetLocal(Put(local, p, Partial))
     \/ Ready(p, "push_file") /\ ~IsFile(local[p]) /\ UNCHANGED trees
     \/ /\ phase = "run" /\ work[p] = "stat" /\ ~Exists(remote[p])
        /\ UNCHANGED trees
  /\ Finish(p, "failed", None)
  /\ UNCHANGED faults

(***************************************************************************)
(* A transfer that fails may have had no effect, all of it, or part: a     *)
(* torn file (File::create truncates; a backend without tokens is taken to *)
(* write in place) or a removal that reached some of the tree.             *)
(***************************************************************************)
TransferFails(p) ==
  /\ \/ phase = "run" /\ work[p] \in {"todo", "stat"} /\ PlanFor(p).op # "none"
        /\ UNCHANGED trees
     \/ Ready(p, "pull_file") /\ SetLocal(Put(local, p, Partial))
     \/ /\ Ready(p, "push_file") /\ IsFile(local[p])
        /\ \E data \in {local[p].data} \cup (IF HasTokens THEN {} ELSE {Partial}) :
             SetRemote(Put(remote, p, data))
        /\ UNCHANGED local
     \/ /\ Ready(p, "delete_remote")
        /\ \E gone \in SUBSET Tree(p) : SetRemote(Drop(remote, gone))
        /\ UNCHANGED local
  /\ Finish(p, "failed", None)
  /\ Fault

-----------------------------------------------------------------------------
(***************************************************************************)
(* apply_executed_path_plans: one failed transfer and nothing of the pass  *)
(* is stored, only its error events ...                                    *)
(***************************************************************************)
Finished == phase = "run" /\ \A p \in Paths : work[p] \in {"done", "failed"}

FailPass ==
  /\ Finished /\ \E p \in Paths : work[p] = "failed"
  /\ watch' = [p \in Paths |-> IF work[p] = "failed" THEN "error" ELSE watch[p]]
 
  /\ EndPass
  /\ UNCHANGED <<trees, store, rsv, edits, faults>>

(***************************************************************************)
(* ... otherwise the caches are brought up to what was transferred         *)
(* (refresh_cached_snapshots, which stats the paths again), ...            *)
(***************************************************************************)
(* wrong: the scan's hash with the new stamp *)
RefreshedStampOnly(p) ==
  IF IsFile(local[p]) THEN Line(File(seen[p].local.version), local[p].stamp)
                      ELSE newCache[p]

RefreshedLine(p) ==
  LET op == PlanFor(p).op
  IN  IF op \notin {"pull_file", "create_local_dir", "delete_local"} THEN newCache[p]
      ELSE IF op = "delete_local" \/ ~Exists(local[p]) THEN NoLine
      ELSE IF op = "pull_file" THEN Line(File(got[p]), local[p].stamp)
      ELSE Line(Dir, 0)

(* a push whose path has vanished keeps a line no stamp will ever match *)
PushedLine(p) ==
  LET planned == IF got[p] = None THEN seen[p].local.version ELSE got[p]
      present == Exists(remote[p])
  IN  Line(File(IF HasTokens /\ present THEN remote[p].stamp ELSE planned),
           IF present THEN remote[p].stamp ELSE 0)

RefreshedManifestLine(p) ==
  LET op == PlanFor(p).op
  IN  IF op = "push_file" THEN PushedLine(p)
      ELSE IF op = "create_remote_dir" THEN Line(Dir, 0)
      ELSE IF op = "delete_remote" THEN NoLine
      ELSE newManifest[p]

RefreshCaches ==
  /\ Finished /\ \A p \in Paths : work[p] = "done"
  /\ phase' = "save"
  /\ newCache' = [p \in Paths |-> RefreshedLine(p)]
  /\ newManifest' = [p \in Paths |-> RefreshedManifestLine(p)]
  /\ UNCHANGED <<trees, store, watch, seen, work, got, rsv, edits, faults>>

(***************************************************************************)
(* ... each path's row is stored and its event appended, in transactions   *)
(* of their own, and last the two caches are replaced, one after the other.*)
(***************************************************************************)
RowAfter(p) == Materialize(PlanFor(p), seen[p].local, seen[p].remote, got[p])

Persist(p) ==
  /\ phase = "save" /\ work[p] = "done"
  /\ records' = [records EXCEPT ![p] = RowAfter(p)]
  /\ watch' = [watch EXCEPT ![p] = IF PlanFor(p).announce = "none"
                                   THEN @ ELSE PlanFor(p).announce]
  /\ work' = [work EXCEPT ![p] = "saved"]
  /\ UNCHANGED <<trees, localCache, manifest, phase, seen, newCache, newManifest,
                 got, rsv, edits, faults>>

SaveLocalCache ==
  /\ phase = "save" /\ \A p \in Paths : work[p] = "saved"
  /\ localCache' = newCache
  /\ phase' = "manifest"
  /\ UNCHANGED <<trees, records, manifest, watch, seen, newCache, newManifest,
                 work, got, rsv, edits, faults>>

SaveManifest ==
  /\ phase = "manifest"
  /\ manifest' = newManifest
  /\ EndPass
  /\ UNCHANGED <<trees, records, localCache, watch, rsv, edits, faults>>

(* a crash, or an error of a scan, a stat or the store: the pass just ends *)
AbortPass ==
  /\ phase # "idle"
  /\ EndPass
  /\ Fault
  /\ UNCHANGED <<trees, store, watch, rsv, edits>>
-----------------------------------------------------------------------------
(***************************************************************************)
(* `section path resolve` (resolve_path): both sides are inspected, the    *)
(* chosen one is copied over the other, and only then is the row stored.   *)
(* A directory has no version, so with fixed kinds its row is never in     *)
(* conflict: the directory branches of resolve_path are in PathSync.       *)
(***************************************************************************)
ResolveBegin(p, how) ==
  /\ rsv.step = "idle" /\ CommandMayStart
  /\ records[p].state = "conflict"
  /\ rsv' = [step |-> "apply", path |-> p, how |-> how, row |-> NoRecord,
             local |-> InspectLocal(p), remote |-> InspectRemote(p)]
  /\ UNCHANGED <<trees, store, watch, pass, edits, faults>>

Applied(row) ==
  /\ rsv' = [step |-> "save", path |-> rsv.path, how |-> rsv.how, row |-> row,
             local |-> rsv.local, remote |-> rsv.remote]
 
  /\ UNCHANGED <<store, watch, pass, edits, faults>>

Applying(how) == rsv.step = "apply" /\ rsv.how = how

ApplyUseLocal ==
  LET p == rsv.path IN
  /\ Applying("use_local")
  /\ \/ /\ rsv.local.kind = "file" /\ IsFile(local[p])
        /\ SetRemote(Put(remote, p, local[p].data))
        /\ Applied(ReadyRecord("file", rsv.local.version,
             IF HasTokens THEN remote'[p].stamp ELSE rsv.local.version))
     \/ /\ rsv.local = Nothing
        /\ SetRemote(IF Seen(rsv.remote) THEN Drop(remote, Tree(p)) ELSE remote)
        /\ Applied(ReadyAbsentRecord)
  /\ UNCHANGED local

ApplyUseRemote ==
  LET p == rsv.path IN
  /\ Applying("use_remote")
  /\ \/ /\ rsv.remote.kind = "file" /\ IsFile(remote[p])
        /\ SetLocal(Put(local, p, remote[p].data))
        /\ Applied(ReadyRecord("file", remote[p].data, rsv.remote.version))
     \/ /\ rsv.remote = Nothing
        /\ SetLocal(Drop(local, Tree(p)))
        /\ Applied(ReadyAbsentRecord)

ResolveSave ==
  /\ rsv.step = "save"
  /\ records' = [records EXCEPT ![rsv.path] = rsv.row]
  /\ watch' = [watch EXCEPT ![rsv.path] = "ready"]
  /\ rsv' = NoResolve
  /\ UNCHANGED <<trees, localCache, manifest, pass, edits, faults>>

(* the source has gone since it was inspected *)
ResolveMissing ==
  /\ \/ /\ Applying("use_local") /\ rsv.local.kind = "file"
        /\ ~IsFile(local[rsv.path])
     \/ /\ Applying("use_remote") /\ rsv.remote.kind = "file"
        /\ ~IsFile(remote[rsv.path])
  /\ rsv' = NoResolve
  /\ UNCHANGED <<trees, store, watch, pass, edits, faults>>

(* a crash or an error; the file being written may be torn *)
ResolveFails ==
  /\ rsv.step # "idle"
  /\ \/ UNCHANGED trees
     \/ /\ Applying("use_remote") /\ rsv.remote.kind = "file"
        /\ SetLocal(Put(local, rsv.path, Partial))
     \/ /\ Applying("use_local") /\ rsv.local.kind = "file" /\ ~HasTokens
        /\ SetRemote(Put(remote, rsv.path, Partial))
        /\ UNCHANGED local
  /\ rsv' = NoResolve
  /\ Fault
  /\ UNCHANGED <<store, watch, pass, edits>>

(* a crash between a row and its event, which are transactions of their own *)
CrashBeforeEvent ==
  /\ \/ /\ \E p \in Paths :
             /\ phase = "save" /\ work[p] = "done"
             /\ records' = [records EXCEPT ![p] = RowAfter(p)]
        /\ EndPass /\ UNCHANGED rsv
     \/ /\ rsv.step = "save"
        /\ records' = [records EXCEPT ![rsv.path] = rsv.row]
        /\ rsv' = NoResolve /\ UNCHANGED pass
  /\ Fault
  /\ UNCHANGED <<trees, localCache, manifest, watch, edits>>

-----------------------------------------------------------------------------
(***************************************************************************)
(* The people and devices that share the source.  A file comes with its    *)
(* parent directories and a directory goes with what is in it.             *)
(***************************************************************************)
Edit ==
  /\ "pass" \in Quiet => phase = "idle"
  /\ "resolve" \in Quiet => rsv.step = "idle"
  /\ edits < MaxEdits /\ edits' = edits + 1
 
  /\ UNCHANGED <<store, watch, pass, rsv, faults>>

EditLocal(p) ==
  /\ Edit
  /\ \/ /\ p \in FilePaths
        /\ \E c \in Content \ {local[p].data} : SetLocal(Put(local, p, c))
     \/ p \in DirPaths /\ ~Exists(local[p]) /\ SetLocal(MakeDir(local, p))
     \/ Exists(local[p]) /\ SetLocal(Drop(local, Tree(p)))

EditRemote(p) ==
  /\ Edit
  /\ \/ /\ p \in FilePaths
        /\ \E c \in Content \ {remote[p].data} : SetRemote(Put(remote, p, c))
     \/ p \in DirPaths /\ ~Exists(remote[p]) /\ SetRemote(MakeDir(remote, p))
     \/ Exists(remote[p]) /\ SetRemote(Drop(remote, Tree(p)))
  /\ UNCHANGED local

-----------------------------------------------------------------------------
Transfer(p) ==
  \/ CreateLocalDir(p) \/ CreateRemoteDir(p) \/ PullFile(p) \/ PushFile(p)
  \/ StatPushed(p) \/ DeleteLocal(p) \/ DeleteRemote(p) \/ SourceMissing(p)

PassStep ==
  \/ PlanPass \/ \E p \in Paths : Transfer(p) \/ Persist(p)
  \/ FailPass \/ RefreshCaches \/ SaveLocalCache \/ SaveManifest

ResolveStep == ApplyUseLocal \/ ApplyUseRemote \/ ResolveSave \/ ResolveMissing

Next ==
  \/ StartPass \/ PassStep \/ AbortPass
  \/ \E p \in Paths : TransferFails(p)
  \/ \E p \in Paths, how \in {"use_local", "use_remote"} : ResolveBegin(p, how)
  \/ ResolveStep \/ ResolveFails \/ CrashBeforeEvent
  \/ \E p \in Paths : EditLocal(p) \/ EditRemote(p)

Spec == Init /\ [][Next]_vars

(* a command that has started goes on; nothing says one is ever started *)
FairSpec == Spec /\ WF_vars(PassStep) /\ WF_vars(ResolveStep)

-----------------------------------------------------------------------------
Node == [data : Holdings, stamp : Nat]
Trees == {tree \in [Paths -> Node] : \A p \in Paths :
            IF p \in DirPaths THEN ~IsFile(tree[p]) ELSE tree[p].data # Directory}
CacheLine == {line \in [kind : Kinds \cup {"nothing"}, version : MaybeVersion, stamp : Nat] :
                line.kind = "file" <=> line.version # None}
Input == [prev : Record, local : Observation, remote : Observation]

KindFits(p, o) == Seen(o) => (o.kind = "dir" <=> p \in DirPaths)

TreesOK ==
  /\ local \in Trees /\ remote \in Trees
  /\ uploaded \in [Paths -> SUBSET (Version \X Bytes)]
StoreOK ==
  /\ records \in [Paths -> Record]
  /\ localCache \in [Paths -> CacheLine] /\ manifest \in [Paths -> CacheLine]
  /\ watch \in [Paths -> {"none", "syncing", "ready", "conflict", "error"}]
PassOK ==
  /\ phase \in {"idle", "listing", "run", "save", "manifest"}
  /\ seen \in [Paths -> Input]
  /\ \A p \in Paths : KindFits(p, seen[p].local) /\ KindFits(p, seen[p].remote)
  /\ newCache \in [Paths -> CacheLine] /\ newManifest \in [Paths -> CacheLine]
  /\ work \in [Paths -> {"todo", "stat", "done", "failed", "saved"}]
  /\ got \in [Paths -> MaybeVersion]
  /\ phase = "run" => \A p \in Paths :
       /\ work[p] = "stat" => PlanFor(p).op = "push_file"
       /\ work[p] = "done" /\ PlanFor(p).op = "pull_file" => got[p] \in Bytes
ResolveOK ==
  /\ rsv \in [step : {"idle", "apply", "save"}, path : Paths \cup {None},
              how : {"use_local", "use_remote"},
              local : Observation, remote : Observation, row : Record]
  /\ rsv.step # "idle" => /\ rsv.path \in Paths
                          /\ KindFits(rsv.path, rsv.local) /\ KindFits(rsv.path, rsv.remote)
CountersOK ==
  edits \in 0..MaxEdits /\ faults \in 0..MaxFaults

(* Every variable keeps its shape; a directory path never holds bytes and  *)
(* a file path is never a directory, in the trees and in what was seen.    *)
TypeOK == TreesOK /\ StoreOK /\ PassOK /\ ResolveOK /\ CountersOK

(* A stored cache line whose stamp still matches holds the version of what *)
(* is there now: a scan that trusts the line (observe_local_entry_with_cache, *)
(* cached_manifest_version) sees what a scan that reads the bytes would.   *)
CachesFaithful ==
  \A p \in Paths :
    /\ Hit(localCache[p], local[p]) /\ IsFile(local[p])
         => localCache[p].version = local[p].data
    /\ Hit(manifest[p], remote[p]) /\ IsFile(remote[p])
         => manifest[p].version = RemoteVersion(remote[p])

(* A row that says a file is ready names two versions of one content: the  *)
(* remote did hold, at the recorded base version, the bytes recorded as    *)
(* the local version (ready_record, materialize_record).                   *)
ReadyRecordsAgree ==
  \A p \in FilePaths :
    records[p].state = "ready" /\ records[p].present
      => <<records[p].base, records[p].last>> \in uploaded[p]

ByPass == phase = "run" /\ UNCHANGED <<rsv, edits>>

(* A pass takes local bytes away only when they are those the row recorded *)
(* as uploaded at the row's base version, or when the row was a conflict   *)
(* (PullFile and DeleteLocal of Transport::execute, long after the scan).  *)
LocalBytesSurvive ==
  [][ByPass => \A p \in Paths :
       local[p].data \in Content /\ local'[p].data # local[p].data
         => \/ <<seen[p].prev.base, local[p].data>> \in uploaded[p]
            \/ seen[p].prev.state = "conflict"]_vars

(* A pass takes remote bytes away only at the version the path's row has   *)
(* as base: the stale-overwrite protection of docs/SYNC_MODEL.md, at the   *)
(* moment of the write (PushFile and DeleteRemote of execute), but for the *)
(* content of a directory whose removal the pass is carrying out.          *)
AtBase(p) == RemoteVersion(remote[p]) = seen[p].prev.base

RemoteBytesSurvive ==
  [][ByPass => \A p \in Paths :
       IsFile(remote[p]) /\ remote'[p].data # remote[p].data
         => AtBase(p) \/ \E dir \in Above[p] : Ready(dir, "delete_remote")]_vars

(* A row's base is a version the remote path has held: were it not, the    *)
(* path would look remotely changed for ever (ready_record's remote        *)
(* version, from the scan, the writer's close or a later stat).            *)
BaseWasHeld ==
  \A p \in FilePaths : records[p].base # None
    => \E bytes \in Bytes : <<records[p].base, bytes>> \in uploaded[p]

(* A source of one path: between commands, and as long as none has been    *)
(* made to fail, the path is not left announced as syncing, and a conflict *)
(* is announced (the events of sync_source_with_options, of the path's     *)
(* plan and of resolve_path, in the order watch delivers them).            *)
WatchHonest ==
  phase = "idle" /\ rsv.step = "idle" /\ faults = 0 => \A p \in Paths :
    /\ watch[p] # "syncing"
    /\ records[p].state = "conflict" => watch[p] = "conflict"

(* While passes keep being run, the two trees come to agree, but for the   *)
(* paths in conflict, and stay so.                                         *)
InSync(p) == local[p].data = remote[p].data
Settles ==
  []<>(phase # "idle") =>
    <>[](\A p \in Paths : InSync(p) \/ records[p].state = "conflict")
=============================================================================
