---------------------------- MODULE SyncPlanner ----------------------------
(***************************************************************************)
(* The decision a synchronisation pass takes for one path: what it         *)
(* remembers of the path (its path_sync_state row), what the local scan    *)
(* saw and what the remote scan saw go in; the transfer to run, the row to *)
(* store once it has succeeded and the event to announce come out.         *)
(*                                                                         *)
(* crates/sectiond/src/sync/coordinator.rs (plan_path) and the record      *)
(* constructors and materialize_record of crates/sectiond/src/sync.rs.     *)
(***************************************************************************)
CONSTANT None   \* Option::None of a version

Kinds == {"file", "dir"}
Maybe(V) == V \cup {None}

(***************************************************************************)
(* What a scan observes at a path, for a set V of versions: content hashes *)
(* and backend tokens.  A directory has no version.                        *)
(***************************************************************************)
Nothing == [kind |-> "nothing", version |-> None]
Dir == [kind |-> "dir", version |-> None]
File(v) == [kind |-> "file", version |-> v]

Observations(V) ==
  {o \in [kind : Kinds \cup {"nothing"}, version : Maybe(V)] :
     (o.kind = "file") <=> (o.version # None)}
Seen(o) == o # Nothing

(***************************************************************************)
(* The stored row.  NoRecord stands for the missing row: present, last and *)
(* base have the values plan_path takes for it with unwrap_or and and_then.*)
(***************************************************************************)
Records(V) ==
  [state : {"untracked", "ready", "conflict"}, kind : Kinds, present : BOOLEAN,
   last : Maybe(V), base : Maybe(V), current : Maybe(V)]

NoRecord == [state |-> "untracked", kind |-> "file", present |-> FALSE,
             last |-> None, base |-> None, current |-> None]

ReadyRecord(kind, local, remote) ==
  [state |-> "ready", kind |-> kind, present |-> TRUE,
   last |-> local, base |-> remote, current |-> remote]

ReadyAbsentRecord == [state |-> "ready", kind |-> "file", present |-> FALSE,
                      last |-> None, base |-> None, current |-> None]

ConflictRecord(prev, local, remote) ==
  [state |-> "conflict", kind |-> local.kind, present |-> TRUE,
   last |-> local.version, base |-> prev.base, current |-> remote.version]

AbsentConflictRecord(prev, kind, present, remoteVersion) ==
  [state |-> "conflict", kind |-> kind, present |-> present,
   last |-> prev.last, base |-> prev.base, current |-> remoteVersion]

-----------------------------------------------------------------------------
LocalChanged(prev, local) ==
  IF Seen(local) THEN local.version # prev.last \/ ~prev.present
                 ELSE prev.present

(* a variant that is wrong: the row's current version is not its base *)
RemoteChangedSinceCurrent(prev, remote) == remote.version # prev.current

RemoteChanged(prev, remote) == remote.version # prev.base

(***************************************************************************)
(* A plan: at most one transfer, the row it leaves and the public state it *)
(* announces ("none" for no event).  The "pushed" and "pulled" rows are    *)
(* completed from the transfer's outcome by Materialize.                   *)
(***************************************************************************)
Ops == {"none", "create_local_dir", "pull_file", "delete_local",
        "create_remote_dir", "push_file", "delete_remote"}
RowKinds == {"remove", "static", "pushed", "pulled"}
Announcements == {"none", "ready", "conflict"}

PlanOf(op, row, record, announce) ==
  [op |-> op, row |-> row, record |-> record, announce |-> announce]

Plans(V) == [op : Ops, row : RowKinds, record : Records(V), announce : Announcements]

NoPlan == PlanOf("none", "remove", NoRecord, "none")
Keep(record) == PlanOf("none", "static", record, "none")
(* wrong: the conflict is not announced *)
SilentConflict(record) == Keep(record)

Conflict(record) == PlanOf("none", "static", record, "conflict")
Delete(op) == PlanOf(op, "remove", NoRecord, "ready")

Pull(remote) ==
  IF remote.kind = "dir"
  THEN PlanOf("create_local_dir", "static", ReadyRecord("dir", None, None), "ready")
  ELSE PlanOf("pull_file", "pulled", NoRecord, "ready")

Push(local) ==
  IF local.kind = "dir"
  THEN PlanOf("create_remote_dir", "static", ReadyRecord("dir", None, None), "ready")
  ELSE PlanOf("push_file", "pushed", NoRecord, "ready")

(* wrong: the side looked at first wins *)
PushFirst(prev, local, remote) ==
  IF local.kind # remote.kind THEN Conflict(ConflictRecord(prev, local, remote))
  ELSE IF LocalChanged(prev, local) THEN Push(local)
  ELSE IF RemoteChanged(prev, remote) THEN Pull(remote)
  ELSE Keep(ReadyRecord(local.kind, local.version, remote.version))

PlanBothPresent(prev, local, remote) ==
  LET mine   == LocalChanged(prev, local)
      theirs == RemoteChanged(prev, remote)
  IN  IF local.kind # remote.kind \/ (mine /\ theirs)
        THEN Conflict(ConflictRecord(prev, local, remote))
      ELSE IF mine THEN Push(local)
      ELSE IF theirs THEN Pull(remote)
      ELSE Keep(ReadyRecord(local.kind, local.version, remote.version))

(* wrong: a deletion is propagated without looking for a change over there *)
DeleteRemoteUnchecked(prev, remote) ==
  IF ~prev.present THEN Pull(remote) ELSE Delete("delete_remote")
DeleteLocalUnchecked(prev, local) ==
  IF prev.base = None THEN Push(local) ELSE Delete("delete_local")

PlanRemoteOnly(prev, remote) ==
  IF ~prev.present THEN Pull(remote)
  ELSE IF RemoteChanged(prev, remote)
       THEN Conflict(AbsentConflictRecord(prev, remote.kind, FALSE, remote.version))
       ELSE Delete("delete_remote")

PlanLocalOnly(prev, local) ==
  IF prev.base = None THEN Push(local)
  ELSE IF LocalChanged(prev, local)
       THEN Conflict(AbsentConflictRecord(prev, local.kind, TRUE, None))
       ELSE Delete("delete_local")

Plan(prev, local, remote) ==
  IF Seen(local)
  THEN IF Seen(remote) THEN PlanBothPresent(prev, local, remote)
                       ELSE PlanLocalOnly(prev, local)
  ELSE IF Seen(remote) THEN PlanRemoteOnly(prev, remote)
                       ELSE NoPlan

(* wrong: a push recorded at the version it replaced, or without its token; *)
(* a pull recorded with the local version it replaced                      *)
PushAtOldBase(plan, local, remote, got) ==
  IF plan.row = "remove" THEN NoRecord
  ELSE IF plan.row = "static" THEN plan.record
  ELSE ReadyRecord("file", IF plan.row = "pulled" THEN got ELSE local.version, remote.version)
PushWithoutToken(plan, local, remote, got) ==
  IF plan.row = "remove" THEN NoRecord
  ELSE IF plan.row = "static" THEN plan.record
  ELSE IF plan.row = "pulled" THEN ReadyRecord("file", got, remote.version)
  ELSE ReadyRecord("file", local.version, local.version)
PullAtOldLocal(plan, local, remote, got) ==
  IF plan.row = "remove" THEN NoRecord
  ELSE IF plan.row = "static" THEN plan.record
  ELSE IF plan.row = "pulled" THEN ReadyRecord("file", local.version, remote.version)
  ELSE ReadyRecord("file", local.version, IF got = None THEN local.version ELSE got)

(***************************************************************************)
(* materialize_record: the row a plan leaves behind once it is carried     *)
(* out.  got is what the transfer returned: the hash of the pulled bytes,  *)
(* or the token of the pushed object, None where the backend gives none.   *)
(***************************************************************************)
Materialize(plan, local, remote, got) ==
  IF plan.row = "remove" THEN NoRecord
  ELSE IF plan.row = "static" THEN plan.record
  ELSE IF plan.row = "pulled" THEN ReadyRecord("file", got, remote.version)
  ELSE ReadyRecord("file", local.version, IF got = None THEN local.version ELSE got)
=============================================================================
