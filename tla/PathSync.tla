------------------------------ MODULE PathSync ------------------------------
(***************************************************************************)
(* One path of a source whose backend has no version tokens, with whole    *)
(* passes and whole resolutions as single steps: what SyncPlanner decides  *)
(* over a history of edits, kind changes, passes that stop before they     *)
(* have stored their row, and resolutions.  SyncEngine has the steps of a  *)
(* pass, the caches and several paths.                                     *)
(***************************************************************************)
EXTENDS SyncPlanner

CONSTANT Version   \* the content hashes, which are the versions of both sides

ASSUME NoneAssumption == None \notin Version

Observation == Observations(Version)

VARIABLES
  record,         \* the path's row, NoRecord when there is none
  local, remote,  \* what the two sides hold, as a scan observes it
  common          \* history: what both sides have held at the same time

vars == <<record, local, remote, common>>

Init ==
  /\ record = NoRecord
  /\ local = Nothing /\ remote = Nothing
  /\ common = {Nothing}

(* Both sides are written through here, so that common follows them. *)
Sides(l, r) ==
  /\ local' = l /\ remote' = r
  /\ common' = IF l = r THEN common \cup {l} ELSE common

-----------------------------------------------------------------------------
ThePlan == Plan(record, local, remote)

LocalAfter(op) ==
  IF op \in {"pull_file", "create_local_dir"} THEN remote
  ELSE IF op = "delete_local" THEN Nothing ELSE local

RemoteAfter(op) ==
  IF op \in {"push_file", "create_remote_dir"} THEN local
  ELSE IF op = "delete_remote" THEN Nothing ELSE remote

Pulled(op) == IF op = "pull_file" THEN remote.version ELSE None

Transfer == Sides(LocalAfter(ThePlan.op), RemoteAfter(ThePlan.op))

Pass ==
  /\ Transfer
  /\ record' = Materialize(ThePlan, local, remote, Pulled(ThePlan.op))

(* the transfer has been made when the process dies or another path fails *)
PassWithoutRow == Transfer /\ UNCHANGED record

(* A side of another kind is in the way of the copy, which then fails. *)
Copyable == Seen(local) /\ Seen(remote) => local.kind = remote.kind

(* wrong: the row of a side that is not there *)
RowOfAnySide(side) == ReadyRecord(side.kind, side.version, side.version)

ResolvedRow(side) ==
  IF Seen(side) THEN ReadyRecord(side.kind, side.version, side.version)
                ELSE ReadyAbsentRecord

Resolve(side) ==
  /\ record.state = "conflict"
  /\ Copyable
  /\ Sides(side, side)
  /\ record' = ResolvedRow(side)

Edit ==
  /\ \/ \E o \in Observation \ {local} : Sides(o, remote)
     \/ \E o \in Observation \ {remote} : Sides(local, o)
  /\ UNCHANGED record

Next == Pass \/ PassWithoutRow \/ Resolve(local) \/ Resolve(remote) \/ Edit

Spec == Init /\ [][Next]_vars

-----------------------------------------------------------------------------
TypeOK ==
  /\ record \in Records(Version)
  /\ local \in Observation /\ remote \in Observation
  /\ common \subseteq Observation

Passing == Pass \/ PassWithoutRow

(* Stale-overwrite protection: whatever edits, kind changes, interrupted   *)
(* passes and resolutions came before, a pass replaces or deletes a remote *)
(* file only if this device and the remote have already held it in common. *)
RemoteFileOverwriteIsKnown ==
  [][Passing /\ remote.kind = "file" /\ remote' # remote => remote \in common]_vars

(* A pass that does not end in conflict leaves nothing for the next one:   *)
(* planned again, the path needs no transfer and keeps its row             *)
(* (plan_path with materialize_record: the row it stores must be the one   *)
(* the next scan agrees with).                                             *)
PassIsIdempotent ==
  [][Pass /\ record'.state # "conflict"
       => Plan(record', local', remote') \in {NoPlan, Keep(record')}]_vars
=============================================================================
