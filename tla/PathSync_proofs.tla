--------------------------- MODULE PathSync_proofs ---------------------------
(***************************************************************************)
(* PathSync, for any set of versions: the row always names a remote        *)
(* version both sides have held, so a pass never overwrites a remote file  *)
(* this device has not had.                                                *)
(***************************************************************************)
EXTENDS PathSync, SyncPlanner_proofs

(* The inductive invariant: what the row has as base has been common. *)
BaseIsCommon == record.base # None => File(record.base) \in common
IInv == TypeOK /\ BaseIsCommon

(* A versioned observation is a file. *)
LEMMA VersionedIsFile ==
  ASSUME NEW o \in Observation, o.version # None
  PROVE  o = File(o.version)
BY ObservationFacts DEF Observation, File

LEMMA SidesTyped ==
  ASSUME TypeOK, NEW l \in Observation, NEW r \in Observation, Sides(l, r)
  PROVE  /\ local' \in Observation /\ remote' \in Observation
         /\ common' \subseteq Observation /\ common \subseteq common'
         /\ l = r => l \in common'
BY DEF TypeOK, Sides

LEMMA InitIInv == Init => IInv
<1> SUFFICES ASSUME Init PROVE IInv
  OBVIOUS
<1>1. Nothing \in Observation
  BY NoneAssumption DEF Nothing, Observation, Observations, Kinds, Maybe
<1>2. NoRecord \in Records(Version)
  BY DEF NoRecord, Records, Kinds, Maybe
<1>3. NoRecord.base = None
  BY DEF NoRecord
<1> QED
  BY <1>1, <1>2, <1>3 DEF Init, IInv, TypeOK, BaseIsCommon

(* The transfer of a pass keeps the sides typed. *)
LEMMA TransferTyped ==
  ASSUME TypeOK, Transfer
  PROVE  /\ local' \in Observation /\ remote' \in Observation
         /\ common' \subseteq Observation /\ common \subseteq common'
<1>1. Nothing \in Observation
  BY DEF Nothing, Observation, Observations, Kinds, Maybe
<1>2. LocalAfter(ThePlan.op) \in Observation /\ RemoteAfter(ThePlan.op) \in Observation
  BY <1>1 DEF TypeOK, LocalAfter, RemoteAfter
<1> QED
  BY <1>2, SidesTyped DEF Transfer

(* The base of the row a pass stores is the old base, or the version of    *)
(* the file the pass has just made common.                                 *)
LEMMA PassBase ==
  ASSUME IInv, Pass
  PROVE  BaseIsCommon'
<1>1. /\ record \in Records(Version) /\ local \in Observation /\ remote \in Observation
  BY DEF IInv, TypeOK
<1>2. PlanOutcome(ThePlan, record, local, remote)
  BY <1>1, PlanCases DEF ThePlan
<1>3. common \subseteq common'
  BY TransferTyped DEF IInv, Pass
<1>4. record' = Materialize(ThePlan, local, remote, Pulled(ThePlan.op))
  BY DEF Pass
<1>5. CASE ThePlan = NoPlan \/ \E op : ThePlan = Delete(op)
  <2>1. record'.base = None
    BY <1>4, <1>5 DEF Materialize, NoPlan, Delete, PlanOf, NoRecord
  <2> QED
    BY <2>1 DEF BaseIsCommon
<1>6. CASE \E l, r : ThePlan = Conflict(ConflictRecord(record, l, r))
  <2>1. record'.base = record.base
    BY <1>4, <1>6 DEF Materialize, Conflict, PlanOf, ConflictRecord
  <2> QED
    BY <1>3, <2>1 DEF BaseIsCommon, IInv
<1>7. CASE \E k, b, r : ThePlan = Conflict(AbsentConflictRecord(record, k, b, r))
  <2>1. record'.base = record.base
    BY <1>4, <1>7 DEF Materialize, Conflict, PlanOf, AbsentConflictRecord
  <2> QED
    BY <1>3, <2>1 DEF BaseIsCommon, IInv
<1>8. CASE /\ ThePlan = Keep(ReadyRecord(local.kind, local.version, remote.version))
           /\ ~RemoteChanged(record, remote)
  <2>1. record'.base = record.base
    BY <1>4, <1>8 DEF Materialize, Keep, PlanOf, ReadyRecord, RemoteChanged
  <2> QED
    BY <1>3, <2>1 DEF BaseIsCommon, IInv
<1>9. CASE ThePlan = Push(local)
  <2>1. ThePlan.op \in {"push_file", "create_remote_dir"}
    BY <1>9, OpsOfPlans
  <2>2. Sides(local, local)
    BY <2>1 DEF Pass, Transfer, LocalAfter, RemoteAfter
  <2>3. local \in common'
    BY <1>1, <2>2, SidesTyped DEF IInv
  <2>4. record'.base # None => record'.base = local.version
    BY <1>4, <1>9, <2>1 DEF Materialize, Push, PlanOf, ReadyRecord, Pulled
  <2> QED
    BY <1>1, <2>3, <2>4, VersionedIsFile DEF BaseIsCommon
<1>10. CASE ThePlan = Pull(remote)
  <2>1. ThePlan.op \in {"pull_file", "create_local_dir"}
    BY <1>10, OpsOfPlans
  <2>2. Sides(remote, remote)
    BY <2>1 DEF Pass, Transfer, LocalAfter, RemoteAfter
  <2>3. remote \in common'
    BY <1>1, <2>2, SidesTyped DEF IInv
  <2>4. record'.base # None => record'.base = remote.version
    BY <1>4, <1>10, <2>1 DEF Materialize, Pull, PlanOf, ReadyRecord
  <2> QED
    BY <1>1, <2>3, <2>4, VersionedIsFile DEF BaseIsCommon
<1> QED
  BY <1>2, <1>5, <1>6, <1>7, <1>8, <1>9, <1>10 DEF PlanOutcome

LEMMA PassTyped ==
  ASSUME TypeOK, Pass
  PROVE  TypeOK'
<1>1. /\ record \in Records(Version)
      /\ local \in Observations(Version) /\ remote \in Observations(Version)
  BY DEF TypeOK, Observation
<1>2. Pulled(ThePlan.op) \in Maybe(Version)
  BY <1>1, ObservationFacts DEF Pulled
<1>3. ThePlan \in Plans(Version)
  BY <1>1, PlanTyped DEF ThePlan
<1>4. record' \in Records(Version)
  BY <1>1, <1>2, <1>3, MaterializeTyped DEF Pass
<1> QED
  BY <1>4, TransferTyped DEF Pass, TypeOK

LEMMA ResolveIInv ==
  ASSUME IInv, NEW side \in Observation, Resolve(side)
  PROVE  IInv'
<1>1. /\ local' \in Observation /\ remote' \in Observation
      /\ common' \subseteq Observation /\ side \in common'
  BY SidesTyped DEF IInv, Resolve
<1>2. side.version \in Maybe(Version) /\ (Seen(side) => side.kind \in Kinds)
  BY ObservationFacts DEF Observation
<1>3. ResolvedRow(side) \in Records(Version)
  BY <1>2, RecordsTyped DEF ResolvedRow, IInv, TypeOK
<1>4. ResolvedRow(side).base # None => ResolvedRow(side).base = side.version
  BY DEF ResolvedRow, ReadyRecord, ReadyAbsentRecord
<1> QED
  BY <1>1, <1>3, <1>4, VersionedIsFile DEF Resolve, IInv, TypeOK, BaseIsCommon

LEMMA NextIInv == IInv /\ [Next]_vars => IInv'
<1> SUFFICES ASSUME IInv, [Next]_vars PROVE IInv'
  OBVIOUS
<1>1. CASE Pass
  BY <1>1, PassTyped, PassBase DEF IInv
<1>2. CASE PassWithoutRow
  <2>1. record' = record
    BY <1>2 DEF PassWithoutRow
  <2> QED
    BY <1>2, <2>1, TransferTyped DEF PassWithoutRow, IInv, TypeOK, BaseIsCommon
<1>3. CASE Resolve(local)
  BY <1>3, ResolveIInv DEF IInv, TypeOK
<1>4. CASE Resolve(remote)
  BY <1>4, ResolveIInv DEF IInv, TypeOK
<1>5. CASE Edit
  <2>1. record' = record
    BY <1>5 DEF Edit
  <2>2. /\ local' \in Observation /\ remote' \in Observation
        /\ common' \subseteq Observation /\ common \subseteq common'
    BY <1>5, SidesTyped DEF Edit, IInv, TypeOK
  <2> QED
    BY <2>1, <2>2 DEF IInv, TypeOK, BaseIsCommon
<1>6. CASE UNCHANGED vars
  BY <1>6 DEF vars, IInv, TypeOK, BaseIsCommon
<1> QED
  BY <1>1, <1>2, <1>3, <1>4, <1>5, <1>6 DEF Next

(* Every reachable state is well-formed and its row's base has been common. *)
THEOREM Invariance == Spec => []IInv
  BY InitIInv, NextIInv, PTL DEF Spec

THEOREM TypeCorrect == Spec => []TypeOK
<1>1. IInv => TypeOK
  BY DEF IInv
<1> QED
  BY Invariance, <1>1, PTL

-----------------------------------------------------------------------------
(* A step of a pass writes over a remote file only at the row's base,      *)
(* which has been common.                                                  *)
LEMMA KnownOverwrite ==
  ASSUME IInv, Passing, remote.kind = "file", remote' # remote
  PROVE  remote \in common
<1>1. /\ record \in Records(Version)
      /\ local \in Observations(Version) /\ remote \in Observations(Version)
  BY DEF IInv, TypeOK, Observation
<1>2. remote' = RemoteAfter(ThePlan.op)
  BY DEF Passing, Pass, PassWithoutRow, Transfer, Sides
<1>3. ThePlan.op \in {"push_file", "create_remote_dir", "delete_remote"}
  BY <1>2 DEF RemoteAfter
<1>4. Seen(remote) /\ remote.version # None
  BY <1>1, ObservationFacts DEF Kinds
<1>5. remote.version = record.base
  BY <1>1, <1>3, <1>4, RemoteWriteNeedsBase DEF ThePlan
<1>6. remote = File(record.base)
  BY <1>1, <1>4, <1>5, VersionedIsFile DEF Observation
<1> QED
  BY <1>4, <1>5, <1>6 DEF IInv, BaseIsCommon

(* Stale-overwrite protection of files, over every history of edits,       *)
(* interrupted passes and resolutions.                                     *)
THEOREM StaleOverwriteProtection == Spec => RemoteFileOverwriteIsKnown
<1>1. IInv /\ [Next]_vars
        => [Passing /\ remote.kind = "file" /\ remote' # remote
              => remote \in common]_vars
  BY KnownOverwrite
<1> QED
  BY <1>1, Invariance, PTL DEF Spec, RemoteFileOverwriteIsKnown

-----------------------------------------------------------------------------
(* A ready row made of what the two sides hold is the one the next pass    *)
(* would make again.                                                       *)
LEMMA ReadyKeepsItself ==
  ASSUME NEW l \in Observation, NEW r \in Observation,
         Seen(l), Seen(r), l.kind = r.kind
  PROVE  LET row == ReadyRecord(l.kind, l.version, r.version)
         IN  Plan(row, l, r) = Keep(row)
<1> DEFINE row == ReadyRecord(l.kind, l.version, r.version)
<1>1. ~LocalChanged(row, l) /\ ~RemoteChanged(row, r)
  BY DEF LocalChanged, RemoteChanged, ReadyRecord
<1>2. Plan(row, l, r) = PlanBothPresent(row, l, r)
  BY DEF Plan
<1> QED
  BY <1>1, <1>2 DEF PlanBothPresent

(* The second pass of two in a row has nothing to do, but for a conflict. *)
LEMMA SecondPassIsIdle ==
  ASSUME IInv, Pass, record'.state # "conflict"
  PROVE  Plan(record', local', remote') \in {NoPlan, Keep(record')}
<1>1. /\ record \in Records(Version) /\ local \in Observation /\ remote \in Observation
  BY DEF IInv, TypeOK
<1>2. PlanOutcome(ThePlan, record, local, remote)
  BY <1>1, PlanCases DEF ThePlan
<1>3. record' = Materialize(ThePlan, local, remote, Pulled(ThePlan.op))
  BY DEF Pass
<1>4. local' = LocalAfter(ThePlan.op) /\ remote' = RemoteAfter(ThePlan.op)
  BY DEF Pass, Transfer, Sides
<1>5. ~Seen(Nothing) /\ \A o : ~Seen(o) => o = Nothing
  BY DEF Seen
<1>6. \A prev : Plan(prev, Nothing, Nothing) = NoPlan
  BY <1>5 DEF Plan
<1>7. /\ \A o \in Observation : o.kind = "file" <=> o.version # None
      /\ \A o \in Observation : Seen(o) => o.kind \in {"file", "dir"}
  BY ObservationFacts DEF Observation, Kinds
<1>8. CASE ThePlan = NoPlan /\ ~Seen(local) /\ ~Seen(remote)
  <2>1. local' = Nothing /\ remote' = Nothing
    BY <1>4, <1>5, <1>8, OpsOfPlans DEF LocalAfter, RemoteAfter
  <2> QED
    BY <1>6, <2>1
<1>9. CASE ThePlan = Delete("delete_remote") /\ ~Seen(local)
  <2>1. local' = Nothing /\ remote' = Nothing
    BY <1>4, <1>5, <1>9, OpsOfPlans DEF LocalAfter, RemoteAfter
  <2> QED
    BY <1>6, <2>1
<1>10. CASE ThePlan = Delete("delete_local") /\ ~Seen(remote)
  <2>1. local' = Nothing /\ remote' = Nothing
    BY <1>4, <1>5, <1>10, OpsOfPlans DEF LocalAfter, RemoteAfter
  <2> QED
    BY <1>6, <2>1
<1>11. ASSUME NEW r, ThePlan = Conflict(r), r.state = "conflict" PROVE FALSE
  BY <1>3, <1>11 DEF Materialize, Conflict, PlanOf
<1>12. CASE /\ ThePlan = Keep(ReadyRecord(local.kind, local.version, remote.version))
            /\ Seen(local) /\ Seen(remote) /\ local.kind = remote.kind
  <2>1. local' = local /\ remote' = remote
    BY <1>4, <1>12, OpsOfPlans DEF LocalAfter, RemoteAfter
  <2>2. record' = ReadyRecord(local.kind, local.version, remote.version)
    BY <1>3, <1>12 DEF Materialize, Keep, PlanOf
  <2> QED
    BY <1>1, <1>12, <2>1, <2>2, ReadyKeepsItself
<1>13. CASE ThePlan = Push(local) /\ Seen(local)
  <2>1. ThePlan.op \in {"push_file", "create_remote_dir"}
    BY <1>13, OpsOfPlans
  <2>2. local' = local /\ remote' = local
    BY <1>4, <2>1 DEF LocalAfter, RemoteAfter
  <2>3. record' = ReadyRecord(local.kind, local.version, local.version)
    BY <1>1, <1>3, <1>7, <1>13, <2>1 DEF Materialize, Push, PlanOf, Pulled
  <2> QED
    BY <1>1, <1>13, <2>2, <2>3, ReadyKeepsItself
<1>14. CASE ThePlan = Pull(remote) /\ Seen(remote)
  <2>1. ThePlan.op \in {"pull_file", "create_local_dir"}
    BY <1>14, OpsOfPlans
  <2>2. local' = remote /\ remote' = remote
    BY <1>4, <2>1 DEF LocalAfter, RemoteAfter
  <2>3. record' = ReadyRecord(remote.kind, remote.version, remote.version)
    BY <1>1, <1>3, <1>7, <1>14, OpsOfPlans DEF Materialize, Pull, PlanOf, Pulled
  <2> QED
    BY <1>1, <1>14, <2>2, <2>3, ReadyKeepsItself
<1>15. ThePlan # Conflict(ConflictRecord(record, local, remote))
  BY <1>11 DEF ConflictRecord
<1>16. \A k, b, r : ThePlan # Conflict(AbsentConflictRecord(record, k, b, r))
  BY <1>11 DEF AbsentConflictRecord
<1> QED
  BY <1>2, <1>8, <1>9, <1>10, <1>12, <1>13, <1>14, <1>15, <1>16 DEF PlanOutcome

(* A complete pass that reports no conflict leaves the next one idle. *)
THEOREM Idempotence == Spec => PassIsIdempotent
<1>1. IInv /\ [Next]_vars
        => [Pass /\ record'.state # "conflict"
              => Plan(record', local', remote') \in {NoPlan, Keep(record')}]_vars
  BY SecondPassIsIdle
<1> QED
  BY <1>1, Invariance, PTL DEF Spec, PassIsIdempotent
=============================================================================
