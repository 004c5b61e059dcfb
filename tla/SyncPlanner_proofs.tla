------------------------- MODULE SyncPlanner_proofs -------------------------
(* Lemmas about the planner, for any set of versions. *)
EXTENDS SyncPlanner, TLAPS

(* The ten outcomes of plan_path and the case each one answers. *)
PlanOutcome(plan, prev, local, remote) ==
  LET mine   == LocalChanged(prev, local)
      theirs == RemoteChanged(prev, remote)
      both   == Seen(local) /\ Seen(remote)
  IN  \/ ~Seen(local) /\ ~Seen(remote) /\ plan = NoPlan
      \/ /\ both /\ (local.kind # remote.kind \/ (mine /\ theirs))
         /\ plan = Conflict(ConflictRecord(prev, local, remote))
      \/ /\ both /\ local.kind = remote.kind /\ ~mine /\ ~theirs
         /\ plan = Keep(ReadyRecord(local.kind, local.version, remote.version))
      \/ both /\ local.kind = remote.kind /\ mine /\ ~theirs /\ plan = Push(local)
      \/ both /\ local.kind = remote.kind /\ ~mine /\ theirs /\ plan = Pull(remote)
      \/ ~Seen(local) /\ Seen(remote) /\ ~prev.present /\ plan = Pull(remote)
      \/ /\ ~Seen(local) /\ Seen(remote) /\ prev.present /\ theirs
         /\ plan = Conflict(AbsentConflictRecord(prev, remote.kind, FALSE, remote.version))
      \/ /\ ~Seen(local) /\ Seen(remote) /\ prev.present /\ ~theirs
         /\ plan = Delete("delete_remote")
      \/ Seen(local) /\ ~Seen(remote) /\ prev.base = None /\ plan = Push(local)
      \/ /\ Seen(local) /\ ~Seen(remote) /\ prev.base # None /\ mine
         /\ plan = Conflict(AbsentConflictRecord(prev, local.kind, TRUE, None))
      \/ /\ Seen(local) /\ ~Seen(remote) /\ prev.base # None /\ ~mine
         /\ plan = Delete("delete_local")

LEMMA PlanCases ==
  ASSUME NEW V, NEW prev \in Records(V), NEW local, NEW remote
  PROVE  PlanOutcome(Plan(prev, local, remote), prev, local, remote)
<1> DEFINE mine == LocalChanged(prev, local)
           theirs == RemoteChanged(prev, remote)
<1>0. prev.present \in BOOLEAN /\ mine \in BOOLEAN /\ theirs \in BOOLEAN
      /\ Seen(local) \in BOOLEAN /\ Seen(remote) \in BOOLEAN
  BY DEF Records, LocalChanged, RemoteChanged, Seen
<1>1. CASE ~Seen(local) /\ ~Seen(remote)
  BY <1>0, <1>1 DEF Plan, PlanOutcome
<1>2. CASE Seen(local) /\ Seen(remote)
  <2>1. Plan(prev, local, remote) = PlanBothPresent(prev, local, remote)
    BY <1>0, <1>2 DEF Plan
  <2> QED
    BY <1>0, <1>2, <2>1 DEF PlanBothPresent, PlanOutcome
<1>3. CASE ~Seen(local) /\ Seen(remote)
  <2>1. Plan(prev, local, remote) = PlanRemoteOnly(prev, remote)
    BY <1>0, <1>3 DEF Plan
  <2> QED
    BY <1>0, <1>3, <2>1 DEF PlanRemoteOnly, PlanOutcome
<1>4. CASE Seen(local) /\ ~Seen(remote)
  <2>1. Plan(prev, local, remote) = PlanLocalOnly(prev, local)
    BY <1>0, <1>4 DEF Plan
  <2> QED
    BY <1>0, <1>4, <2>1 DEF PlanLocalOnly, PlanOutcome
<1> QED
  BY <1>0, <1>1, <1>2, <1>3, <1>4

-----------------------------------------------------------------------------
(* The records the planner makes have the shape of rows. *)
LEMMA RecordsTyped ==
  ASSUME NEW V, NEW prev \in Records(V)
  PROVE  /\ NoRecord \in Records(V) /\ ReadyAbsentRecord \in Records(V)
         /\ \A kind \in Kinds, l, r \in Maybe(V) : ReadyRecord(kind, l, r) \in Records(V)
         /\ \A kind \in Kinds, l, r \in Maybe(V) :
              ConflictRecord(prev, [kind |-> kind, version |-> l],
                                   [kind |-> kind, version |-> r]) \in Records(V)
         /\ \A kind \in Kinds, here \in BOOLEAN, r \in Maybe(V) :
              AbsentConflictRecord(prev, kind, here, r) \in Records(V)
<1>1. NoRecord \in Records(V) /\ ReadyAbsentRecord \in Records(V)
  BY DEF NoRecord, ReadyAbsentRecord, Records, Kinds, Maybe
<1>2. \A kind \in Kinds, l, r \in Maybe(V) : ReadyRecord(kind, l, r) \in Records(V)
  BY DEF ReadyRecord, Records
<1>3. \A kind \in Kinds, l, r \in Maybe(V) :
        ConflictRecord(prev, [kind |-> kind, version |-> l],
                             [kind |-> kind, version |-> r]) \in Records(V)
  BY DEF ConflictRecord, Records
<1>4. \A kind \in Kinds, here \in BOOLEAN, r \in Maybe(V) :
        AbsentConflictRecord(prev, kind, here, r) \in Records(V)
  BY DEF AbsentConflictRecord, Records
<1> QED
  BY <1>1, <1>2, <1>3, <1>4

(* What a scan can observe. *)
LEMMA ObservationFacts ==
  ASSUME NEW V, NEW o \in Observations(V)
  PROVE  /\ o.version \in Maybe(V) /\ None \in Maybe(V)
         /\ o.kind \in Kinds \cup {"nothing"}
         /\ o = [kind |-> o.kind, version |-> o.version]
         /\ Seen(o) <=> o.kind \in Kinds
         /\ o.kind = "file" <=> o.version # None
BY DEF Observations, Seen, Nothing, Maybe, Kinds

(* A plan for typed inputs is a typed plan. *)
LEMMA PlanTyped ==
  ASSUME NEW V, NEW prev \in Records(V),
         NEW local \in Observations(V), NEW remote \in Observations(V)
  PROVE  Plan(prev, local, remote) \in Plans(V)
<1> DEFINE plan == Plan(prev, local, remote)
<1>1. /\ local.version \in Maybe(V) /\ remote.version \in Maybe(V) /\ None \in Maybe(V)
      /\ Seen(local) => local.kind \in Kinds
      /\ Seen(remote) => remote.kind \in Kinds
  BY ObservationFacts
<1>2. "dir" \in Kinds
  BY DEF Kinds
<1>3. Seen(local) => ConflictRecord(prev, local, remote) \in Records(V)
  BY <1>1 DEF ConflictRecord, Records
<1>4. NoPlan \in Plans(V)
  BY RecordsTyped DEF NoPlan, PlanOf, Plans, Ops, RowKinds, Announcements
<1>5. \A r \in Records(V) : Keep(r) \in Plans(V) /\ Conflict(r) \in Plans(V)
  BY DEF Keep, Conflict, PlanOf, Plans, Ops, RowKinds, Announcements
<1>6. Delete("delete_local") \in Plans(V) /\ Delete("delete_remote") \in Plans(V)
  BY RecordsTyped DEF Delete, PlanOf, Plans, Ops, RowKinds, Announcements
<1>7. ReadyRecord("dir", None, None) \in Records(V) /\ NoRecord \in Records(V)
  BY <1>1, <1>2, RecordsTyped
<1>8. Pull(remote) \in Plans(V) /\ Push(local) \in Plans(V)
  BY <1>7 DEF Pull, Push, PlanOf, Plans, Ops, RowKinds, Announcements
<1>9. /\ Seen(local) => ReadyRecord(local.kind, local.version, remote.version) \in Records(V)
      /\ Seen(local) => AbsentConflictRecord(prev, local.kind, TRUE, None) \in Records(V)
      /\ Seen(remote) =>
           AbsentConflictRecord(prev, remote.kind, FALSE, remote.version) \in Records(V)
  BY <1>1, RecordsTyped
<1>10. PlanOutcome(plan, prev, local, remote)
  BY PlanCases
<1> QED
  BY <1>3, <1>4, <1>5, <1>6, <1>8, <1>9, <1>10 DEF PlanOutcome

(* So is the row it is completed to. *)
LEMMA MaterializeTyped ==
  ASSUME NEW V, NEW plan \in Plans(V), NEW local \in Observations(V),
         NEW remote \in Observations(V), NEW got \in Maybe(V)
  PROVE  Materialize(plan, local, remote, got) \in Records(V)
<1>1. local.version \in Maybe(V) /\ remote.version \in Maybe(V)
  BY ObservationFacts
<1>2. plan.record \in Records(V)
  BY DEF Plans
<1>3. "file" \in Kinds
  BY DEF Kinds
<1>4. NoRecord \in Records(V)
  BY <1>2, RecordsTyped
<1>5. \A l, r \in Maybe(V) : ReadyRecord("file", l, r) \in Records(V)
  BY <1>2, <1>3, RecordsTyped
<1> QED
  BY <1>1, <1>2, <1>4, <1>5 DEF Materialize

(* The transfer each kind of plan makes. *)
LEMMA OpsOfPlans ==
  ASSUME NEW local, NEW remote
  PROVE  /\ NoPlan.op = "none"
         /\ \A r : Keep(r).op = "none" /\ Conflict(r).op = "none"
         /\ \A op : Delete(op).op = op
         /\ Pull(remote).op = IF remote.kind = "dir" THEN "create_local_dir" ELSE "pull_file"
         /\ Push(local).op = IF local.kind = "dir" THEN "create_remote_dir" ELSE "push_file"
BY DEF NoPlan, Keep, Conflict, Delete, Pull, Push, PlanOf

(* plan_path plans to replace or delete something on the remote only at    *)
(* the version the row has as base ...                                     *)
THEOREM RemoteWriteNeedsBase ==
  ASSUME NEW V, NEW prev \in Records(V),
         NEW local \in Observations(V), NEW remote \in Observations(V), Seen(remote),
         Plan(prev, local, remote).op
           \in {"push_file", "create_remote_dir", "delete_remote"}
  PROVE  remote.version = prev.base
<1>1. PlanOutcome(Plan(prev, local, remote), prev, local, remote)
  BY PlanCases
<1>2. ~RemoteChanged(prev, remote) => remote.version = prev.base
  BY DEF RemoteChanged
<1> QED
  BY <1>1, <1>2, OpsOfPlans DEF PlanOutcome

(* ... and to replace or delete something local only while it is what the  *)
(* row has as the local version.                                           *)
THEOREM LocalWriteNeedsLast ==
  ASSUME NEW V, NEW prev \in Records(V),
         NEW local \in Observations(V), NEW remote \in Observations(V), Seen(local),
         Plan(prev, local, remote).op
           \in {"pull_file", "create_local_dir", "delete_local"}
  PROVE  prev.present /\ local.version = prev.last
<1>1. PlanOutcome(Plan(prev, local, remote), prev, local, remote)
  BY PlanCases
<1>2. ~LocalChanged(prev, local) => prev.present /\ local.version = prev.last
  BY DEF LocalChanged, Records
<1> QED
  BY <1>1, <1>2, OpsOfPlans DEF PlanOutcome

(* A transfer copies an entry of its own kind, which the scan has seen. *)
LEMMA TransferSource ==
  ASSUME NEW V, NEW prev \in Records(V), NEW local, NEW remote
  PROVE  LET op == Plan(prev, local, remote).op
         IN  /\ op = "create_local_dir" => Seen(remote) /\ remote.kind = "dir"
             /\ op = "pull_file" => Seen(remote) /\ remote.kind # "dir"
             /\ op = "create_remote_dir" => Seen(local) /\ local.kind = "dir"
             /\ op = "push_file" => Seen(local) /\ local.kind # "dir"
             /\ op = "delete_remote" => ~Seen(local) /\ Seen(remote)
             /\ op = "delete_local" => Seen(local) /\ ~Seen(remote)
<1> DEFINE plan == Plan(prev, local, remote)
<1>1. PlanOutcome(plan, prev, local, remote)
  BY PlanCases
<1>2. CASE plan = NoPlan \/ (\E r : plan = Keep(r) \/ plan = Conflict(r))
  <2>1. plan.op = "none"
    BY <1>2, OpsOfPlans
  <2> QED
    BY <2>1
<1>3. CASE plan = Push(local) /\ Seen(local)
  BY <1>3, OpsOfPlans
<1>4. CASE plan = Pull(remote) /\ Seen(remote)
  BY <1>4, OpsOfPlans
<1>5. CASE plan = Delete("delete_remote") /\ ~Seen(local) /\ Seen(remote)
  BY <1>5, OpsOfPlans
<1>6. CASE plan = Delete("delete_local") /\ Seen(local) /\ ~Seen(remote)
  BY <1>6, OpsOfPlans
<1> QED
  BY <1>1, <1>2, <1>3, <1>4, <1>5, <1>6 DEF PlanOutcome

(* The base of the row a pass leaves: the one it had, the version the scan *)
(* saw, or what the push reported.                                         *)
LEMMA BaseOfRow ==
  ASSUME NEW V, NEW prev \in Records(V), NEW local, NEW remote, NEW got,
         NEW plan, plan = Plan(prev, local, remote)
  PROVE  \/ Materialize(plan, local, remote, got).base
               \in {None, prev.base, remote.version}
         \/ /\ plan.op = "push_file"
            /\ Materialize(plan, local, remote, got).base
                 = IF got = None THEN local.version ELSE got
<1> DEFINE base == Materialize(plan, local, remote, got).base
<1>1. PlanOutcome(plan, prev, local, remote)
  BY PlanCases
<1>2. CASE plan = NoPlan \/ (\E op : plan = Delete(op))
  <2>1. plan.row = "remove"
    BY <1>2 DEF NoPlan, Delete, PlanOf
  <2> QED
    BY <2>1 DEF Materialize, NoRecord
<1>3. ASSUME NEW row, row.base \in {None, prev.base, remote.version},
             plan = Keep(row) \/ plan = Conflict(row)
      PROVE  base \in {None, prev.base, remote.version}
  <2>1. plan.row = "static" /\ plan.record = row
    BY <1>3 DEF Keep, Conflict, PlanOf
  <2> QED
    BY <1>3, <2>1 DEF Materialize
<1>4. CASE plan = Pull(remote)
  <2>1. CASE remote.kind = "dir"
    <3>1. plan.row = "static" /\ plan.record = ReadyRecord("dir", None, None)
      BY <1>4, <2>1 DEF Pull, PlanOf
    <3> QED
      BY <3>1 DEF Materialize, ReadyRecord
  <2>2. CASE remote.kind # "dir"
    <3>1. plan.row = "pulled"
      BY <1>4, <2>2 DEF Pull, PlanOf
    <3> QED
      BY <3>1 DEF Materialize, ReadyRecord
  <2> QED
    BY <2>1, <2>2
<1>5. CASE plan = Push(local)
  <2>1. CASE local.kind = "dir"
    <3>1. plan.row = "static" /\ plan.record = ReadyRecord("dir", None, None)
      BY <1>5, <2>1 DEF Push, PlanOf
    <3> QED
      BY <3>1 DEF Materialize, ReadyRecord
  <2>2. CASE local.kind # "dir"
    <3>1. plan.row = "pushed" /\ plan.op = "push_file"
      BY <1>5, <2>2 DEF Push, PlanOf
    <3> QED
      BY <3>1 DEF Materialize, ReadyRecord
  <2> QED
    BY <2>1, <2>2
<1>6. /\ ReadyRecord(local.kind, local.version, remote.version).base = remote.version
      /\ ConflictRecord(prev, local, remote).base = prev.base
  BY DEF ReadyRecord, ConflictRecord
<1>7. \/ plan = NoPlan \/ plan = Delete("delete_remote") \/ plan = Delete("delete_local")
      \/ plan = Pull(remote) \/ plan = Push(local)
      \/ plan = Keep(ReadyRecord(local.kind, local.version, remote.version))
      \/ plan = Conflict(ConflictRecord(prev, local, remote))
      \/ plan = Conflict(AbsentConflictRecord(prev, remote.kind, FALSE, remote.version))
      \/ plan = Conflict(AbsentConflictRecord(prev, local.kind, TRUE, None))
  BY <1>1 DEF PlanOutcome
<1>8. plan = Keep(ReadyRecord(local.kind, local.version, remote.version))
        => base \in {None, prev.base, remote.version}
  BY <1>3, <1>6
<1>9. plan = Conflict(ConflictRecord(prev, local, remote))
        => base \in {None, prev.base, remote.version}
  BY <1>3, <1>6
<1>10. plan = Conflict(AbsentConflictRecord(prev, remote.kind, FALSE, remote.version))
         => base \in {None, prev.base, remote.version}
  BY DEF Conflict, PlanOf, Materialize, AbsentConflictRecord
<1>11. plan = Conflict(AbsentConflictRecord(prev, local.kind, TRUE, None))
         => base \in {None, prev.base, remote.version}
  BY DEF Conflict, PlanOf, Materialize, AbsentConflictRecord
<1> QED
  BY <1>2, <1>4, <1>5, <1>7, <1>8, <1>9, <1>10, <1>11
=============================================================================
