------------------------- MODULE AgentFsCommit_proofs -------------------------
(***************************************************************************)
(* Proofs about AgentFsCommit and, through it, CommitLog: for any agents,  *)
(* paths, contents, commit ids and bounds.                                 *)
(***************************************************************************)
EXTENDS AgentFsCommit, TLAPS

-----------------------------------------------------------------------------
(* The steps, by the part of a command they belong to.                     *)
Beginning(a) ==
  \/ ApplyBegin(a) \/ ProposeBegin(a) \/ RepairBegin(a) \/ AttachBegin(a)
  \/ \E id \in Ids : AcceptBegin(a, id) \/ RejectBegin(a, id)
Proposing(a) ==
  \/ Stage(a) \/ StageFails(a) \/ WriteProposal(a) \/ AnnounceProposal(a)
  \/ Reject(a) \/ AnnounceRejection(a)
Locking(a) == ReadClock(a) \/ CreateLock(a) \/ ListLocks(a)
Accepting(a) ==
  \/ WriteCommit(a) \/ Refuse(a) \/ AnnounceCommit(a) \/ MoveHead(a)
  \/ MetadataWriteFails(a) \/ Release(a) \/ ReleaseRefused(a)
Settling(a) ==
  \/ \E p \in Paths : Materialize(a, p)
  \/ AnnounceMaterialized(a) \/ MarkMaterialized(a) \/ MaterializeFails(a) \/ MarkFailed(a)
Ending(a) == Decide(a) \/ AnnounceDecision(a) \/ Finish(a) \/ Crash(a)
Attaching(a) == AttachSync(a) \/ AttachTrust(a)

LEMMA NextCases ==
  ASSUME [Next]_vars
  PROVE  \/ Tick \/ (\E p \in Paths : Drift(p)) \/ UNCHANGED vars
         \/ \E a \in Agents :
              \/ Beginning(a) \/ Proposing(a) \/ Locking(a) \/ Accepting(a) \/ Settling(a)
              \/ Ending(a) \/ Attaching(a) \/ \E p \in Paths : Edit(a, p)
BY DEF Next, Continue, Beginning, Proposing, Locking, Accepting, Settling, Ending, Attaching

-----------------------------------------------------------------------------
(* What a step of each kind does to the command that a machine runs.       *)

(* The commands, and what becomes of them, have their types. *)
CommandTyped ==
  /\ doing \in [Agents -> Commands] /\ step \in [Agents -> Steps]
  /\ work \in [Agents -> [id : Ids \cup {None}, base : Ids \cup {None}, change : Changes]]
  /\ lock \in [Agents -> Locks] /\ left \in [Agents -> SUBSET Paths]

LEMMA ConstantsTyped ==
  /\ None \notin Ids /\ None \notin Agents
  /\ Nothing \in Trees /\ NoChange \in Changes
  /\ NoWork \in [id : Ids \cup {None}, base : Ids \cup {None}, change : Changes]
  /\ NoLock \in Locks
<1>1. None \notin Ids /\ None \notin Agents
  BY ValuesAssumption, AgentsAssumption
<1>2. Nothing \in Trees
  BY DEF Nothing, Trees, Holdings
<1>3. NoChange \in Changes
  BY <1>2 DEF NoChange, Changes
<1>4. NoWork \in [id : Ids \cup {None}, base : Ids \cup {None}, change : Changes]
  BY <1>3 DEF NoWork
<1>5. NoLock \in Locks
  BY SettingsAssumption DEF NoLock, Locks
<1> QED
  BY <1>1, <1>2, <1>3, <1>4, <1>5

LEMMA StartTyped ==
  ASSUME TypeOK, NEW a \in Agents, NEW name \in Commands, NEW s \in Steps,
         NEW w \in [id : Ids \cup {None}, base : Ids \cup {None}, change : Changes],
         Start(a, name, s, w), UNCHANGED lock,
         left' = left \/ (\E l \in SUBSET Paths : left' = [left EXCEPT ![a] = l])
  PROVE  CommandTyped'
BY DEF TypeOK, Start, CommandTyped

LEMMA EndTyped ==
  ASSUME TypeOK, NEW a \in Agents, End(a)
  PROVE  CommandTyped'
<1>1. "nothing" \in Commands /\ "idle" \in Steps
  BY DEF Commands, Steps
<1> QED
  BY <1>1, ConstantsTyped DEF TypeOK, End, GoTo, CommandTyped

LEMMA OverlayTyped ==
  ASSUME NEW f \in Trees, NEW c \in Changes
  PROVE  Overlay(f, c) \in Trees
BY DEF Overlay, Trees, Changes

LEMMA ChangeTyped ==
  ASSUME NEW f \in Trees, NEW g \in Trees
  PROVE  [from |-> f, to |-> g] \in Changes
BY DEF Changes

(* The files change when the head moves, a commit is materialized, or the  *)
(* source drifts.                                                          *)
LEMMA FilesKinds ==
  ASSUME [Next]_vars
  PROVE  \/ UNCHANGED files
         \/ \E p \in Paths : Drift(p)
         \/ \E a \in Agents : MoveHead(a) \/ \E p \in Paths : Materialize(a, p)
<1> USE DEF vars
<1>1. ASSUME NEW a \in Agents, Beginning(a)  PROVE UNCHANGED files
  BY <1>1 DEF Beginning, ApplyBegin, ProposeBegin, Begin, RepairBegin, AttachBegin,
              AcceptBegin, RejectBegin
<1>2. ASSUME NEW a \in Agents, Proposing(a)  PROVE UNCHANGED files
  BY <1>2 DEF Proposing, Stage, StageFails, WriteProposal, AnnounceProposal, Reject,
              AnnounceRejection
<1>3. ASSUME NEW a \in Agents, Locking(a)  PROVE UNCHANGED files
  BY <1>3 DEF Locking, ReadClock, CreateLock, ListLocks
<1>4. ASSUME NEW a \in Agents, Accepting(a)  PROVE UNCHANGED files \/ MoveHead(a)
  BY <1>4 DEF Accepting, WriteCommit, Refuse, AnnounceCommit, MetadataWriteFails, Release,
              ReleaseRefused
<1>5. ASSUME NEW a \in Agents, Settling(a)
      PROVE  UNCHANGED files \/ \E p \in Paths : Materialize(a, p)
  BY <1>5 DEF Settling, AnnounceMaterialized, MarkMaterialized, MaterializeFails, MarkFailed
<1>6. ASSUME NEW a \in Agents, Ending(a) \/ Attaching(a)  PROVE UNCHANGED files
  BY <1>6 DEF Ending, Attaching, Decide, AnnounceDecision, Finish, Crash, AttachSync, AttachTrust
<1>7. ASSUME NEW a \in Agents, NEW p \in Paths, Edit(a, p)  PROVE UNCHANGED files
  BY <1>7 DEF Edit
<1>8. Tick => UNCHANGED files
  BY DEF Tick
<1> QED
  BY NextCases, <1>1, <1>2, <1>3, <1>4, <1>5, <1>6, <1>7, <1>8


(* The records and the head change when a proposal is written or decided,  *)
(* a commit is written, becomes the head, or is materialized or not.       *)
records == <<head, commits, proposals, accepted>>

LEMMA RecordsKinds ==
  ASSUME [Next]_vars
  PROVE  \/ UNCHANGED records
         \/ \E a \in Agents :
              \/ WriteProposal(a) \/ Reject(a) \/ Decide(a)
              \/ WriteCommit(a) \/ MoveHead(a) \/ MarkMaterialized(a) \/ MarkFailed(a)
<1> USE DEF vars, metadata, records
<1>1. ASSUME NEW a \in Agents, Beginning(a)  PROVE UNCHANGED records
  BY <1>1 DEF Beginning, ApplyBegin, ProposeBegin, Begin, RepairBegin, AttachBegin,
              AcceptBegin, RejectBegin
<1>2. ASSUME NEW a \in Agents, Proposing(a)
      PROVE  UNCHANGED records \/ WriteProposal(a) \/ Reject(a)
  BY <1>2 DEF Proposing, Stage, StageFails, AnnounceProposal, AnnounceRejection
<1>3. ASSUME NEW a \in Agents, Locking(a)  PROVE UNCHANGED records
  BY <1>3 DEF Locking, ReadClock, CreateLock, ListLocks
<1>4. ASSUME NEW a \in Agents, Accepting(a)
      PROVE  UNCHANGED records \/ WriteCommit(a) \/ MoveHead(a)
  BY <1>4 DEF Accepting, Refuse, AnnounceCommit, MetadataWriteFails, Release, ReleaseRefused
<1>5. ASSUME NEW a \in Agents, Settling(a)
      PROVE  UNCHANGED records \/ MarkMaterialized(a) \/ MarkFailed(a)
  BY <1>5 DEF Settling, Materialize, AnnounceMaterialized, MaterializeFails
<1>6. ASSUME NEW a \in Agents, Ending(a) \/ Attaching(a)  PROVE UNCHANGED records \/ Decide(a)
  BY <1>6 DEF Ending, Attaching, AnnounceDecision, Finish, Crash, AttachSync, AttachTrust
<1>7. ASSUME NEW a \in Agents, NEW p \in Paths, Edit(a, p)  PROVE UNCHANGED records
  BY <1>7 DEF Edit
<1>8. (Tick => UNCHANGED records) /\ \A p \in Paths : Drift(p) => UNCHANGED records
  BY DEF Tick, Drift
<1> QED
  BY NextCases, <1>1, <1>2, <1>3, <1>4, <1>5, <1>6, <1>7, <1>8

(* One command moves at a time, and so does what the machine keeps.        *)
Rests(b) ==
  /\ doing'[b] = doing[b] /\ step'[b] = step[b] /\ work'[b] = work[b]
  /\ lock'[b] = lock[b] /\ left'[b] = left[b]
  /\ tree'[b] = tree[b] /\ trusted'[b] = trusted[b] /\ basis'[b] = basis[b]
  /\ mount'[b] = mount[b] /\ attached'[b] = attached[b] /\ (b \in reset' <=> b \in reset)

LEMMA OthersRest ==
  ASSUME TypeOK, [Next]_vars
  PROVE  \/ \A b \in Agents : Rests(b)
         \/ \E a \in Agents :
              /\ \/ Beginning(a) \/ Proposing(a) \/ Locking(a) \/ Accepting(a) \/ Settling(a)
                 \/ Ending(a) \/ Attaching(a) \/ \E p \in Paths : Edit(a, p)
              /\ \A b \in Agents \ {a} : Rests(b)
<1> USE DEF vars, machine, command, Rests, Start, End, GoTo, At
<1> DEFINE Typed == /\ doing \in [Agents -> Commands] /\ step \in [Agents -> Steps]
                    /\ DOMAIN work = Agents /\ DOMAIN lock = Agents /\ DOMAIN left = Agents
                    /\ DOMAIN tree = Agents /\ DOMAIN trusted = Agents /\ DOMAIN basis = Agents
                    /\ DOMAIN mount = Agents /\ DOMAIN attached = Agents
<1>0. Typed
  BY DEF TypeOK
<1> HIDE DEF Typed
<1>1. ASSUME NEW a \in Agents, Beginning(a)  PROVE \A b \in Agents \ {a} : Rests(b)
  BY <1>0, <1>1 DEF Typed, Beginning, ApplyBegin, ProposeBegin, Begin, RepairBegin, AttachBegin,
              AcceptBegin, RejectBegin
<1>2. ASSUME NEW a \in Agents, Proposing(a)  PROVE \A b \in Agents \ {a} : Rests(b)
  BY <1>0, <1>2 DEF Typed, Proposing, Stage, StageFails, WriteProposal, AnnounceProposal, Reject,
              AnnounceRejection
<1>3. ASSUME NEW a \in Agents, Locking(a)  PROVE \A b \in Agents \ {a} : Rests(b)
  BY <1>0, <1>3 DEF Typed, Locking, ReadClock, CreateLock, ListLocks
<1>4. ASSUME NEW a \in Agents, Accepting(a)  PROVE \A b \in Agents \ {a} : Rests(b)
  BY <1>0, <1>4 DEF Typed, Accepting, WriteCommit, Refuse, AnnounceCommit, MoveHead,
              MetadataWriteFails, Release, ReleaseRefused
<1>5. ASSUME NEW a \in Agents, Settling(a)  PROVE \A b \in Agents \ {a} : Rests(b)
  BY <1>0, <1>5 DEF Typed, Settling, Materialize, AnnounceMaterialized, MarkMaterialized,
              MaterializeFails, MarkFailed
<1>6. ASSUME NEW a \in Agents, Ending(a)  PROVE \A b \in Agents \ {a} : Rests(b)
  BY <1>0, <1>6 DEF Typed, Ending, Decide, AnnounceDecision, Finish, MountMoved, Crash
<1>7. ASSUME NEW a \in Agents, Attaching(a)  PROVE \A b \in Agents \ {a} : Rests(b)
  BY <1>0, <1>7 DEF Typed, Attaching, AttachSync, AttachTrust
<1>8. ASSUME NEW a \in Agents, NEW p \in Paths, Edit(a, p)
      PROVE  \A b \in Agents \ {a} : Rests(b)
  BY <1>0, <1>8 DEF Typed, Edit
<1>9. Tick \/ (\E p \in Paths : Drift(p)) \/ UNCHANGED vars => \A b \in Agents : Rests(b)
  BY DEF Tick, Drift
<1> QED
  BY NextCases, <1>1, <1>2, <1>3, <1>4, <1>5, <1>6, <1>7, <1>8, <1>9

-----------------------------------------------------------------------------
(* Types, a group of variables at a time.                                  *)
CommitRecords ==
  [state : {"none", "pending", "materialized", "failed"},
   parent : Ids \cup {None}, change : Changes, home : Agents \cup {None}]
ProposalRecords ==
  [status : {"none", "proposed", "accepted", "rejected"},
   base : Ids \cup {None}, change : Changes]
WorkRecords == [id : Ids \cup {None}, base : Ids \cup {None}, change : Changes]

FilesTyped == source \in Trees /\ truth \in Trees /\ drifts \in 0..MaxDrift
RecordsTyped ==
  /\ head \in Ids \cup {None} /\ accepted \subseteq Ids \X (Ids \cup {None})
  /\ commits \in [Ids -> CommitRecords] /\ proposals \in [Ids -> ProposalRecords]
LocksTyped == locks \subseteq Locks /\ clock \in 0..MaxTime
MachineTyped ==
  /\ edits \in 0..MaxEdits /\ reset \subseteq Agents /\ faults \in 0..MaxFaults
  /\ tree \in [Agents -> Trees] /\ basis \in [Agents -> Trees] /\ trusted \in [Agents -> Trees]
  /\ mount \in [Agents -> Ids \cup {None}] /\ attached \in [Agents -> BOOLEAN]

LEMMA TypeParts ==
  TypeOK <=> /\ FilesTyped /\ RecordsTyped /\ LocksTyped /\ MachineTyped /\ CommandTyped
             /\ events \subseteq EventKinds \X (Ids \cup Agents)
BY DEF TypeOK, FilesTyped, RecordsTyped, LocksTyped, MachineTyped, CommandTyped,
       CommitRecords, ProposalRecords, WorkRecords

(* These steps name a commit or a proposal. *)
WorkNamed ==
  \A a \in Agents :
    step[a] \in {"proposed", "reject", "rejected", "announce", "move", "release", "files", "mark",
                 "decide", "decided", "fail"} => work[a].id \in Ids

LEMMA FilesTypedStep ==
  ASSUME TypeOK, [Next]_vars
  PROVE  FilesTyped'
<1> USE TypeParts, SettingsAssumption DEF FilesTyped, files
<1>1. ASSUME NEW p \in Paths, Drift(p)  PROVE FilesTyped'
  BY <1>1 DEF Drift, Trees
<1>2. ASSUME NEW a \in Agents, MoveHead(a)  PROVE FilesTyped'
  <2>1. work[a].change \in Changes
    BY DEF CommandTyped
  <2> QED
    BY <1>2, <2>1, OverlayTyped DEF MoveHead
<1>3. ASSUME NEW a \in Agents, NEW p \in Paths, Materialize(a, p)  PROVE FilesTyped'
  <2>1. work[a].change.to \in Trees
    BY DEF CommandTyped, Changes
  <2> QED
    BY <1>3, <2>1 DEF Materialize, Trees
<1> QED
  BY FilesKinds, <1>1, <1>2, <1>3

LEMMA RecordsTypedStep ==
  ASSUME TypeOK, WorkNamed, [Next]_vars
  PROVE  RecordsTyped'
<1> USE TypeParts DEF RecordsTyped, records, GoTo, At
<1>0. \A a \in Agents : work[a] \in WorkRecords
  BY DEF CommandTyped, WorkRecords
<1>1. ASSUME NEW a \in Agents, WriteProposal(a)  PROVE RecordsTyped'
  BY <1>0, <1>1 DEF WriteProposal, ProposalRecords, WorkRecords
<1>2. ASSUME NEW a \in Agents, Reject(a) \/ Decide(a)  PROVE RecordsTyped'
  BY <1>0, <1>2 DEF Reject, Decide, SetStatus, ProposalRecords, WorkRecords
<1>3. ASSUME NEW a \in Agents, WriteCommit(a)  PROVE RecordsTyped'
  BY <1>0, <1>3 DEF WriteCommit, CommitRecords, WorkRecords
<1>4. ASSUME NEW a \in Agents, MoveHead(a)  PROVE RecordsTyped'
  BY <1>0, <1>4 DEF MoveHead, CommitRecords, WorkRecords, WorkNamed
<1>5. ASSUME NEW a \in Agents, MarkMaterialized(a) \/ MarkFailed(a)  PROVE RecordsTyped'
  BY <1>0, <1>5 DEF MarkMaterialized, MarkFailed, SetState, CommitRecords, WorkRecords
<1> QED
  BY RecordsKinds, <1>1, <1>2, <1>3, <1>4, <1>5

LEMMA EventsTypedStep ==
  ASSUME TypeOK, WorkNamed, [Next]_vars
  PROVE  events' \subseteq EventKinds \X (Ids \cup Agents)
<1> USE DEF vars, metadata, GoTo, At, Announce, EventKinds
<1>0. events \subseteq EventKinds \X (Ids \cup Agents)
  BY TypeParts
<1>1. ASSUME NEW a \in Agents, Beginning(a) \/ Locking(a)  PROVE UNCHANGED events
  BY <1>1 DEF Beginning, ApplyBegin, ProposeBegin, Begin, RepairBegin, AttachBegin,
              AcceptBegin, RejectBegin, Locking, ReadClock, CreateLock, ListLocks
<1>2. ASSUME NEW a \in Agents, Proposing(a)
      PROVE  events' \subseteq EventKinds \X (Ids \cup Agents)
  BY <1>0, <1>2 DEF Proposing, Stage, StageFails, WriteProposal, AnnounceProposal, Reject,
              AnnounceRejection, WorkNamed
<1>3. ASSUME NEW a \in Agents, Accepting(a)
      PROVE  events' \subseteq EventKinds \X (Ids \cup Agents)
  BY <1>0, <1>3 DEF Accepting, WriteCommit, Refuse, AnnounceCommit, MoveHead, MetadataWriteFails,
              Release, ReleaseRefused, WorkNamed
<1>4. ASSUME NEW a \in Agents, Settling(a)
      PROVE  events' \subseteq EventKinds \X (Ids \cup Agents)
  BY <1>0, <1>4 DEF Settling, Materialize, AnnounceMaterialized, MarkMaterialized,
              MaterializeFails, MarkFailed, WorkNamed
<1>5. ASSUME NEW a \in Agents, Ending(a) \/ Attaching(a)
      PROVE  events' \subseteq EventKinds \X (Ids \cup Agents)
  BY <1>0, <1>5 DEF Ending, Decide, AnnounceDecision, Finish, Crash, Attaching, AttachSync,
              AttachTrust, WorkNamed
<1>6. ASSUME NEW a \in Agents, NEW p \in Paths, Edit(a, p)  PROVE UNCHANGED events
  BY <1>6 DEF Edit
<1>7. (Tick => UNCHANGED events) /\ \A p \in Paths : Drift(p) => UNCHANGED events
  BY DEF Tick, Drift
<1> QED
  BY NextCases, <1>0, <1>1, <1>2, <1>3, <1>4, <1>5, <1>6, <1>7

LEMMA LocksTypedStep ==
  ASSUME TypeOK, [Next]_vars
  PROVE  LocksTyped'
<1> USE TypeParts, SettingsAssumption DEF vars, LocksTyped, CommandTyped
<1>1. ASSUME NEW a \in Agents, Beginning(a) \/ Proposing(a)  PROVE LocksTyped'
  BY <1>1 DEF Beginning, ApplyBegin, ProposeBegin, Begin, RepairBegin, AttachBegin,
              AcceptBegin, RejectBegin, Proposing, Stage, StageFails, WriteProposal,
              AnnounceProposal, Reject, AnnounceRejection
<1>2. ASSUME NEW a \in Agents, Locking(a)  PROVE LocksTyped'
  BY <1>2 DEF Locking, ReadClock, CreateLock, ListLocks
<1>3. ASSUME NEW a \in Agents, Accepting(a)  PROVE LocksTyped'
  BY <1>3 DEF Accepting, WriteCommit, Refuse, AnnounceCommit, MoveHead, MetadataWriteFails,
              Release, ReleaseRefused, Released
<1>4. ASSUME NEW a \in Agents, Settling(a)  PROVE LocksTyped'
  BY <1>4 DEF Settling, Materialize, AnnounceMaterialized, MarkMaterialized,
              MaterializeFails, MarkFailed
<1>5. ASSUME NEW a \in Agents, Ending(a) \/ Attaching(a)  PROVE LocksTyped'
  BY <1>5 DEF Ending, Decide, AnnounceDecision, Finish, Crash, Attaching, AttachSync, AttachTrust
<1>6. ASSUME NEW a \in Agents, NEW p \in Paths, Edit(a, p)  PROVE LocksTyped'
  BY <1>6 DEF Edit
<1>7. (Tick => LocksTyped') /\ \A p \in Paths : Drift(p) => LocksTyped'
  BY DEF Tick, Drift
<1> QED
  BY NextCases, <1>1, <1>2, <1>3, <1>4, <1>5, <1>6, <1>7

LEMMA MachineTypedStep ==
  ASSUME TypeOK, [Next]_vars
  PROVE  MachineTyped'
<1> USE ConstantsTyped, SettingsAssumption DEF vars, machine, MachineTyped
<1>0. MachineTyped /\ source \in Trees
      /\ \A a \in Agents : work[a] \in WorkRecords /\ work[a].id \in Ids \cup {None}
                           /\ work[a].base \in Ids \cup {None}
                           /\ work[a].change \in Changes /\ work[a].change.to \in Trees
  BY TypeParts DEF CommandTyped, FilesTyped, Changes, WorkRecords
<1>1. ASSUME NEW a \in Agents, Beginning(a)  PROVE MachineTyped'
  <2>1. CASE AttachBegin(a)
    <3>1. trusted' = [trusted EXCEPT ![a] = Nothing] /\ reset' = reset \cup {a}
          /\ UNCHANGED <<edits, tree, mount, attached, basis, faults>>
      BY <2>1 DEF AttachBegin
    <3> QED
      BY <3>1, <1>0
  <2>2. CASE ~AttachBegin(a)
    BY <2>2, <1>0, <1>1 DEF Beginning, ApplyBegin, ProposeBegin, Begin, RepairBegin, AcceptBegin,
       RejectBegin
  <2> QED
    BY <2>1, <2>2
<1>2. ASSUME NEW a \in Agents, Proposing(a) \/ Locking(a)  PROVE MachineTyped'
  BY <1>0, <1>2 DEF Proposing, Stage, StageFails, WriteProposal, AnnounceProposal, Reject,
              AnnounceRejection, Locking, ReadClock, CreateLock, ListLocks
<1>3. ASSUME NEW a \in Agents, Accepting(a)  PROVE MachineTyped'
  BY <1>0, <1>3 DEF Accepting, WriteCommit, Refuse, AnnounceCommit, MoveHead,
              MetadataWriteFails, Release, ReleaseRefused, Released, Fault
<1>4. ASSUME NEW a \in Agents, NEW p \in Paths, Materialize(a, p)  PROVE MachineTyped'
  <2>1. work[a].change.to[p] \in Holdings
    BY <1>0 DEF Trees
  <2>2. [trusted[a] EXCEPT ![p] = work[a].change.to[p]] \in Trees
    BY <1>0, <2>1 DEF Trees
  <2> QED
    BY <1>0, <1>4, <2>2 DEF Materialize
<1>5. ASSUME NEW a \in Agents, AnnounceMaterialized(a) \/ MarkMaterialized(a)
                               \/ MaterializeFails(a) \/ MarkFailed(a)
      PROVE  MachineTyped'
  BY <1>0, <1>5 DEF AnnounceMaterialized, MarkMaterialized, MaterializeFails, MarkFailed, Fault
<1>6. ASSUME NEW a \in Agents, Finish(a)  PROVE MachineTyped'
  <2>1. mount' \in [Agents -> Ids \cup {None}]
    BY <1>0, <1>6 DEF Finish, MountMoved
  <2>2. basis' \in [Agents -> Trees]
    BY <1>0, <1>6, OverlayTyped DEF Finish
  <2> QED
    BY <1>0, <1>6, <2>1, <2>2 DEF Finish
<1>7. ASSUME NEW a \in Agents, Decide(a) \/ AnnounceDecision(a) \/ Crash(a)  PROVE MachineTyped'
  BY <1>0, <1>7 DEF Decide, AnnounceDecision, Crash, Fault
<1>8. ASSUME NEW a \in Agents, Attaching(a)  PROVE MachineTyped'
  <2>1. CASE AttachSync(a)
    BY <1>0, <2>1 DEF AttachSync
  <2>2. CASE AttachTrust(a)
    <3>1. /\ tree' \in [Agents -> Trees] /\ basis' \in [Agents -> Trees]
          /\ trusted' \in [Agents -> Trees]
      BY <1>0, <2>2 DEF AttachTrust
    <3>2. mount' \in [Agents -> Ids \cup {None}] /\ attached' \in [Agents -> BOOLEAN]
          /\ reset' \subseteq Agents /\ UNCHANGED <<edits, faults>>
      BY <1>0, <2>2 DEF AttachTrust
    <3> QED
      BY <1>0, <3>1, <3>2
  <2> QED
    BY <1>8, <2>1, <2>2 DEF Attaching
<1>9. ASSUME NEW a \in Agents, NEW p \in Paths, Edit(a, p)  PROVE MachineTyped'
  BY <1>0, <1>9 DEF Edit, Trees
<1>10. (Tick => MachineTyped') /\ \A p \in Paths : Drift(p) => MachineTyped'
  BY <1>0 DEF Tick, Drift
<1> QED
  BY NextCases, <1>0, <1>1, <1>2, <1>3, <1>4, <1>5, <1>6, <1>7, <1>8, <1>9, <1>10 DEF Settling, Ending

(* A step that moves a command to another step of it. *)
LEMMA GoToTyped ==
  ASSUME CommandTyped, NEW a \in Agents, NEW s \in Steps, GoTo(a, s), UNCHANGED doing,
         work' = work \/ (\E w \in WorkRecords : work' = [work EXCEPT ![a] = w]),
         lock' = lock \/ (\E l \in Locks : lock' = [lock EXCEPT ![a] = l]),
         left' = left \/ (\E l \in SUBSET Paths : left' = [left EXCEPT ![a] = l])
  PROVE  CommandTyped'
BY DEF CommandTyped, GoTo, WorkRecords

LEMMA CommandTypedStep ==
  ASSUME TypeOK, WorkNamed, [Next]_vars
  PROVE  CommandTyped'
<1> USE ConstantsTyped, SettingsAssumption DEF vars, command, At
<1>0. /\ CommandTyped /\ source \in Trees /\ \A a \in Agents : tree[a] \in Trees
      /\ head \in Ids \cup {None}
      /\ \A id \in Ids : commits[id].change \in Changes /\ proposals[id].change \in Changes
                         /\ proposals[id].base \in Ids \cup {None}
  BY TypeParts DEF FilesTyped, MachineTyped, RecordsTyped, CommitRecords, ProposalRecords
<1>1. \A a \in Agents : /\ work[a].id \in Ids \cup {None} /\ work[a].base \in Ids \cup {None}
                        /\ work[a].change \in Changes /\ left[a] \in SUBSET Paths
  BY <1>0 DEF CommandTyped
<1>2. \A c \in Changes : Staged(c) \in SUBSET Paths
  BY DEF Staged, Touched
<1>3. \A i \in Ids \cup {None}, b \in Ids \cup {None}, c \in Changes :
        [id |-> i, base |-> b, change |-> c] \in WorkRecords
  BY DEF WorkRecords
<1>4. ASSUME NEW a \in Agents, Beginning(a)  PROVE CommandTyped'
  <2>1. CASE \/ ApplyBegin(a) \/ ProposeBegin(a) \/ AttachBegin(a)
             \/ \E id \in Ids : AcceptBegin(a, id) \/ RejectBegin(a, id)
    <3>1. PICK name \in Commands, s \in Steps, w \in WorkRecords :
             Start(a, name, s, w) /\ UNCHANGED lock /\ UNCHANGED left
      BY <2>1, <1>0, <1>1, <1>3 DEF ApplyBegin, ProposeBegin, Begin, AttachBegin, AcceptBegin,
         RejectBegin, Commands, Steps
    <3> QED
      BY <3>1, StartTyped DEF WorkRecords
  <2>2. CASE RepairBegin(a)
    <3>1. PICK w \in WorkRecords, l \in SUBSET Paths :
             /\ Start(a, "repair", "files", w) /\ UNCHANGED lock
             /\ left' = [left EXCEPT ![a] = l]
      BY <2>2, <1>0, <1>1, <1>2, <1>3 DEF RepairBegin
    <3>2. "repair" \in Commands /\ "files" \in Steps
      BY DEF Commands, Steps
    <3> QED
      BY <3>1, <3>2, StartTyped DEF WorkRecords
  <2> QED
    BY <1>4, <2>1, <2>2 DEF Beginning
<1>5. ASSUME NEW a \in Agents, End(a)  PROVE CommandTyped'
  BY <1>5, EndTyped
<1>6. ASSUME NEW a \in Agents, Proposing(a)  PROVE CommandTyped'
  <2>1. CASE StageFails(a) \/ AnnounceProposal(a) \/ AnnounceRejection(a)
    BY <2>1, <1>5 DEF StageFails, AnnounceProposal, AnnounceRejection
  <2>2. CASE Stage(a)
    <3>1. PICK s \in Steps, w \in WorkRecords :
             GoTo(a, s) /\ UNCHANGED <<doing, lock, left>> /\ work' = [work EXCEPT ![a] = w]
      BY <2>2, <1>0, <1>1, <1>3, ChangeTyped DEF Stage, Steps
    <3> QED
      BY <3>1, <1>0, GoToTyped
  <2>3. CASE WriteProposal(a)
    <3>1. PICK s \in Steps, w \in WorkRecords :
             GoTo(a, s) /\ UNCHANGED <<doing, lock, left>> /\ work' = [work EXCEPT ![a] = w]
      BY <2>3, <1>0, <1>1, <1>3 DEF WriteProposal, Steps
    <3> QED
      BY <3>1, <1>0, GoToTyped
  <2>4. CASE Reject(a)
    BY <2>4, <1>0, GoToTyped DEF Reject, Steps
  <2> QED
    BY <1>6, <2>1, <2>2, <2>3, <2>4 DEF Proposing
<1>7. ASSUME NEW a \in Agents, Locking(a)  PROVE CommandTyped'
  <2>1. CASE ReadClock(a)
    <3>1. PICK l \in Locks :
             GoTo(a, "create") /\ UNCHANGED <<doing, work, left>> /\ lock' = [lock EXCEPT ![a] = l]
      BY <2>1, TypeParts DEF ReadClock, Locks, LocksTyped
    <3> QED
      BY <3>1, <1>0, GoToTyped DEF Steps
  <2>2. CASE CreateLock(a)
    BY <2>2, <1>0, GoToTyped DEF CreateLock, Steps
  <2>3. CASE ListLocks(a)
    BY <2>3, <1>0, <1>5, GoToTyped DEF ListLocks, Steps
  <2> QED
    BY <1>7, <2>1, <2>2, <2>3 DEF Locking
<1>8. ASSUME NEW a \in Agents, Accepting(a)  PROVE CommandTyped'
  <2>1. CASE WriteCommit(a)
    <3>1. PICK w \in WorkRecords :
             /\ GoTo(a, "announce") /\ UNCHANGED <<doing, lock, left>>
             /\ work' = [work EXCEPT ![a] = w]
      BY <2>1, <1>1, <1>3 DEF WriteCommit
    <3> QED
      BY <3>1, <1>0, GoToTyped DEF Steps
  <2>2. CASE Refuse(a) \/ AnnounceCommit(a) \/ MoveHead(a) \/ MetadataWriteFails(a)
    BY <2>2, <1>0, GoToTyped DEF Refuse, AnnounceCommit, MoveHead, MetadataWriteFails, Steps
  <2>3. CASE Release(a)
    BY <2>3, <1>0, <1>1, <1>2, GoToTyped DEF Release, Steps
  <2>4. CASE ReleaseRefused(a)
    BY <2>4, <1>5 DEF ReleaseRefused
  <2> QED
    BY <1>8, <2>1, <2>2, <2>3, <2>4 DEF Accepting
<1>9. ASSUME NEW a \in Agents, Settling(a)  PROVE CommandTyped'
  <2>1. ASSUME NEW p \in Paths, Materialize(a, p)  PROVE CommandTyped'
    BY <2>1, <1>0 DEF Materialize, CommandTyped
  <2>2. CASE AnnounceMaterialized(a) \/ MarkMaterialized(a) \/ MaterializeFails(a)
    BY <2>2, <1>0, GoToTyped DEF AnnounceMaterialized, MarkMaterialized, MaterializeFails, Steps
  <2>3. CASE MarkFailed(a)
    BY <2>3, <1>5 DEF MarkFailed
  <2> QED
    BY <1>9, <2>1, <2>2, <2>3 DEF Settling
<1>10. ASSUME NEW a \in Agents, Ending(a)  PROVE CommandTyped'
  <2>1. CASE Finish(a) \/ Crash(a)
    BY <2>1, <1>5 DEF Finish, Crash
  <2>2. CASE Decide(a) \/ AnnounceDecision(a)
    BY <2>2, <1>0, GoToTyped DEF Decide, AnnounceDecision, Steps
  <2> QED
    BY <1>10, <2>1, <2>2 DEF Ending
<1>11. ASSUME NEW a \in Agents, Attaching(a)  PROVE CommandTyped'
  <2>1. CASE AttachSync(a)
    <3>1. PICK w \in WorkRecords :
             /\ GoTo(a, "trust") /\ UNCHANGED <<doing, lock, left>>
             /\ work' = [work EXCEPT ![a] = w]
      BY <2>1, <1>0, <1>1, <1>3, ChangeTyped DEF AttachSync
    <3> QED
      BY <3>1, <1>0, GoToTyped DEF Steps
  <2>2. CASE AttachTrust(a)
    BY <2>2, <1>5 DEF AttachTrust
  <2> QED
    BY <1>11, <2>1, <2>2 DEF Attaching
<1>12. ASSUME NEW a \in Agents, NEW p \in Paths, Edit(a, p)  PROVE CommandTyped'
  BY <1>0, <1>12 DEF Edit, CommandTyped
<1>13. (Tick => CommandTyped') /\ \A p \in Paths : Drift(p) => CommandTyped'
  BY <1>0 DEF Tick, Drift, CommandTyped
<1>14. UNCHANGED vars => CommandTyped'
  BY <1>0 DEF CommandTyped
<1> QED
  BY NextCases, <1>4, <1>6, <1>7, <1>8, <1>9, <1>10, <1>11, <1>12, <1>13, <1>14

LEMMA WorkNamedStep ==
  ASSUME TypeOK, WorkNamed, [Next]_vars
  PROVE  WorkNamed'
<1> USE DEF vars, command, At, GoTo, Start, End, WorkNamed
<1> DEFINE Typed == /\ step \in [Agents -> Steps] /\ work \in [Agents -> WorkRecords]
<1>0. Typed
  BY TypeParts DEF CommandTyped, WorkRecords
<1> HIDE DEF Typed
<1>1. ASSUME NEW a \in Agents, Beginning(a)  PROVE WorkNamed'
  BY <1>0, <1>1, TypeParts DEF Typed, Beginning, ApplyBegin, ProposeBegin, Begin, RepairBegin,
     AttachBegin, AcceptBegin, RejectBegin, RecordsTyped
<1>2. ASSUME NEW a \in Agents, Proposing(a)  PROVE WorkNamed'
  BY <1>0, <1>2 DEF Typed, Proposing, Stage, StageFails, WriteProposal, AnnounceProposal, Reject,
              AnnounceRejection
<1>3. ASSUME NEW a \in Agents, Locking(a)  PROVE WorkNamed'
  BY <1>0, <1>3 DEF Typed, Locking, ReadClock, CreateLock, ListLocks
<1>4. ASSUME NEW a \in Agents, Accepting(a)  PROVE WorkNamed'
  BY <1>0, <1>4 DEF Typed, Accepting, WriteCommit, Refuse, AnnounceCommit, MoveHead,
              MetadataWriteFails, Release, ReleaseRefused
<1>5. ASSUME NEW a \in Agents, Settling(a)  PROVE WorkNamed'
  BY <1>0, <1>5 DEF Typed, Settling, Materialize, AnnounceMaterialized, MarkMaterialized,
              MaterializeFails, MarkFailed
<1>6. ASSUME NEW a \in Agents, Ending(a) \/ Attaching(a)  PROVE WorkNamed'
  BY <1>0, <1>6 DEF Typed, Ending, Decide, AnnounceDecision, Finish, Crash, Attaching, AttachSync,
              AttachTrust
<1>7. ASSUME NEW a \in Agents, NEW p \in Paths, Edit(a, p)  PROVE WorkNamed'
  BY <1>7 DEF Edit
<1>8. (Tick => WorkNamed') /\ \A p \in Paths : Drift(p) => WorkNamed'
  BY DEF Tick, Drift
<1> QED
  BY NextCases, <1>1, <1>2, <1>3, <1>4, <1>5, <1>6, <1>7, <1>8

LEMMA TypeInitially == Init => TypeOK /\ WorkNamed
<1> SUFFICES ASSUME Init PROVE TypeOK /\ WorkNamed
  OBVIOUS
<1> USE ConstantsTyped, SettingsAssumption
<1>1. FilesTyped /\ LocksTyped /\ events \subseteq EventKinds \X (Ids \cup Agents)
  BY DEF Init, FilesTyped, LocksTyped
<1>2. RecordsTyped
  BY DEF Init, RecordsTyped, CommitRecords, ProposalRecords, NoCommit, NoProposal
<1>3. MachineTyped
  BY DEF Init, MachineTyped
<1>4. CommandTyped
  BY DEF Init, CommandTyped, Commands, Steps
<1>5. WorkNamed
  BY DEF Init, WorkNamed
<1> QED
  BY <1>1, <1>2, <1>3, <1>4, <1>5, TypeParts

LEMMA TypeStep ==
  ASSUME TypeOK, WorkNamed, [Next]_vars
  PROVE  TypeOK' /\ WorkNamed'
<1>1. TypeOK' <=> /\ FilesTyped' /\ RecordsTyped' /\ LocksTyped' /\ MachineTyped' /\ CommandTyped'
                  /\ events' \subseteq EventKinds \X (Ids \cup Agents)
  BY DEF TypeOK, FilesTyped, RecordsTyped, LocksTyped, MachineTyped, CommandTyped,
         CommitRecords, ProposalRecords, WorkRecords
<1> QED
  BY <1>1, FilesTypedStep, RecordsTypedStep, LocksTypedStep, MachineTypedStep, CommandTypedStep,
     EventsTypedStep, WorkNamedStep

(* Every record, lock, row and command always has its type. *)
THEOREM TypeCorrect == Spec => []TypeOK
<1>1. TypeOK /\ WorkNamed /\ [Next]_vars => TypeOK' /\ WorkNamed'
  BY TypeStep
<1> QED
  BY <1>1, TypeInitially, PTL DEF Spec

-----------------------------------------------------------------------------
(* The head lock excludes, when it is taken as Paced says.                 *)

(* Which command each step belongs to, and who runs it. *)
StepsMatch ==
  \A a \in Agents :
    /\ doing[a] = "nothing" <=> step[a] = "idle"
    /\ step[a] = "compare" => doing[a] \in {"apply", "propose"}
    /\ step[a] \in {"propose", "proposed"} => doing[a] = "propose"
    /\ step[a] \in {"reject", "rejected"} => doing[a] = "reject"
    /\ step[a] \in {"sync", "trust"} => doing[a] = "attach"
    /\ step[a] \in {"lock", "create", "list", "check", "announce", "move", "release", "refuse"} =>
         doing[a] \in {"apply", "accept"}
    /\ step[a] \in {"files", "mark", "finish", "fail"} => doing[a] \in {"apply", "accept", "repair"}
    /\ step[a] \in {"decide", "decided"} => doing[a] = "accept"
    /\ doing[a] = "attach" \/ attached[a] => a \in Rooted
    /\ doing[a] = "accept" => a \in Deciders

Unlocked(a) ==
  step[a] \in {"idle", "compare", "propose", "proposed", "reject", "rejected", "lock",
               "sync", "trust"}
Locked(a) == step[a] \in {"create", "list"} \/ Holding(a)

(* A lock record belongs to one command. *)
LocksApart ==
  /\ \A a \in Agents : Unlocked(a) => lock[a] = NoLock
  /\ \A a \in Agents : Locked(a) => lock[a] # NoLock
  /\ \A a, b \in Agents : a # b => lock[a] = NoLock \/ lock[a] # lock[b]

(* Whoever comes to list the records finds the holder's there, alive and   *)
(* older.                                                                  *)
Exclusive ==
  /\ \A a \in Agents : Locked(a) => lock[a].created <= clock /\ clock < lock[a].created + TTL
  /\ \A a \in Agents : step[a] = "list" \/ Holding(a) => lock[a] \in locks
  /\ \A a, b \in Agents : Acquiring(a) /\ Acquiring(b) => a = b
  /\ \A a, b \in Agents : Holding(a) /\ Acquiring(b) => lock[a].created < lock[b].created
  /\ \A a, b \in Agents : Holding(a) /\ Holding(b) => a = b

LEMMA StepsMatchStep ==
  ASSUME TypeOK, StepsMatch, [Next]_vars
  PROVE  StepsMatch'
<1> USE DEF StepsMatch, At, GoTo, Start, End, vars, machine, command
<1> DEFINE Typed == /\ step \in [Agents -> Steps] /\ doing \in [Agents -> Commands]
                    /\ attached \in [Agents -> BOOLEAN]
<1>0. Typed
  BY TypeParts DEF CommandTyped, MachineTyped
<1> HIDE DEF Typed
<1>1. ASSUME NEW a \in Agents, Beginning(a)  PROVE StepsMatch'
  BY <1>0, <1>1 DEF Typed, Beginning, ApplyBegin, ProposeBegin, Begin, RepairBegin,
     AttachBegin, AcceptBegin, RejectBegin
<1>2. ASSUME NEW a \in Agents, Proposing(a)  PROVE StepsMatch'
  BY <1>0, <1>2 DEF Typed, Proposing, Stage, StageFails, WriteProposal, AnnounceProposal, Reject,
              AnnounceRejection
<1>3. ASSUME NEW a \in Agents, Locking(a)  PROVE StepsMatch'
  BY <1>0, <1>3 DEF Typed, Locking, ReadClock, CreateLock, ListLocks
<1>4. ASSUME NEW a \in Agents, Accepting(a)  PROVE StepsMatch'
  BY <1>0, <1>4 DEF Typed, Accepting, WriteCommit, Refuse, AnnounceCommit, MoveHead,
              MetadataWriteFails, Release, ReleaseRefused
<1>5. ASSUME NEW a \in Agents, Settling(a)  PROVE StepsMatch'
  BY <1>0, <1>5 DEF Typed, Settling, Materialize, AnnounceMaterialized, MarkMaterialized,
              MaterializeFails, MarkFailed
<1>6. ASSUME NEW a \in Agents, Ending(a)  PROVE StepsMatch'
  BY <1>0, <1>6 DEF Typed, Ending, Decide, AnnounceDecision, Finish, Crash
<1>7. ASSUME NEW a \in Agents, Attaching(a)  PROVE StepsMatch'
  BY <1>0, <1>7 DEF Typed, Attaching, AttachSync, AttachTrust
<1>8. ASSUME NEW a \in Agents, NEW p \in Paths, Edit(a, p)  PROVE StepsMatch'
  BY <1>8 DEF Edit
<1>9. (Tick => StepsMatch') /\ \A p \in Paths : Drift(p) => StepsMatch'
  BY DEF Tick, Drift
<1> QED
  BY NextCases, <1>1, <1>2, <1>3, <1>4, <1>5, <1>6, <1>7, <1>8, <1>9

LEMMA LocksApartStep ==
  ASSUME TypeOK, StepsMatch, LocksApart, [Next]_vars
  PROVE  LocksApart'
<1> USE DEF LocksApart, Unlocked, Locked, Holding, At, GoTo, Start, End, vars, command
<1> DEFINE Typed == /\ step \in [Agents -> Steps] /\ doing \in [Agents -> Commands]
                    /\ lock \in [Agents -> Locks]
<1>0. Typed
  BY TypeParts DEF CommandTyped
<1>t. \A a \in Agents : doing[a] = "nothing" => step[a] = "idle"
  BY DEF StepsMatch
<1> HIDE DEF Typed
<1>1. ASSUME NEW a \in Agents, Beginning(a)  PROVE LocksApart'
  BY <1>0, <1>1, <1>t DEF Typed, Beginning, ApplyBegin, ProposeBegin, Begin, RepairBegin,
     AttachBegin, AcceptBegin, RejectBegin
<1>2. ASSUME NEW a \in Agents, Proposing(a)  PROVE LocksApart'
  BY <1>0, <1>2 DEF Typed, Proposing, Stage, StageFails, WriteProposal, AnnounceProposal, Reject,
              AnnounceRejection
<1>3. ASSUME NEW a \in Agents, Locking(a)  PROVE LocksApart'
  <2>1. CASE ReadClock(a)
    <3>1. PICK t \in Tokens : /\ ~Used(t)
                              /\ lock' = [lock EXCEPT ![a] = [token |-> t, created |-> clock]]
      BY <2>1 DEF ReadClock
    <3>2. lock[a] = NoLock /\ t # 0 /\ \A b \in Agents : lock[b].token # t
      BY <2>1, <3>1 DEF ReadClock, Used, NoLock
    <3> DEFINE new == [token |-> t, created |-> clock]
    <3>3. new # NoLock /\ \A b \in Agents : lock[b] # new
      BY <3>2 DEF NoLock
    <3>4. lock' = [lock EXCEPT ![a] = new] /\ step' = [step EXCEPT ![a] = "create"]
      BY <2>1, <3>1 DEF ReadClock
    <3> HIDE DEF new
    <3> QED
      BY <1>0, <3>3, <3>4 DEF Typed
  <2>2. CASE CreateLock(a) \/ ListLocks(a)
    BY <1>0, <2>2 DEF Typed, CreateLock, ListLocks
  <2> QED
    BY <1>3, <2>1, <2>2 DEF Locking
<1>4. ASSUME NEW a \in Agents, Accepting(a)  PROVE LocksApart'
  BY <1>0, <1>4 DEF Typed, Accepting, WriteCommit, Refuse, AnnounceCommit, MoveHead,
              MetadataWriteFails, Release, ReleaseRefused
<1>5. ASSUME NEW a \in Agents, Settling(a)  PROVE LocksApart'
  BY <1>0, <1>5 DEF Typed, Settling, Materialize, AnnounceMaterialized, MarkMaterialized,
              MaterializeFails, MarkFailed
<1>6. ASSUME NEW a \in Agents, Ending(a)  PROVE LocksApart'
  BY <1>0, <1>6 DEF Typed, Ending, Decide, AnnounceDecision, Finish, Crash
<1>7. ASSUME NEW a \in Agents, Attaching(a)  PROVE LocksApart'
  BY <1>0, <1>7 DEF Typed, Attaching, AttachSync, AttachTrust
<1>8. ASSUME NEW a \in Agents, NEW p \in Paths, Edit(a, p)  PROVE LocksApart'
  BY <1>8 DEF Edit
<1>9. (Tick => LocksApart') /\ \A p \in Paths : Drift(p) => LocksApart'
  BY DEF Tick, Drift
<1> QED
  BY NextCases, <1>1, <1>2, <1>3, <1>4, <1>5, <1>6, <1>7, <1>8, <1>9

LEMMA ExclusiveStep ==
  ASSUME Paced, TypeOK, StepsMatch, LocksApart, Exclusive, [Next]_vars
  PROVE  Exclusive'
<1> USE SettingsAssumption
<1> USE DEF Exclusive, Locked, Acquiring, Holding, At, GoTo, Start, End, vars, command
<1> DEFINE Typed == /\ step \in [Agents -> Steps] /\ doing \in [Agents -> Commands]
                    /\ lock \in [Agents -> Locks]
<1>0. Typed /\ clock \in Nat /\ \A a \in Agents : lock[a].created \in Nat
  BY TypeParts DEF CommandTyped, LocksTyped, Locks
<1>l. \A a, b \in Agents : a # b /\ Locked(a) => lock[b] # lock[a]
  BY DEF LocksApart
<1> HIDE DEF Typed
<1>1. ASSUME NEW a \in Agents, Beginning(a)  PROVE Exclusive'
  <2>1. \A b \in Agents \ {a} : step'[b] = step[b]
    BY <1>0, <1>1 DEF Typed, Beginning, ApplyBegin, ProposeBegin, Begin, RepairBegin,
       AttachBegin, AcceptBegin, RejectBegin
  <2>2. step'[a] \in {"compare", "files", "sync", "lock", "reject"}
    BY <1>0, <1>1 DEF Typed, Beginning, ApplyBegin, ProposeBegin, Begin, RepairBegin,
       AttachBegin, AcceptBegin, RejectBegin
  <2>3. UNCHANGED <<lock, locks, clock>>
    BY <1>1 DEF Beginning, ApplyBegin, ProposeBegin, Begin, RepairBegin,
       AttachBegin, AcceptBegin, RejectBegin
  <2> QED
    BY <2>1, <2>2, <2>3
<1>2. ASSUME NEW a \in Agents, Proposing(a)  PROVE Exclusive'
  BY <1>0, <1>2 DEF Typed, Proposing, Stage, StageFails, WriteProposal, AnnounceProposal, Reject,
              AnnounceRejection
<1>3. ASSUME NEW a \in Agents, Locking(a)  PROVE Exclusive'
  <2>1. CASE ReadClock(a)
    <3>1. PICK t \in Tokens : lock' = [lock EXCEPT ![a] = [token |-> t, created |-> clock]]
      BY <2>1 DEF ReadClock
    <3>2. /\ step' = [step EXCEPT ![a] = "create"] /\ UNCHANGED <<locks, clock>>
          /\ \A b \in Agents : ~Acquiring(b)
          /\ \A l \in locks : l.created # clock
      BY <2>1 DEF ReadClock
    <3>3. lock'[a].created = clock /\ \A b \in Agents \ {a} : lock'[b] = lock[b]
      BY <1>0, <3>1 DEF Typed
    <3>4. step'[a] = "create" /\ \A b \in Agents \ {a} : step'[b] = step[b]
      BY <1>0, <3>2 DEF Typed
    <3>5. \A b \in Agents : Holding(b) => lock[b].created < clock
      BY <1>0, <3>2
    <3>6. clock < clock + TTL
      BY <1>0
    <3> QED
      BY <1>0, <3>2, <3>3, <3>4, <3>5, <3>6
  <2>2. CASE CreateLock(a)
    BY <1>0, <2>2 DEF Typed, CreateLock
  <2>3. CASE ListLocks(a)
    <3>1. CASE IsFirst(lock[a]) /\ GoTo(a, "check") /\ UNCHANGED <<locks, lock, clock>>
      <4>1. \A b \in Agents : ~Holding(b)
        <5> SUFFICES ASSUME NEW b \in Agents, Holding(b)  PROVE FALSE
          OBVIOUS
        <5>1. lock[b] \in locks /\ lock[b].created < lock[a].created
              /\ lock[a].created < lock[b].created + TTL
          BY <1>0, <2>3 DEF ListLocks
        <5> QED
          BY <3>1, <5>1 DEF IsFirst, Alive, Before
      <4> QED
        BY <1>0, <2>3, <3>1, <4>1 DEF Typed, ListLocks
    <3>2. CASE locks' = locks \ {lock[a]} /\ End(a) /\ UNCHANGED clock
      <4>1. step'[a] = "idle" /\ \A b \in Agents \ {a} : step'[b] = step[b] /\ lock'[b] = lock[b]
        BY <1>0, <3>2 DEF Typed
      <4> QED
        BY <3>2, <4>1, <1>l
    <3> QED
      BY <2>3, <3>1, <3>2 DEF ListLocks
  <2> QED
    BY <1>3, <2>1, <2>2, <2>3 DEF Locking
<1>4. ASSUME NEW a \in Agents, Accepting(a)  PROVE Exclusive'
  <2>1. CASE Release(a) \/ ReleaseRefused(a)
    <3>1. step'[a] \in {"files", "idle"}
          /\ \A b \in Agents \ {a} : step'[b] = step[b] /\ lock'[b] = lock[b]
      BY <1>0, <2>1 DEF Typed, Release, ReleaseRefused
    <3>2. UNCHANGED clock /\ locks \ {lock[a]} \subseteq locks'
      BY <2>1 DEF Release, ReleaseRefused, Released
    <3> QED
      BY <3>1, <3>2, <1>l
  <2>2. CASE ~(Release(a) \/ ReleaseRefused(a))
    BY <1>0, <1>4, <2>2 DEF Typed, Accepting, WriteCommit, Refuse, AnnounceCommit, MoveHead,
       MetadataWriteFails
  <2> QED
    BY <2>1, <2>2
<1>5. ASSUME NEW a \in Agents, Settling(a)  PROVE Exclusive'
  BY <1>0, <1>5 DEF Typed, Settling, Materialize, AnnounceMaterialized, MarkMaterialized,
              MaterializeFails, MarkFailed
<1>6. ASSUME NEW a \in Agents, Ending(a)  PROVE Exclusive'
  <2>1. CASE Finish(a)
    <3>1. step'[a] = "idle" /\ \A b \in Agents \ {a} : step'[b] = step[b] /\ lock'[b] = lock[b]
      BY <1>0, <2>1 DEF Typed, Finish
    <3>2. UNCHANGED clock /\ locks' = locks \ {lock[a]}
      BY <2>1 DEF Finish
    <3> QED
      BY <3>1, <3>2, <1>l
  <2>2. CASE Decide(a) \/ AnnounceDecision(a) \/ Crash(a)
    BY <1>0, <2>2 DEF Typed, Decide, AnnounceDecision, Crash
  <2> QED
    BY <1>6, <2>1, <2>2 DEF Ending
<1>7. ASSUME NEW a \in Agents, Attaching(a)  PROVE Exclusive'
  BY <1>0, <1>7 DEF Typed, Attaching, AttachSync, AttachTrust
<1>8. ASSUME NEW a \in Agents, NEW p \in Paths, Edit(a, p)  PROVE Exclusive'
  BY <1>8 DEF Edit
<1>9. (Tick => Exclusive') /\ \A p \in Paths : Drift(p) => Exclusive'
  BY <1>0 DEF Tick, Drift
<1> QED
  BY NextCases, <1>1, <1>2, <1>3, <1>4, <1>5, <1>6, <1>7, <1>8, <1>9

-----------------------------------------------------------------------------
(* CommitLog: the accepted commits form one line.                          *)
Accepted == {entry[1] : entry \in accepted}

(* What makes NoFork inductive: the head is the one commit that nobody has *)
(* as parent yet, and parents are accepted before their children.          *)
LineOK ==
  /\ head = None => accepted = {}
  /\ head # None => head \in Accepted
  /\ \A entry \in accepted : entry[2] = None \/ entry[2] \in Accepted
  /\ \A entry \in accepted : entry[2] # head
  /\ Log!NoFork
  /\ Log!OnlyHeadUnsettled

LEMMA AcceptedGrows ==
  ASSUME NEW c, NEW d, accepted' = accepted \cup {<<c, d>>}
  PROVE  Accepted' = Accepted \cup {c}
<1>1. ASSUME NEW e \in Accepted'  PROVE e \in Accepted \cup {c}
  <2>1. PICK entry \in accepted' : e = entry[1]
    BY DEF Accepted
  <2> QED
    BY <2>1 DEF Accepted
<1>2. ASSUME NEW e \in Accepted  PROVE e \in Accepted'
  <2>1. PICK entry \in accepted : e = entry[1]
    BY DEF Accepted
  <2> QED
    BY <2>1 DEF Accepted
<1>3. c \in Accepted'
  <2>1. <<c, d>> \in accepted' /\ <<c, d>>[1] = c
    OBVIOUS
  <2> QED
    BY <2>1 DEF Accepted
<1> QED
  BY <1>1, <1>2, <1>3

(* Every step of CommitLog keeps the line of commits a line. *)
LEMMA LineStep ==
  ASSUME TypeOK, LineOK, [Log!Next]_(Log!vars)
  PROVE  LineOK'
<1> USE ConstantsTyped DEF LineOK, Log!NoFork, Log!OnlyHeadUnsettled
<1> DEFINE settled == {id \in Ids : commits[id].state = "materialized"}
<1>0. head \in Ids \cup {None} /\ accepted \subseteq Ids \X (Ids \cup {None})
  BY DEF TypeOK
<1>t. Log!Accepted = Accepted /\ Log!Accepted' = Accepted'
  BY DEF Accepted, Log!Accepted
<1>1. ASSUME NEW c \in Ids, Log!Accept(c)  PROVE LineOK'
  <2>1. /\ accepted' = accepted \cup {<<c, head>>} /\ head' = c /\ settled' = settled
        /\ c \notin Accepted /\ (head = None \/ head \in settled)
    BY <1>1, <1>t DEF Log!Accept
  <2>2. Accepted' = Accepted \cup {c}
    BY <2>1, AcceptedGrows
  <2> HIDE DEF settled
  <2>3. head' # None /\ head' \in Accepted'
    BY <2>1, <2>2
  <2>4. \A entry \in accepted' : entry[2] = None \/ entry[2] \in Accepted'
    BY <2>1, <2>2
  <2>5. \A entry \in accepted' : entry[2] # head'
    BY <1>0, <2>1, <2>2
  <2>6. Log!NoFork'
    BY <1>0, <2>1
  <2>7. Log!OnlyHeadUnsettled'
    <3>1. Accepted \subseteq settled \cup {head}
      BY <1>t DEF settled
    <3>2. Accepted' \subseteq settled' \cup {head'}
      <4>1. CASE head = None
        BY <4>1, <2>1, <2>2 DEF Accepted
      <4>2. CASE head # None
        BY <4>2, <2>1, <2>2, <3>1
      <4> QED
        BY <4>1, <4>2
    <3> QED
      BY <1>t, <3>2 DEF settled
  <2> QED
    BY <2>3, <2>4, <2>5, <2>6, <2>7
<1>2. CASE Log!Settle
  <2>1. settled' = settled \cup {head} /\ UNCHANGED <<accepted, head>> /\ Accepted' = Accepted
    BY <1>2 DEF Log!Settle, Accepted
  <2>2. Accepted \subseteq settled \cup {head}
    BY <1>t
  <2> HIDE DEF settled
  <2>3. Accepted' \subseteq settled' \cup {head'}
    BY <2>1, <2>2
  <2> QED
    BY <2>1, <2>3, <1>t DEF settled
<1>3. CASE UNCHANGED Log!vars
  <2>1. settled' = settled /\ UNCHANGED <<accepted, head>> /\ Accepted' = Accepted
    BY <1>3 DEF Log!vars, Accepted
  <2> QED
    BY <2>1, <1>t
<1> QED
  BY <1>1, <1>2, <1>3 DEF Log!Next

-----------------------------------------------------------------------------
(* The records behind the line, and what the commands know of them.        *)

(* A commit whose files were written, or were begun to be, was accepted;   *)
(* an accepted commit has a record that names its parent; and a proposal   *)
(* and the commit of the same id are of one change on one base.            *)
RecordsOK ==
  /\ \A id \in Ids : commits[id].state \in {"materialized", "failed"} => id \in Accepted
  /\ \A entry \in accepted :
       commits[entry[1]] # NoCommit /\ commits[entry[1]].parent = entry[2]
  /\ \A id \in Ids : commits[id] # NoCommit /\ proposals[id] # NoProposal =>
       /\ commits[id].parent = proposals[id].base
       /\ commits[id].change = proposals[id].change

(* What a command works on is what the records say. *)
WorkOf(a) ==
  /\ doing[a] = "accept" \/ step[a] = "proposed" =>
       /\ work[a].id \in Ids /\ proposals[work[a].id] # NoProposal
       /\ work[a].base = proposals[work[a].id].base
       /\ work[a].change = proposals[work[a].id].change
  /\ doing[a] = "reject" =>
       work[a].id \in Ids /\ proposals[work[a].id] # NoProposal /\ work[a].change = NoChange
  /\ doing[a] \in {"nothing", "attach"} \/ step[a] \in {"compare", "propose"} => work[a].id = None
  /\ doing[a] \in {"apply", "repair"} /\ work[a].id # None =>
       commits[work[a].id] # NoCommit /\ commits[work[a].id].change = work[a].change
WorkOK == \A a \in Agents : WorkOf(a)

Owner(a) == IF doing[a] = "accept" THEN None ELSE a

(* A commit about to become the head is a new one, on top of a head whose  *)
(* files are in the source.                                                *)
MovesOf(a) ==
  step[a] \in {"announce", "move"} =>
    /\ HeadMaterialized /\ work[a].base = head
    /\ work[a].id \in Ids /\ work[a].id \notin Accepted
    /\ commits[work[a].id] = [state |-> "pending", parent |-> head,
                              change |-> work[a].change, home |-> Owner(a)]
MovesOK == \A a \in Agents : MovesOf(a)

Materializing(a) == step[a] \in {"release", "files", "mark", "fail"}

(* One command at a time materializes, and it is the head that it          *)
(* materializes.                                                           *)
MaterializingOf(a) ==
  /\ Materializing(a) =>
       /\ head # None /\ work[a].id = head /\ ~HeadMaterialized
       /\ commits[head].change = work[a].change /\ commits[head].home = Owner(a)
  /\ step[a] \in {"decide", "decided", "finish"} =>
       work[a].id \in Ids /\ commits[work[a].id].state = "materialized"
MaterializingOK ==
  /\ \A a \in Agents : MaterializingOf(a)
  /\ \A a, b \in Agents : Materializing(a) /\ Materializing(b) => a = b

Governance ==
  StepsMatch /\ LineOK /\ RecordsOK /\ WorkOK /\ MovesOK /\ MaterializingOK

LEMMA WriteCommitFacts ==
  ASSUME TypeOK, Governance, NEW a \in Agents, WriteCommit(a)
  PROVE  \E id \in Ids :
           /\ id \notin Accepted /\ HeadMaterialized /\ work[a].base = head
           /\ IF doing[a] = "accept" THEN id = work[a].id ELSE Unused(id)
           /\ commits' = [commits EXCEPT ![id] =
                [state |-> "pending", parent |-> head, change |-> work[a].change,
                 home |-> Owner(a)]]
           /\ work' = [work EXCEPT ![a] =
                [id |-> id, base |-> work[a].base, change |-> work[a].change]]
<1>1. PICK id \in Ids :
        /\ IF doing[a] = "accept" THEN id = work[a].id ELSE Unused(id)
        /\ commits' = [commits EXCEPT ![id] =
             [state |-> "pending", parent |-> head, change |-> work[a].change, home |-> Owner(a)]]
        /\ work' = [work EXCEPT ![a] =
             [id |-> id, base |-> work[a].base, change |-> work[a].change]]
  BY DEF WriteCommit, Owner
<1>2. HeadMaterialized /\ work[a].base = head
  BY DEF WriteCommit, CanAccept
<1>3. id \notin Accepted
  <2> SUFFICES ASSUME id \in Accepted  PROVE FALSE
    OBVIOUS
  <2>1. PICK entry \in accepted : id = entry[1]
    BY DEF Accepted
  <2>2. commits[id] # NoCommit /\ commits[id].parent # head
    BY <2>1 DEF Governance, RecordsOK, LineOK
  <2>3. doing[a] = "accept" /\ id = work[a].id
    BY <1>1, <2>2 DEF Unused
  <2> QED
    BY <1>2, <2>2, <2>3 DEF Governance, WorkOf, WorkOK, RecordsOK
<1> QED
  BY <1>1, <1>2, <1>3

LEMMA MoveHeadFacts ==
  ASSUME TypeOK, Governance, NEW a \in Agents, MoveHead(a)
  PROVE  /\ head' = work[a].id /\ head' \in Ids /\ head' \notin Accepted /\ HeadMaterialized
         /\ commits[head'] = [state |-> "pending", parent |-> head, change |-> work[a].change,
                              home |-> Owner(a)]
         /\ accepted' = accepted \cup {<<head', head>>} /\ Accepted' = Accepted \cup {head'}
         /\ work[a].base = head /\ UNCHANGED <<commits, proposals, work>>
         /\ step' = [step EXCEPT ![a] = "release"]
<1>1. /\ head' = work[a].id /\ head' \in Ids /\ head' \notin Accepted /\ HeadMaterialized
      /\ commits[head'] = [state |-> "pending", parent |-> head, change |-> work[a].change,
                           home |-> Owner(a)]
      /\ work[a].base = head
  BY DEF MoveHead, At, Governance, MovesOf, MovesOK
<1>2. accepted' = accepted \cup {<<head', head>>} /\ UNCHANGED <<commits, proposals, work>>
      /\ step' = [step EXCEPT ![a] = "release"]
  BY <1>1 DEF MoveHead, GoTo
<1> QED
  BY <1>1, <1>2, AcceptedGrows

LEMMA MarkFacts ==
  ASSUME TypeOK, Governance, NEW a \in Agents, MarkMaterialized(a) \/ MarkFailed(a)
  PROVE  /\ head \in Ids /\ head = work[a].id /\ head \in Accepted /\ ~HeadMaterialized
         /\ Materializing(a)
         /\ \E s \in {"materialized", "failed"} :
              /\ s = "materialized" <=> MarkMaterialized(a)
              /\ commits' = [commits EXCEPT ![head] =
                   [state |-> s, parent |-> commits[head].parent,
                    change |-> commits[head].change, home |-> commits[head].home]]
<1>1. Materializing(a)
  BY DEF MarkMaterialized, MarkFailed, At, Materializing
<1>2. head \in Ids /\ head = work[a].id /\ head \in Accepted /\ ~HeadMaterialized
  BY <1>1 DEF Governance, MaterializingOf, MaterializingOK, LineOK, TypeOK
<1>3. CASE MarkMaterialized(a)
  BY <1>1, <1>2, <1>3 DEF MarkMaterialized, SetState
<1>4. CASE ~MarkMaterialized(a)
  BY <1>1, <1>2, <1>4 DEF MarkFailed, SetState
<1> QED
  BY <1>1, <1>2, <1>3, <1>4

(* Proposals keep their base and change from when they are written. *)
LEMMA ProposalFacts ==
  ASSUME TypeOK, Governance, NEW a \in Agents, WriteProposal(a) \/ Reject(a) \/ Decide(a)
  PROVE  /\ UNCHANGED <<head, commits, accepted>>
         /\ \E id \in Ids :
              /\ proposals'[id] # NoProposal
              /\ \A other \in Ids \ {id} : proposals'[other] = proposals[other]
              /\ \/ /\ WriteProposal(a) /\ Unused(id) /\ work'[a].id = id
                    /\ work'[a].base = work[a].base /\ work'[a].change = work[a].change
                    /\ proposals'[id].base = work[a].base /\ proposals'[id].change = work[a].change
                 \/ /\ ~WriteProposal(a) /\ proposals[id] # NoProposal /\ UNCHANGED work
                    /\ proposals'[id].base = proposals[id].base
                    /\ proposals'[id].change = proposals[id].change
<1>0. proposals \in [Ids -> ProposalRecords] /\ work \in [Agents -> WorkRecords]
  BY TypeParts DEF RecordsTyped, CommandTyped, WorkRecords
<1>1. CASE WriteProposal(a)
  <2>1. PICK id \in Ids :
          /\ Unused(id)
          /\ proposals' = [proposals EXCEPT ![id] =
               [status |-> "proposed", base |-> work[a].base, change |-> work[a].change]]
          /\ work' = [work EXCEPT ![a] =
               [id |-> id, base |-> work[a].base, change |-> work[a].change]]
    BY <1>1 DEF WriteProposal
  <2> DEFINE new == [status |-> "proposed", base |-> work[a].base, change |-> work[a].change]
  <2>2. new # NoProposal /\ new.base = work[a].base /\ new.change = work[a].change
    BY DEF NoProposal
  <2>3. proposals'[id] = new /\ \A other \in Ids \ {id} : proposals'[other] = proposals[other]
    BY <1>0, <2>1
  <2>4. work'[a] = [id |-> id, base |-> work[a].base, change |-> work[a].change]
    BY <1>0, <2>1
  <2>5. UNCHANGED <<head, commits, accepted>>
    BY <1>1 DEF WriteProposal
  <2> HIDE DEF new
  <2> QED
    BY <1>1, <2>1, <2>2, <2>3, <2>4, <2>5
<1>2. CASE ~WriteProposal(a)
  <2>1. work[a].id \in Ids /\ proposals[work[a].id] # NoProposal /\ UNCHANGED work
    BY <1>2 DEF Reject, Decide, At, Governance, StepsMatch, WorkOf, WorkOK
  <2>2. PICK s \in {"accepted", "rejected"} :
          proposals' = [proposals EXCEPT ![work[a].id] =
            [status |-> s, base |-> proposals[work[a].id].base,
             change |-> proposals[work[a].id].change]]
    BY <1>2 DEF Reject, Decide, SetStatus
  <2>3. proposals'[work[a].id] = [status |-> s, base |-> proposals[work[a].id].base,
                                  change |-> proposals[work[a].id].change]
        /\ \A other \in Ids \ {work[a].id} : proposals'[other] = proposals[other]
    BY <1>0, <2>1, <2>2
  <2>4. proposals'[work[a].id] # NoProposal
    BY <2>3 DEF NoProposal
  <2>5. UNCHANGED <<head, commits, accepted>>
    BY <1>2 DEF Reject, Decide
  <2> QED
    BY <1>2, <2>1, <2>3, <2>4, <2>5
<1> QED
  BY <1>1, <1>2

LEMMA RecordsStep ==
  ASSUME TypeOK, Governance, [Next]_vars
  PROVE  RecordsOK'
<1> USE DEF RecordsOK
<1>0. RecordsOK /\ commits \in [Ids -> CommitRecords] /\ accepted \subseteq Ids \X (Ids \cup {None})
      /\ \A id \in Accepted : id \in Ids
  BY TypeParts DEF Governance, RecordsTyped, Accepted
<1>p. \A entry \in accepted : entry[1] \in Accepted
  BY DEF Accepted
<1>1. CASE UNCHANGED records
  BY <1>0, <1>1 DEF records, Accepted
<1>2. ASSUME NEW a \in Agents, WriteProposal(a) \/ Reject(a) \/ Decide(a)  PROVE RecordsOK'
  <2>1. Accepted' = Accepted
    BY <1>2, ProposalFacts DEF Accepted
  <2> QED
    BY <1>0, <1>2, <2>1, ProposalFacts DEF Unused
<1>3. ASSUME NEW a \in Agents, WriteCommit(a)  PROVE RecordsOK'
  <2>1. UNCHANGED <<head, accepted, proposals>> /\ Accepted' = Accepted
    BY <1>3 DEF WriteCommit, Accepted
  <2>2. PICK id \in Ids :
           /\ id \notin Accepted /\ work[a].base = head
           /\ IF doing[a] = "accept" THEN id = work[a].id ELSE Unused(id)
           /\ commits' = [commits EXCEPT ![id] =
                [state |-> "pending", parent |-> head, change |-> work[a].change,
                 home |-> Owner(a)]]
    BY <1>3, WriteCommitFacts
  <2>3. /\ commits'[id] = [state |-> "pending", parent |-> head, change |-> work[a].change,
                           home |-> Owner(a)]
        /\ \A other \in Ids \ {id} : commits'[other] = commits[other]
    BY <1>0, <2>2
  <2>4. proposals[id] # NoProposal =>
          proposals[id].base = head /\ proposals[id].change = work[a].change
    BY <2>2 DEF Governance, WorkOf, WorkOK, Unused
  <2> QED
    BY <1>0, <1>p, <2>1, <2>2, <2>3, <2>4
<1>4. ASSUME NEW a \in Agents, MoveHead(a)  PROVE RecordsOK'
  <2> DEFINE id == work[a].id
  <2>1. /\ id \in Ids /\ id \notin Accepted /\ UNCHANGED <<commits, proposals>>
        /\ commits[id] = [state |-> "pending", parent |-> head, change |-> work[a].change,
                          home |-> Owner(a)]
        /\ accepted' = accepted \cup {<<id, head>>} /\ Accepted' = Accepted \cup {id}
    BY <1>4, MoveHeadFacts
  <2> HIDE DEF id
  <2>2. commits[id].state = "pending" /\ commits[id].parent = head
    BY <2>1
  <2>3. commits[id] # NoCommit
    BY <2>2 DEF NoCommit
  <2> QED
    BY <1>0, <2>1, <2>2, <2>3
<1>5. ASSUME NEW a \in Agents, MarkMaterialized(a) \/ MarkFailed(a)  PROVE RecordsOK'
  <2>1. UNCHANGED <<head, accepted, proposals>> /\ Accepted' = Accepted
    BY <1>5 DEF MarkMaterialized, MarkFailed, Accepted
  <2>2. PICK s \in {"materialized", "failed"} :
           commits' = [commits EXCEPT ![head] =
             [state |-> s, parent |-> commits[head].parent,
              change |-> commits[head].change, home |-> commits[head].home]]
    BY <1>5, MarkFacts
  <2>3. head \in Ids /\ head \in Accepted
    BY <1>5, MarkFacts
  <2>4. /\ commits'[head] = [state |-> s, parent |-> commits[head].parent,
                             change |-> commits[head].change, home |-> commits[head].home]
        /\ \A other \in Ids \ {head} : commits'[other] = commits[other]
    BY <1>0, <2>2, <2>3
  <2>5. commits'[head] # NoCommit /\ commits[head] # NoCommit
    <3>1. PICK entry \in accepted : head = entry[1]
      BY <2>3 DEF Accepted
    <3> QED
      BY <1>0, <2>4, <3>1 DEF NoCommit
  <2> QED
    BY <1>0, <2>1, <2>3, <2>4, <2>5
<1> QED
  BY RecordsKinds, <1>1, <1>2, <1>3, <1>4, <1>5

(* A record changes only as the commands that know of it expect. *)
LEMMA WorkKept ==
  ASSUME TypeOK, Governance, [Next]_vars, NEW b \in Agents, Rests(b)
  PROVE  WorkOf(b)'
<1>0. WorkOf(b) /\ RecordsOK /\ commits \in [Ids -> CommitRecords] /\ work[b] \in WorkRecords
  BY TypeParts DEF Governance, WorkOK, RecordsTyped, CommandTyped, WorkRecords
<1> USE DEF WorkOf, Rests
<1>1. CASE UNCHANGED records
  BY <1>0, <1>1 DEF records
<1>2. ASSUME NEW a \in Agents, WriteProposal(a) \/ Reject(a) \/ Decide(a)  PROVE WorkOf(b)'
  BY <1>0, <1>2, ProposalFacts DEF Unused
<1>3. ASSUME NEW a \in Agents, WriteCommit(a)  PROVE WorkOf(b)'
  <2>1. UNCHANGED proposals
    BY <1>3 DEF WriteCommit
  <2>2. PICK id \in Ids :
           /\ work[a].base = head
           /\ IF doing[a] = "accept" THEN id = work[a].id ELSE Unused(id)
           /\ commits' = [commits EXCEPT ![id] =
                [state |-> "pending", parent |-> head, change |-> work[a].change,
                 home |-> Owner(a)]]
    BY <1>3, WriteCommitFacts
  <2>3. /\ commits'[id].state = "pending" /\ commits'[id].change = work[a].change
        /\ \A other \in Ids \ {id} : commits'[other] = commits[other]
    BY <1>0, <2>2
  <2>4. commits'[id] # NoCommit
    BY <2>3 DEF NoCommit
  <2>5. commits[id] # NoCommit => commits[id].change = work[a].change
    BY <2>2, <1>0 DEF Governance, WorkOK, Unused, RecordsOK
  <2> QED
    BY <1>0, <2>1, <2>3, <2>4, <2>5 DEF WorkRecords
<1>4. ASSUME NEW a \in Agents, MoveHead(a)  PROVE WorkOf(b)'
  BY <1>0, <1>4, MoveHeadFacts
<1>5. ASSUME NEW a \in Agents, MarkMaterialized(a) \/ MarkFailed(a)  PROVE WorkOf(b)'
  <2>1. UNCHANGED proposals
    BY <1>5 DEF MarkMaterialized, MarkFailed
  <2>2. PICK s \in {"materialized", "failed"} :
           commits' = [commits EXCEPT ![head] =
             [state |-> s, parent |-> commits[head].parent,
              change |-> commits[head].change, home |-> commits[head].home]]
    BY <1>5, MarkFacts
  <2>3. head \in Ids
    BY <1>5, MarkFacts
  <2>4. /\ commits'[head].state = s /\ commits'[head].change = commits[head].change
        /\ \A other \in Ids \ {head} : commits'[other] = commits[other]
    BY <1>0, <2>2, <2>3
  <2>5. commits'[head] # NoCommit
    BY <2>4 DEF NoCommit
  <2> QED
    BY <1>0, <2>1, <2>4, <2>5 DEF WorkRecords
<1> QED
  BY RecordsKinds, <1>1, <1>2, <1>3, <1>4, <1>5

LEMMA WorkStep ==
  ASSUME TypeOK, Governance, [Next]_vars
  PROVE  WorkOK'
<1> USE DEF WorkOf, At, GoTo, Start, End, NoWork, command
<1> DEFINE Typed == /\ step \in [Agents -> Steps] /\ doing \in [Agents -> Commands]
                    /\ work \in [Agents -> WorkRecords]
<1>0. Typed /\ commits \in [Ids -> CommitRecords] /\ head \in Ids \cup {None}
      /\ (\A b \in Agents : WorkOf(b)) /\ StepsMatch
  BY TypeParts DEF CommandTyped, WorkRecords, RecordsTyped, Governance, WorkOK
<1> HIDE DEF Typed
<1>1. ASSUME NEW a \in Agents, Beginning(a)  PROVE WorkOf(a)'
  <2>1. CASE ApplyBegin(a) \/ ProposeBegin(a)
    BY <1>0, <2>1 DEF Typed, ApplyBegin, ProposeBegin, Begin
  <2>2. CASE RepairBegin(a)
    <3>1. /\ doing'[a] = "repair" /\ step'[a] = "files" /\ work'[a].id = head
          /\ work'[a].change = commits[head].change
          /\ UNCHANGED commits /\ commits[head].state \in {"pending", "failed"}
      BY <1>0, <2>2 DEF Typed, RepairBegin, NeedsRepair, metadata
    <3>2. commits[head] # NoCommit
      BY <3>1 DEF NoCommit
    <3> QED
      BY <3>1, <3>2
  <2>3. CASE AttachBegin(a)
    BY <1>0, <2>3 DEF Typed, AttachBegin
  <2>4. ASSUME NEW id \in Ids, AcceptBegin(a, id) \/ RejectBegin(a, id)  PROVE WorkOf(a)'
    <3>1. proposals[id].status = "proposed" /\ UNCHANGED proposals
      BY <2>4 DEF AcceptBegin, RejectBegin, metadata
    <3>2. proposals[id] # NoProposal
      BY <3>1 DEF NoProposal
    <3> QED
      BY <1>0, <2>4, <3>1, <3>2 DEF Typed, AcceptBegin, RejectBegin
  <2> QED
    BY <1>1, <2>1, <2>2, <2>3, <2>4 DEF Beginning
<1>2. ASSUME NEW a \in Agents, Proposing(a)  PROVE WorkOf(a)'
  <2>1. CASE WriteProposal(a)
    <3>1. \E id \in Ids :
             /\ proposals'[id] # NoProposal /\ work'[a].id = id
             /\ proposals'[id].base = work'[a].base /\ proposals'[id].change = work'[a].change
      BY <2>1, ProposalFacts
    <3>2. step'[a] = "proposed" /\ doing'[a] = "propose"
      BY <1>0, <2>1 DEF Typed, WriteProposal, StepsMatch
    <3> QED
      BY <3>1, <3>2
  <2>2. CASE Reject(a)
    <3>1. work'[a] = work[a] /\ step'[a] = "rejected" /\ doing'[a] = "reject"
          /\ doing[a] = "reject"
      BY <1>0, <2>2 DEF Typed, Reject, StepsMatch
    <3>2. \A id \in Ids : proposals[id] # NoProposal => proposals'[id] # NoProposal
      BY <2>2, ProposalFacts DEF Unused
    <3> QED
      BY <1>0, <3>1, <3>2
  <2>3. CASE Stage(a)
    BY <1>0, <2>3 DEF Typed, Stage, StepsMatch
  <2>4. CASE StageFails(a) \/ AnnounceProposal(a) \/ AnnounceRejection(a)
    BY <1>0, <2>4 DEF Typed, StageFails, AnnounceProposal, AnnounceRejection
  <2> QED
    BY <1>2, <2>1, <2>2, <2>3, <2>4 DEF Proposing
<1>3. ASSUME NEW a \in Agents, Locking(a)  PROVE WorkOf(a)'
  BY <1>0, <1>3 DEF Typed, Locking, ReadClock, CreateLock, ListLocks, metadata, StepsMatch
<1>4. ASSUME NEW a \in Agents, Accepting(a)  PROVE WorkOf(a)'
  <2>1. CASE WriteCommit(a)
    <3>1. PICK id \in Ids :
             /\ IF doing[a] = "accept" THEN id = work[a].id ELSE Unused(id)
             /\ commits' = [commits EXCEPT ![id] =
                  [state |-> "pending", parent |-> head, change |-> work[a].change,
                   home |-> Owner(a)]]
             /\ work' = [work EXCEPT ![a] =
                  [id |-> id, base |-> work[a].base, change |-> work[a].change]]
      BY <2>1, WriteCommitFacts
    <3>2. commits'[id].state = "pending" /\ commits'[id].change = work[a].change
          /\ work'[a].id = id /\ work'[a].base = work[a].base /\ work'[a].change = work[a].change
          /\ step'[a] = "announce" /\ UNCHANGED <<doing, proposals>>
      BY <1>0, <2>1, <3>1 DEF Typed, WriteCommit
    <3>3. commits'[id] # NoCommit /\ doing[a] \in {"apply", "accept"}
      BY <1>0, <2>1, <3>2 DEF NoCommit, WriteCommit, StepsMatch
    <3> QED
      BY <1>0, <3>1, <3>2, <3>3
  <2>2. CASE MoveHead(a)
    BY <1>0, <2>2, MoveHeadFacts DEF Typed, MoveHead, StepsMatch
  <2>3. CASE Refuse(a) \/ AnnounceCommit(a) \/ MetadataWriteFails(a) \/ Release(a)
             \/ ReleaseRefused(a)
    BY <1>0, <2>3 DEF Typed, Refuse, AnnounceCommit, MetadataWriteFails, Release, ReleaseRefused,
       metadata, StepsMatch
  <2> QED
    BY <1>4, <2>1, <2>2, <2>3 DEF Accepting
<1>5. ASSUME NEW a \in Agents, Settling(a)  PROVE WorkOf(a)'
  <2>1. ASSUME NEW p \in Paths, Materialize(a, p)  PROVE WorkOf(a)'
    BY <1>0, <2>1 DEF Typed, Materialize, metadata
  <2>2. CASE AnnounceMaterialized(a) \/ MaterializeFails(a)
    BY <1>0, <2>2 DEF Typed, AnnounceMaterialized, MaterializeFails, StepsMatch
  <2>3. CASE MarkFailed(a)
    BY <1>0, <2>3 DEF Typed, MarkFailed
  <2>4. CASE MarkMaterialized(a)
    <3>1. PICK s \in {"materialized", "failed"} :
             commits' = [commits EXCEPT ![head] =
               [state |-> s, parent |-> commits[head].parent,
                change |-> commits[head].change, home |-> commits[head].home]]
      BY <2>4, MarkFacts
    <3>2. head \in Ids /\ head = work[a].id
      BY <2>4, MarkFacts
    <3>3. commits'[head].state = s /\ commits'[head].change = commits[head].change
      BY <1>0, <3>1, <3>2
    <3>4. commits'[head] # NoCommit
      BY <3>3 DEF NoCommit
    <3> QED
      BY <1>0, <2>4, <3>2, <3>3, <3>4 DEF Typed, MarkMaterialized, StepsMatch
  <2> QED
    BY <1>5, <2>1, <2>2, <2>3, <2>4 DEF Settling
<1>6. ASSUME NEW a \in Agents, Ending(a)  PROVE WorkOf(a)'
  <2>1. CASE Decide(a)
    <3>1. work'[a] = work[a] /\ step'[a] = "decided" /\ doing'[a] = "accept"
          /\ doing[a] = "accept"
      BY <1>0, <2>1 DEF Typed, Decide, StepsMatch
    <3>2. \A id \in Ids : proposals[id] # NoProposal =>
             /\ proposals'[id] # NoProposal /\ proposals'[id].base = proposals[id].base
             /\ proposals'[id].change = proposals[id].change
      BY <2>1, ProposalFacts DEF Unused
    <3> QED
      BY <1>0, <3>1, <3>2
  <2>2. CASE AnnounceDecision(a) \/ Finish(a) \/ Crash(a)
    BY <1>0, <2>2 DEF Typed, AnnounceDecision, Finish, Crash, StepsMatch
  <2> QED
    BY <1>6, <2>1, <2>2 DEF Ending
<1>7. ASSUME NEW a \in Agents, Attaching(a)  PROVE WorkOf(a)'
  BY <1>0, <1>7 DEF Typed, Attaching, AttachSync, AttachTrust, StepsMatch
<1>8. ASSUME NEW a \in Agents, NEW p \in Paths, Edit(a, p)  PROVE WorkOf(a)'
  BY <1>0, <1>8 DEF Edit, metadata
<1>9. CASE \A b \in Agents : Rests(b)
  BY <1>9, WorkKept DEF WorkOK
<1>10. ASSUME NEW a \in Agents, \A b \in Agents \ {a} : Rests(b), WorkOf(a)'  PROVE WorkOK'
  BY <1>10, WorkKept DEF WorkOK
<1> QED
  BY OthersRest, <1>1, <1>2, <1>3, <1>4, <1>5, <1>6, <1>7, <1>8, <1>9, <1>10

(* A commit that is written is not the head, and leaves the others alone. *)
LEMMA WriteCommitKeeps ==
  ASSUME TypeOK, Governance, NEW a \in Agents, WriteCommit(a)
  PROVE  /\ UNCHANGED <<head, accepted, proposals>> /\ Accepted' = Accepted
         /\ \A id \in Accepted : commits'[id] = commits[id]
         /\ HeadMaterialized /\ HeadMaterialized'
         /\ work'[a].id \in Ids /\ work'[a].id \notin Accepted
         /\ work'[a].base = head /\ work'[a].change = work[a].change
         /\ commits'[work'[a].id] = [state |-> "pending", parent |-> head,
                                     change |-> work[a].change, home |-> Owner(a)]
<1>0. commits \in [Ids -> CommitRecords] /\ work \in [Agents -> WorkRecords] /\ LineOK
      /\ (\A id \in Accepted : id \in Ids) /\ head \in Ids \cup {None}
  BY TypeParts DEF RecordsTyped, CommandTyped, WorkRecords, Governance, Accepted
<1>1. PICK id \in Ids :
        /\ id \notin Accepted /\ HeadMaterialized /\ work[a].base = head
        /\ commits' = [commits EXCEPT ![id] =
             [state |-> "pending", parent |-> head, change |-> work[a].change, home |-> Owner(a)]]
        /\ work' = [work EXCEPT ![a] =
             [id |-> id, base |-> work[a].base, change |-> work[a].change]]
  BY WriteCommitFacts
<1>2. UNCHANGED <<head, accepted, proposals>> /\ Accepted' = Accepted
  BY DEF WriteCommit, Accepted
<1>3. \A other \in Accepted : commits'[other] = commits[other]
  BY <1>0, <1>1
<1>4. HeadMaterialized'
  BY <1>0, <1>1, <1>2, <1>3 DEF HeadMaterialized, LineOK
<1>5. work'[a] = [id |-> id, base |-> head, change |-> work[a].change]
  BY <1>0, <1>1
<1>6. commits'[id] = [state |-> "pending", parent |-> head, change |-> work[a].change,
                      home |-> Owner(a)]
  BY <1>0, <1>1
<1> QED
  BY <1>1, <1>2, <1>3, <1>4, <1>5, <1>6

(* A mark on the head leaves the others alone. *)
LEMMA MarkKeeps ==
  ASSUME TypeOK, Governance, NEW a \in Agents, MarkMaterialized(a) \/ MarkFailed(a)
  PROVE  /\ UNCHANGED <<head, accepted, proposals>> /\ Accepted' = Accepted
         /\ \A id \in Ids \ {head} : commits'[id] = commits[id]
         /\ commits'[head].parent = commits[head].parent
         /\ commits'[head].change = commits[head].change
         /\ commits'[head].home = commits[head].home
         /\ MarkMaterialized(a) => commits'[head].state = "materialized"
         /\ ~MarkMaterialized(a) => commits'[head].state = "failed"
<1>0. commits \in [Ids -> CommitRecords]
  BY TypeParts DEF RecordsTyped
<1>1. PICK s \in {"materialized", "failed"} :
         /\ s = "materialized" <=> MarkMaterialized(a)
         /\ commits' = [commits EXCEPT ![head] =
             [state |-> s, parent |-> commits[head].parent,
              change |-> commits[head].change, home |-> commits[head].home]]
  BY MarkFacts
<1>2. head \in Ids
  BY MarkFacts
<1>3. commits'[head] = [state |-> s, parent |-> commits[head].parent,
                        change |-> commits[head].change, home |-> commits[head].home]
      /\ \A id \in Ids \ {head} : commits'[id] = commits[id]
  BY <1>0, <1>1, <1>2
<1>4. UNCHANGED <<head, accepted, proposals>> /\ Accepted' = Accepted
  BY DEF MarkMaterialized, MarkFailed, Accepted
<1> QED
  BY <1>1, <1>3, <1>4

(* Under the lock nobody else writes a commit or moves the head, and       *)
(* nobody materializes.                                                    *)
LEMMA MovesStep ==
  ASSUME TypeOK, Governance, Exclusive, [Next]_vars
  PROVE  MovesOK'
<1> USE DEF MovesOf, At, GoTo, Start, End, command
<1> DEFINE Typed == /\ step \in [Agents -> Steps] /\ doing \in [Agents -> Commands]
                    /\ work \in [Agents -> WorkRecords]
<1>0. Typed /\ (\A b \in Agents : MovesOf(b))
  BY TypeParts DEF CommandTyped, WorkRecords, Governance, MovesOK
<1> HIDE DEF Typed
<1>1. ASSUME NEW b \in Agents, Rests(b)  PROVE MovesOf(b)'
  <2> SUFFICES ASSUME step[b] \in {"announce", "move"}  PROVE MovesOf(b)'
    BY <1>1 DEF Rests
  <2>1. HeadMaterialized /\ Owner(b)' = Owner(b) /\ work'[b] = work[b] /\ Holding(b)
    BY <1>0, <1>1 DEF Rests, Owner, Holding
  <2>2. ASSUME UNCHANGED <<head, commits, accepted>>  PROVE MovesOf(b)'
    BY <1>0, <2>1, <2>2 DEF HeadMaterialized, Accepted
  <2>3. ASSUME NEW a \in Agents, WriteCommit(a) \/ MoveHead(a)  PROVE FALSE
    <3>1. Holding(a)
      BY <2>3 DEF WriteCommit, MoveHead, Holding
    <3>2. a = b
      BY <2>1, <3>1 DEF Exclusive
    <3>3. step'[a] # step[a]
      BY <1>0, <2>3 DEF Typed, WriteCommit, MoveHead
    <3> QED
      BY <1>1, <3>2, <3>3 DEF Rests
  <2>4. ASSUME NEW a \in Agents, MarkMaterialized(a) \/ MarkFailed(a)  PROVE FALSE
    BY <2>1, <2>4, MarkFacts
  <2>5. ASSUME NEW a \in Agents, WriteProposal(a) \/ Reject(a) \/ Decide(a)
        PROVE  UNCHANGED <<head, commits, accepted>>
    BY <2>5, ProposalFacts
  <2> QED
    BY RecordsKinds, <2>2, <2>3, <2>4, <2>5 DEF records
<1>2. ASSUME NEW a \in Agents, step'[a] \notin {"announce", "move"}  PROVE MovesOf(a)'
  BY <1>2
<1>3. ASSUME NEW a \in Agents, WriteCommit(a)  PROVE MovesOf(a)'
  <2>1. UNCHANGED doing
    BY <1>3 DEF WriteCommit
  <2> QED
    BY <1>3, <2>1, WriteCommitKeeps DEF Owner
<1>4. ASSUME NEW a \in Agents, AnnounceCommit(a) \/ \E p \in Paths : Edit(a, p)  PROVE MovesOf(a)'
  BY <1>0, <1>4 DEF Typed, AnnounceCommit, Edit, HeadMaterialized, Owner, Accepted, metadata
<1>5. ASSUME NEW a \in Agents,
             Beginning(a) \/ Proposing(a) \/ Locking(a) \/ Settling(a) \/ Ending(a) \/ Attaching(a)
      PROVE  MovesOf(a)'
  <2>1. Beginning(a) => step'[a] \notin {"announce", "move"}
    BY <1>0 DEF Typed, Beginning, ApplyBegin, ProposeBegin, Begin, RepairBegin, AttachBegin,
       AcceptBegin, RejectBegin
  <2>2. Proposing(a) => step'[a] \notin {"announce", "move"}
    BY <1>0 DEF Typed, Proposing, Stage, StageFails, WriteProposal, AnnounceProposal, Reject,
       AnnounceRejection
  <2>3. Locking(a) => step'[a] \notin {"announce", "move"}
    BY <1>0 DEF Typed, Locking, ReadClock, CreateLock, ListLocks
  <2>4. Settling(a) => step'[a] \notin {"announce", "move"}
    BY <1>0 DEF Typed, Settling, Materialize, AnnounceMaterialized, MarkMaterialized,
       MaterializeFails, MarkFailed
  <2>5. Ending(a) \/ Attaching(a) => step'[a] \notin {"announce", "move"}
    BY <1>0 DEF Typed, Ending, Decide, AnnounceDecision, Finish, Crash, Attaching, AttachSync,
       AttachTrust
  <2> QED
    BY <1>2, <1>5, <2>1, <2>2, <2>3, <2>4, <2>5
<1>6. ASSUME NEW a \in Agents, Accepting(a)  PROVE MovesOf(a)'
  <2>1. CASE Refuse(a) \/ MoveHead(a) \/ MetadataWriteFails(a) \/ Release(a) \/ ReleaseRefused(a)
    BY <1>0, <1>2, <2>1 DEF Typed, Refuse, MoveHead, MetadataWriteFails, Release, ReleaseRefused
  <2> QED
    BY <1>3, <1>4, <1>6, <2>1 DEF Accepting
<1>7. (\A b \in Agents : MovesOf(b)') => MovesOK'
  BY DEF MovesOK
<1> QED
  BY OthersRest, <1>1, <1>4, <1>5, <1>6, <1>7

LEMMA MaterializingStep ==
  ASSUME TypeOK, Governance, Exclusive, [Next]_vars
  PROVE  MaterializingOK'
<1> USE ConstantsTyped
<1> USE DEF MaterializingOf, Materializing, At, GoTo, Start, End, command
<1> DEFINE Typed == /\ step \in [Agents -> Steps] /\ doing \in [Agents -> Commands]
                    /\ work \in [Agents -> WorkRecords]
<1>0. /\ Typed /\ commits \in [Ids -> CommitRecords] /\ StepsMatch
      /\ (\A b \in Agents : MaterializingOf(b))
      /\ \A a, b \in Agents : Materializing(a) /\ Materializing(b) => a = b
  BY TypeParts DEF CommandTyped, WorkRecords, RecordsTyped, Governance, MaterializingOK
<1>k. (head # None => head \in Accepted) /\ \A id \in Accepted : id \in Ids
  BY TypeParts DEF Governance, LineOK, RecordsTyped, Accepted
<1> HIDE DEF Typed
<1>1. ASSUME NEW b \in Agents, Rests(b)  PROVE MaterializingOf(b)'
  <2>1. /\ Owner(b)' = Owner(b) /\ work'[b] = work[b] /\ step'[b] = step[b]
        /\ MaterializingOf(b)
    BY <1>0, <1>1 DEF Rests, Owner
  <2>2. ASSUME UNCHANGED <<head, commits>>  PROVE MaterializingOf(b)'
    BY <2>1, <2>2 DEF HeadMaterialized
  <2>3. ASSUME NEW a \in Agents, WriteCommit(a)  PROVE MaterializingOf(b)'
    <3>1. work[b].id \in Ids /\ commits[work[b].id].state = "materialized" =>
            work[b].id \in Accepted
      BY DEF Governance, RecordsOK
    <3> QED
      BY <1>k, <2>1, <2>3, <3>1, WriteCommitKeeps
  <2>4. ASSUME NEW a \in Agents, MoveHead(a)  PROVE MaterializingOf(b)'
    BY <2>1, <2>4, MoveHeadFacts
  <2>5. ASSUME NEW a \in Agents, MarkMaterialized(a) \/ MarkFailed(a)  PROVE MaterializingOf(b)'
    <3>1. Materializing(a) /\ a # b
      <4>1. step'[a] # step[a]
        BY <1>0, <2>5 DEF Typed, MarkMaterialized, MarkFailed
      <4> QED
        BY <2>1, <2>5, <4>1, MarkFacts
    <3>2. ~Materializing(b)
      BY <1>0, <3>1
    <3>3. work[b].id \in Ids /\ commits[work[b].id].state = "materialized" => work[b].id # head
      BY <2>5, MarkFacts DEF HeadMaterialized
    <3> QED
      BY <2>1, <2>5, <3>2, <3>3, MarkKeeps
  <2>6. ASSUME NEW a \in Agents, WriteProposal(a) \/ Reject(a) \/ Decide(a)
        PROVE  UNCHANGED <<head, commits>>
    BY <2>6, ProposalFacts
  <2> QED
    BY RecordsKinds, <2>2, <2>3, <2>4, <2>5, <2>6 DEF records

(* the command that moves *)
<1>2. ASSUME NEW a \in Agents, MoveHead(a)
      PROVE  MaterializingOf(a)' /\ \A b \in Agents : ~Materializing(b)
  <2>1. step'[a] = "release" /\ UNCHANGED doing
    BY <1>0, <1>2 DEF Typed, MoveHead
  <2>2. head' # None /\ work'[a].id = head' /\ commits'[head'].state = "pending"
        /\ commits'[head'].change = work[a].change /\ commits'[head'].home = Owner(a)
    <3> DEFINE id == work[a].id
    <3>1. /\ head' = id /\ id \in Ids /\ UNCHANGED <<commits, work>>
          /\ commits[id] = [state |-> "pending", parent |-> head, change |-> work[a].change,
                            home |-> Owner(a)]
      BY <1>2, MoveHeadFacts
    <3> HIDE DEF id
    <3>2. /\ commits[id].state = "pending" /\ commits[id].change = work[a].change
          /\ commits[id].home = Owner(a)
      BY <3>1
    <3>3. work'[a].id = head'
      BY <3>1 DEF id
    <3> QED
      BY <3>1, <3>2, <3>3
  <2>3. HeadMaterialized
    BY <1>2, MoveHeadFacts
  <2> QED
    BY <1>0, <1>2, <2>1, <2>2, <2>3, MoveHeadFacts DEF HeadMaterialized, Owner
<1>3. ASSUME NEW a \in Agents, RepairBegin(a)
      PROVE  MaterializingOf(a)' /\ \A b \in Agents : ~Materializing(b)
  <2>1. /\ head # None /\ commits[head].state \in {"pending", "failed"} /\ commits[head].home = a
        /\ step[a] = "idle" /\ UNCHANGED <<head, commits>>
    BY <1>0, <1>3 DEF RepairBegin, NeedsRepair, HasSnapshot, StepsMatch, metadata
  <2>2. /\ step'[a] = "files" /\ doing'[a] = "repair"
        /\ work'[a].id = head /\ work'[a].change = commits[head].change
    BY <1>0, <1>3 DEF Typed, RepairBegin
  <2>3. \A b \in Agents : Materializing(b) => b = a
    BY <1>0, <2>1 DEF Owner
  <2> QED
    BY <2>1, <2>2, <2>3 DEF HeadMaterialized, Owner
<1>4. ASSUME NEW a \in Agents, MarkMaterialized(a) \/ MarkFailed(a)  PROVE MaterializingOf(a)'
  <2>1. step'[a] \in {"decide", "finish", "idle"} /\ (step'[a] # "idle" => MarkMaterialized(a))
    BY <1>0, <1>4 DEF Typed, MarkMaterialized, MarkFailed
  <2>2. step'[a] # "idle" => work'[a] = work[a] /\ work[a].id = head /\ head \in Ids
    BY <1>4, <2>1, MarkFacts DEF MarkMaterialized
  <2> QED
    BY <1>4, <2>1, <2>2, MarkKeeps
<1>5. ASSUME NEW a \in Agents, UNCHANGED <<head, commits>>, doing'[a] = doing[a],
             work'[a] = work[a], Materializing(a)' => Materializing(a),
             step'[a] \in {"decide", "decided", "finish"} =>
               step[a] \in {"decide", "decided", "finish"}
      PROVE  MaterializingOf(a)'
  BY <1>0, <1>5 DEF HeadMaterialized, Owner
<1>6. ASSUME NEW a \in Agents, ~Materializing(a)', step'[a] \notin {"decide", "decided", "finish"}
      PROVE  MaterializingOf(a)'
  BY <1>6
<1>7. ASSUME NEW a \in Agents, Beginning(a), ~RepairBegin(a)
      PROVE  ~Materializing(a)' /\ step'[a] \notin {"decide", "decided", "finish"}
  BY <1>0, <1>7 DEF Typed, Beginning, ApplyBegin, ProposeBegin, Begin, AttachBegin, AcceptBegin,
     RejectBegin
<1>8. ASSUME NEW a \in Agents, Proposing(a)
      PROVE  ~Materializing(a)' /\ step'[a] \notin {"decide", "decided", "finish"}
  BY <1>0, <1>8 DEF Typed, Proposing, Stage, StageFails, WriteProposal, AnnounceProposal, Reject,
     AnnounceRejection
<1>9. ASSUME NEW a \in Agents, Locking(a)
      PROVE  ~Materializing(a)' /\ step'[a] \notin {"decide", "decided", "finish"}
  BY <1>0, <1>9 DEF Typed, Locking, ReadClock, CreateLock, ListLocks
<1>10. ASSUME NEW a \in Agents, WriteCommit(a) \/ Refuse(a) \/ AnnounceCommit(a)
                                \/ MetadataWriteFails(a) \/ ReleaseRefused(a)
       PROVE  ~Materializing(a)' /\ step'[a] \notin {"decide", "decided", "finish"}
  BY <1>0, <1>10 DEF Typed, WriteCommit, Refuse, AnnounceCommit, MetadataWriteFails, ReleaseRefused
<1>11. ASSUME NEW a \in Agents,
              \/ Release(a) \/ AnnounceMaterialized(a) \/ MaterializeFails(a)
              \/ \E p \in Paths : Materialize(a, p) \/ Edit(a, p)
       PROVE  MaterializingOf(a)' /\ (Materializing(a)' => Materializing(a))
  BY <1>0, <1>5, <1>11 DEF Typed, Release, AnnounceMaterialized, MaterializeFails, Materialize, Edit,
     metadata
<1>12. ASSUME NEW a \in Agents, Ending(a)
       PROVE  MaterializingOf(a)' /\ (Materializing(a)' => Materializing(a))
  <2>1. UNCHANGED <<head, commits>>
    BY <1>12 DEF Ending, Decide, AnnounceDecision, Finish, Crash, metadata
  <2>2. step'[a] \in {"decided", "finish", "idle"}
        /\ (step'[a] # "idle" => step[a] \in {"decide", "decided"}
                                 /\ work'[a] = work[a] /\ doing'[a] = doing[a])
    BY <1>0, <1>12 DEF Typed, Ending, Decide, AnnounceDecision, Finish, Crash
  <2> QED
    BY <1>0, <2>1, <2>2
<1>13. ASSUME NEW a \in Agents, Attaching(a)
       PROVE  ~Materializing(a)' /\ step'[a] \notin {"decide", "decided", "finish"}
  BY <1>0, <1>13 DEF Typed, Attaching, AttachSync, AttachTrust
<1>14. ASSUME NEW a \in Agents, \A b \in Agents \ {a} : Rests(b), MaterializingOf(a)',
              (\A b \in Agents : ~Materializing(b)) \/ (Materializing(a)' => Materializing(a))
       PROVE  MaterializingOK'
  <2>1. \A b \in Agents \ {a} : Materializing(b)' => Materializing(b)
    BY <1>14 DEF Rests
  <2>2. \A b, c \in Agents : Materializing(b)' /\ Materializing(c)' => b = c
    BY <1>0, <1>14, <2>1
  <2> QED
    BY <1>1, <1>14, <2>2 DEF MaterializingOK
<1>15. CASE \A b \in Agents : Rests(b)
  <2>1. \A b \in Agents : Materializing(b)' => Materializing(b)
    BY <1>15 DEF Rests
  <2> QED
    BY <1>0, <1>1, <1>15, <2>1 DEF MaterializingOK
<1>16. ASSUME NEW a \in Agents, Settling(a) \/ Accepting(a)
       PROVE  /\ MaterializingOf(a)'
              /\ (\A b \in Agents : ~Materializing(b)) \/ (Materializing(a)' => Materializing(a))
  <2>1. Settling(a) => \/ MarkMaterialized(a) \/ MarkFailed(a)
                       \/ AnnounceMaterialized(a) \/ MaterializeFails(a)
                       \/ \E p \in Paths : Materialize(a, p)
    BY DEF Settling
  <2>2. MarkMaterialized(a) \/ MarkFailed(a) => ~Materializing(a)'
    BY <1>0 DEF Typed, MarkMaterialized, MarkFailed
  <2> QED
    BY <1>2, <1>4, <1>6, <1>10, <1>11, <1>16, <2>1, <2>2 DEF Accepting
<1>17. ASSUME NEW a \in Agents, Beginning(a)
       PROVE  /\ MaterializingOf(a)'
              /\ (\A b \in Agents : ~Materializing(b)) \/ (Materializing(a)' => Materializing(a))
  BY <1>3, <1>6, <1>7, <1>17
<1> QED
  BY OthersRest, <1>6, <1>8, <1>9, <1>11, <1>12, <1>13, <1>14, <1>15, <1>16, <1>17

(* Every step is a step of CommitLog or a stutter of it: moving the head   *)
(* accepts a commit, marking it materialized settles it.                   *)
LEMMA LogStep ==
  ASSUME TypeOK, Governance, [Next]_vars
  PROVE  [Log!Next]_(Log!vars)
<1> USE DEF Log!vars
<1> DEFINE settled == {id \in Ids : commits[id].state = "materialized"}
<1>0. Log!Accepted = Accepted
  BY DEF Log!Accepted, Accepted
<1>k. (head # None => head \in Accepted) /\ \A id \in Accepted : id \in Ids
  BY TypeParts DEF Governance, LineOK, RecordsTyped, Accepted
<1>1. ASSUME UNCHANGED <<head, accepted>>, settled' = settled  PROVE UNCHANGED Log!vars
  BY <1>1
<1>2. CASE UNCHANGED records
  BY <1>1, <1>2 DEF records
<1>3. ASSUME NEW a \in Agents, WriteProposal(a) \/ Reject(a) \/ Decide(a)
      PROVE  UNCHANGED Log!vars
  BY <1>1, <1>3, ProposalFacts
<1>4. ASSUME NEW a \in Agents, WriteCommit(a)  PROVE UNCHANGED Log!vars
  <2> DEFINE id == work'[a].id
  <2>0. /\ UNCHANGED <<head, accepted>> /\ id \in Ids /\ id \notin Accepted
        /\ commits'[id] = [state |-> "pending", parent |-> head, change |-> work[a].change,
                           home |-> Owner(a)]
    BY <1>4, WriteCommitKeeps
  <2>1. /\ UNCHANGED <<head, accepted>> /\ id \in Ids /\ id \notin Accepted
        /\ commits'[id].state = "pending"
    <3> HIDE DEF id
    <3> QED
      BY <2>0
  <2>2. commits[id].state # "materialized"
    BY <2>1 DEF Governance, RecordsOK
  <2>3. \A other \in Ids \ {id} : commits'[other] = commits[other]
    <3>1. commits \in [Ids -> CommitRecords] /\ work \in [Agents -> WorkRecords]
      BY TypeParts DEF RecordsTyped, CommandTyped, WorkRecords
    <3>2. PICK i \in Ids :
            /\ commits' = [commits EXCEPT ![i] =
                [state |-> "pending", parent |-> head, change |-> work[a].change,
                 home |-> Owner(a)]]
            /\ work' = [work EXCEPT ![a] =
                 [id |-> i, base |-> work[a].base, change |-> work[a].change]]
      BY <1>4, WriteCommitFacts
    <3>3. id = i
      BY <3>1, <3>2
    <3> QED
      BY <3>1, <3>2, <3>3
  <2> HIDE DEF id
  <2>4. settled' = settled
    BY <2>1, <2>2, <2>3
  <2> QED
    BY <1>1, <2>1, <2>4
<1>5. ASSUME NEW a \in Agents, MoveHead(a)  PROVE Log!Accept(head')
  <2> DEFINE id == work[a].id
  <2>1. /\ head' = id /\ id \in Ids /\ id \notin Accepted /\ HeadMaterialized
        /\ accepted' = accepted \cup {<<id, head>>} /\ UNCHANGED commits
    BY <1>5, MoveHeadFacts
  <2>2. head = None \/ head \in settled
    BY <1>k, <2>1 DEF HeadMaterialized
  <2>3. settled' = settled
    BY <2>1
  <2> HIDE DEF id, settled
  <2>4. (head = None \/ head \in settled) /\ id \notin Log!Accepted
    BY <1>0, <2>1, <2>2
  <2> QED
    BY <2>1, <2>3, <2>4 DEF Log!Accept, settled
<1>6. ASSUME NEW a \in Agents, MarkMaterialized(a) \/ MarkFailed(a)
      PROVE  Log!Settle \/ UNCHANGED Log!vars
  <2>1. head \in Ids /\ head # None /\ commits[head].state # "materialized"
        /\ UNCHANGED <<head, accepted>>
    BY <1>6, MarkFacts, MarkKeeps DEF HeadMaterialized
  <2>2. \A id \in Ids \ {head} : commits'[id] = commits[id]
    BY <1>6, MarkKeeps
  <2>3. CASE MarkMaterialized(a)
    <3>1. commits'[head].state = "materialized"
      BY <2>3, MarkKeeps
    <3>2. settled' = settled \cup {head}
      BY <2>1, <2>2, <3>1
    <3> QED
      BY <2>1, <3>2 DEF Log!Settle
  <2>4. CASE ~MarkMaterialized(a)
    <3>1. commits'[head].state = "failed"
      BY <1>6, <2>4, MarkKeeps
    <3>2. settled' = settled
      BY <2>1, <2>2, <3>1
    <3> QED
      BY <1>1, <2>1, <3>2
  <2> QED
    BY <2>3, <2>4
<1>7. ASSUME NEW a \in Agents, MoveHead(a)  PROVE head' \in Ids
  BY <1>7, MoveHeadFacts
<1> QED
  BY RecordsKinds, <1>2, <1>3, <1>4, <1>5, <1>6, <1>7 DEF Log!Next

(* The inductive invariant of the governance layer. *)
GovernanceInv == TypeOK /\ WorkNamed /\ Governance /\ LocksApart /\ Exclusive

LEMMA GovernanceInitially == Init => GovernanceInv
<1> SUFFICES ASSUME Init PROVE GovernanceInv
  OBVIOUS
<1>1. TypeOK /\ WorkNamed
  BY TypeInitially
<1>2. StepsMatch /\ LocksApart /\ Exclusive
  BY DEF Init, StepsMatch, LocksApart, Exclusive, Unlocked, Locked, Holding, Acquiring
<1>3. LineOK /\ RecordsOK
  BY DEF Init, LineOK, RecordsOK, Log!NoFork, Log!OnlyHeadUnsettled, Log!Accepted, NoCommit
<1>4. WorkOK /\ MovesOK /\ MaterializingOK
  BY DEF Init, WorkOK, WorkOf, NoWork, MovesOK, MovesOf, MaterializingOK, MaterializingOf, Materializing
<1> QED
  BY <1>1, <1>2, <1>3, <1>4 DEF GovernanceInv, Governance

LEMMA GovernanceStep ==
  ASSUME Paced, GovernanceInv, [Next]_vars
  PROVE  GovernanceInv'
<1>1. TypeOK' /\ WorkNamed'
  BY TypeStep DEF GovernanceInv
<1>2. StepsMatch' /\ LocksApart' /\ Exclusive'
  BY StepsMatchStep, LocksApartStep, ExclusiveStep DEF GovernanceInv, Governance
<1>3. LineOK'
  BY LogStep, LineStep DEF GovernanceInv, Governance
<1>4. RecordsOK' /\ WorkOK' /\ MovesOK' /\ MaterializingOK'
  BY RecordsStep, WorkStep, MovesStep, MaterializingStep DEF GovernanceInv
<1> QED
  BY <1>1, <1>2, <1>3, <1>4 DEF GovernanceInv, Governance

LEMMA GovernanceInvariant == ASSUME Paced PROVE Spec => []GovernanceInv
<1>1. GovernanceInv /\ [Next]_vars => GovernanceInv'
  BY GovernanceStep
<1> QED
  BY <1>1, GovernanceInitially, PTL DEF Spec

(* The commits of an AgentFS implement CommitLog: each is accepted once,   *)
(* on top of the head, and only when the files of the head are in the      *)
(* source.                                                                 *)
THEOREM ImplementsCommitLog == ASSUME Paced PROVE Spec => Governed
<1>1. Init => Log!Init
  BY DEF Init, Log!Init, NoCommit
<1>2. GovernanceInv /\ [Next]_vars => [Log!Next]_(Log!vars)
  BY LogStep DEF GovernanceInv
<1> QED
  BY <1>1, <1>2, GovernanceInvariant, PTL DEF Spec, Governed, Log!Spec

(* The accepted commits never fork: no two of them have the same parent    *)
(* (parent_commit_id).                                                     *)
THEOREM Line == ASSUME Paced PROVE Spec => []Log!NoFork
<1>1. GovernanceInv => Log!NoFork
  BY DEF GovernanceInv, Governance, LineOK
<1> QED
  BY <1>1, GovernanceInvariant, PTL

(* A commit is accepted only when the files of those before it are in the  *)
(* source.                                                                 *)
THEOREM Settled == ASSUME Paced PROVE Spec => []Log!OnlyHeadUnsettled
<1>1. GovernanceInv => Log!OnlyHeadUnsettled
  BY DEF GovernanceInv, Governance, LineOK
<1> QED
  BY <1>1, GovernanceInvariant, PTL

(* The head only moves to a commit made on top of it, when the lock is     *)
(* exclusive; AgentFs_lock shows that it may fork when it is not.          *)
THEOREM HeadMovesForward == ASSUME Paced PROVE Spec => HeadAdvances
<1>1. GovernanceInv /\ [Next]_vars => (head' # head => commits[head'].parent = head)
  <2> SUFFICES ASSUME GovernanceInv, [Next]_vars, head' # head
               PROVE  commits[head'].parent = head
    OBVIOUS
  <2>1. \E a \in Agents : MoveHead(a)
    <3>1. UNCHANGED records => head' = head
      BY DEF records
    <3>2. \A a \in Agents : WriteProposal(a) \/ Reject(a) \/ Decide(a) \/ WriteCommit(a)
                            \/ MarkMaterialized(a) \/ MarkFailed(a) => head' = head
      BY DEF WriteProposal, Reject, Decide, WriteCommit, MarkMaterialized, MarkFailed
    <3> QED
      BY RecordsKinds, <3>1, <3>2
  <2>2. PICK a \in Agents : MoveHead(a)
    BY <2>1
  <2> DEFINE id == head'
  <2>3. commits[id] = [state |-> "pending", parent |-> head, change |-> work[a].change,
                       home |-> Owner(a)]
    BY <2>2, MoveHeadFacts DEF GovernanceInv
  <2> HIDE DEF id
  <2>4. commits[id].parent = head
    BY <2>3
  <2> QED
    BY <2>4 DEF id
<1>2. GovernanceInv /\ [Next]_vars => [head' # head => commits[head'].parent = head]_vars
  BY <1>1
<1> QED
  BY <1>2, GovernanceInvariant, PTL DEF Spec, HeadAdvances

-----------------------------------------------------------------------------
(* The files of the source, and the versions that changes start from.      *)

(* The head stays, and stays materialized, or moves to a new commit. *)
LEMMA HeadKinds ==
  ASSUME GovernanceInv, [Next]_vars
  PROVE  /\ Accepted \subseteq Accepted'
         /\ \/ head' = head /\ (HeadMaterialized => HeadMaterialized')
            \/ /\ \E a \in Agents : MoveHead(a)
               /\ head' \notin Accepted \cup {None} /\ HeadMaterialized
<1> USE DEF GovernanceInv
<1>1. CASE UNCHANGED records
  BY <1>1 DEF records, Accepted, HeadMaterialized
<1>2. ASSUME NEW a \in Agents, WriteProposal(a) \/ Reject(a) \/ Decide(a)
      PROVE  UNCHANGED <<head, commits>> /\ Accepted' = Accepted
  BY <1>2, ProposalFacts DEF Accepted
<1>3. ASSUME NEW a \in Agents, WriteCommit(a)
      PROVE  head' = head /\ HeadMaterialized' /\ Accepted' = Accepted
  BY <1>3, WriteCommitKeeps
<1>4. ASSUME NEW a \in Agents, MoveHead(a)
      PROVE  head' \notin Accepted \cup {None} /\ HeadMaterialized /\ Accepted \subseteq Accepted'
  BY <1>4, MoveHeadFacts, ConstantsTyped
<1>5. ASSUME NEW a \in Agents, MarkMaterialized(a) \/ MarkFailed(a)
      PROVE  head' = head /\ ~HeadMaterialized /\ Accepted' = Accepted
  BY <1>5, MarkFacts, MarkKeeps
<1> QED
  BY RecordsKinds, <1>1, <1>2, <1>3, <1>4, <1>5 DEF HeadMaterialized

(* A base that was the head once is never a head to come, and what it was  *)
(* is in the source if it is the head now.                                 *)
BaseOK(base) == base \in Accepted \cup {None} /\ (base = head => HeadMaterialized)

LEMMA BaseKept ==
  ASSUME GovernanceInv, [Next]_vars, NEW base, BaseOK(base)
  PROVE  base \in Accepted' \cup {None} /\ (base = head' => HeadMaterialized')
BY HeadKinds DEF BaseOK

ProposalBasesKnown == \A id \in Ids : proposals[id] # NoProposal => BaseOK(proposals[id].base)
KnownBases ==
  /\ ProposalBasesKnown
  /\ \A a \in Agents :
       /\ BaseOK(mount[a])
       /\ doing[a] \in {"apply", "propose", "accept", "attach"} => BaseOK(work[a].base)

LEMMA KnownBasesStep ==
  ASSUME GovernanceInv, KnownBases, [Next]_vars
  PROVE  KnownBases'
<1> USE DEF GovernanceInv
<1> DEFINE Typed == /\ step \in [Agents -> Steps] /\ doing \in [Agents -> Commands]
                    /\ work \in [Agents -> WorkRecords]
                    /\ mount \in [Agents -> Ids \cup {None}]
<1> DEFINE Of(a) == /\ BaseOK(mount[a])
                    /\ doing[a] \in {"apply", "propose", "accept", "attach"} => BaseOK(work[a].base)
<1>0. Typed /\ (\A b \in Agents : Of(b)) /\ StepsMatch /\ (head = None \/ head \in Accepted)
  BY TypeParts DEF CommandTyped, WorkRecords, MachineTyped, KnownBases, Governance, LineOK
<1> HIDE DEF Typed
<1>p. ProposalBasesKnown'
  <2>0. ProposalBasesKnown
    BY DEF KnownBases
  <2>1. CASE UNCHANGED proposals
    BY <2>0, <2>1, BaseKept DEF ProposalBasesKnown, BaseOK
  <2>2. ASSUME NEW a \in Agents, WriteProposal(a) \/ Reject(a) \/ Decide(a)
        PROVE  ProposalBasesKnown'
    <3> SUFFICES ASSUME NEW id \in Ids, proposals'[id] # NoProposal
                 PROVE  LET base == proposals'[id].base IN
                        base \in Accepted' \cup {None} /\ (base = head' => HeadMaterialized')
      BY DEF ProposalBasesKnown, BaseOK
    <3>1. WriteProposal(a) => doing[a] = "propose"
      BY <1>0 DEF WriteProposal, At, StepsMatch
    <3>2. \/ proposals[id] # NoProposal /\ proposals'[id].base = proposals[id].base
          \/ WriteProposal(a) /\ proposals'[id].base = work[a].base
      BY <2>2, ProposalFacts
    <3> QED
      BY <1>0, <2>0, <3>1, <3>2, BaseKept DEF ProposalBasesKnown
  <2>3. \A a \in Agents : WriteCommit(a) \/ MoveHead(a) \/ MarkMaterialized(a) \/ MarkFailed(a)
          => UNCHANGED proposals
    BY WriteCommitKeeps, MoveHeadFacts, MarkKeeps
  <2> QED
    BY RecordsKinds, <2>1, <2>2, <2>3 DEF records
<1>1. ASSUME NEW b \in Agents, mount'[b] = mount[b],
             doing'[b] \in {"apply", "propose", "accept", "attach"} =>
                doing'[b] = doing[b] /\ work'[b].base = work[b].base
      PROVE  Of(b)'
  BY <1>0, <1>1, BaseKept DEF BaseOK
<1>2. ASSUME NEW a \in Agents, Beginning(a)  PROVE Of(a)'
  <2>1. mount'[a] = mount[a] /\ UNCHANGED <<head, commits, accepted, proposals>>
    BY <1>2 DEF Beginning, ApplyBegin, ProposeBegin, Begin, RepairBegin, AttachBegin, AcceptBegin,
       RejectBegin, metadata, machine
  <2>2. CASE ApplyBegin(a) \/ ProposeBegin(a) \/ AttachBegin(a)
    <3>1. work'[a].base = head /\ HeadMaterialized
      BY <1>0, <2>2 DEF Typed, ApplyBegin, ProposeBegin, Begin, AttachBegin, Start
    <3> QED
      BY <1>0, <2>1, <3>1 DEF BaseOK, HeadMaterialized, Accepted
  <2>3. ASSUME NEW id \in Ids, AcceptBegin(a, id)  PROVE Of(a)'
    <3>1. proposals[id].status = "proposed" /\ work'[a].base = proposals[id].base
      BY <1>0, <2>3 DEF Typed, AcceptBegin, Start
    <3>2. proposals[id] # NoProposal
      BY <3>1 DEF NoProposal
    <3> QED
      BY <1>0, <2>1, <3>1, <3>2, BaseKept DEF KnownBases, ProposalBasesKnown, BaseOK
  <2>4. ASSUME NEW id \in Ids, RepairBegin(a) \/ RejectBegin(a, id)  PROVE Of(a)'
    BY <1>0, <1>1, <2>1, <2>4 DEF Typed, RepairBegin, RejectBegin, Start
  <2>5. CASE RepairBegin(a)
    BY <1>0, <1>1, <2>1, <2>5 DEF Typed, RepairBegin, Start
  <2> QED
    BY <1>2, <2>2, <2>3, <2>4, <2>5 DEF Beginning
<1> USE DEF At, GoTo, End, machine, command
<1>3. ASSUME NEW a \in Agents, Proposing(a)  PROVE Of(a)'
  BY <1>0, <1>1, <1>3 DEF Typed, Proposing, Stage, StageFails, WriteProposal, AnnounceProposal,
     Reject, AnnounceRejection
<1>4. ASSUME NEW a \in Agents, Locking(a)  PROVE Of(a)'
  BY <1>0, <1>1, <1>4 DEF Typed, Locking, ReadClock, CreateLock, ListLocks
<1>5. ASSUME NEW a \in Agents, Accepting(a)  PROVE Of(a)'
  BY <1>0, <1>1, <1>5 DEF Typed, Accepting, WriteCommit, Refuse, AnnounceCommit, MoveHead,
     MetadataWriteFails, Release, ReleaseRefused
<1>6. ASSUME NEW a \in Agents, Settling(a)  PROVE Of(a)'
  BY <1>0, <1>1, <1>6 DEF Typed, Settling, Materialize, AnnounceMaterialized, MarkMaterialized,
     MaterializeFails, MarkFailed
<1>7. ASSUME NEW a \in Agents, Decide(a) \/ AnnounceDecision(a) \/ Crash(a)  PROVE Of(a)'
  BY <1>0, <1>1, <1>7 DEF Typed, Decide, AnnounceDecision, Crash
<1>8. ASSUME NEW a \in Agents, Finish(a)  PROVE Of(a)'
  <2>1. doing'[a] = "nothing" /\ (mount'[a] = mount[a] \/ mount'[a] = work[a].id)
    BY <1>0, <1>8 DEF Typed, Finish, MountMoved
  <2>2. work[a].id \in Ids /\ commits[work[a].id].state = "materialized"
    BY <1>8 DEF Finish, Governance, MaterializingOf, MaterializingOK
  <2>3. BaseOK(work[a].id)
    BY <2>2 DEF Governance, RecordsOK, BaseOK, HeadMaterialized
  <2> QED
    BY <1>0, <2>1, <2>3, BaseKept DEF BaseOK
<1>9. ASSUME NEW a \in Agents, Attaching(a)  PROVE Of(a)'
  <2>1. CASE AttachSync(a)
    BY <1>0, <1>1, <2>1 DEF Typed, AttachSync
  <2>2. CASE AttachTrust(a)
    <3>1. doing'[a] = "nothing" /\ (mount'[a] = mount[a] \/ mount'[a] = work[a].base)
          /\ doing[a] = "attach"
      BY <1>0, <2>2 DEF Typed, AttachTrust, StepsMatch
    <3> QED
      BY <1>0, <3>1, BaseKept DEF BaseOK
  <2> QED
    BY <1>9, <2>1, <2>2 DEF Attaching
<1>10. ASSUME NEW a \in Agents, NEW p \in Paths, Edit(a, p)  PROVE Of(a)'
  BY <1>0, <1>1, <1>10 DEF Edit
<1>11. ASSUME NEW b \in Agents, Rests(b)  PROVE Of(b)'
  BY <1>1, <1>11 DEF Rests
<1>12. (\A b \in Agents : Of(b)') => KnownBases'
  BY <1>p DEF KnownBases
<1> QED
  BY OthersRest, <1>2, <1>3, <1>4, <1>5, <1>6, <1>7, <1>8, <1>9, <1>10, <1>11, <1>12 DEF Ending

(* The source is short of the head by what its materialization has left.   *)
Holds(rest) == drifts = 0 => \A p \in Paths \ rest : source[p] = truth[p]
FilesOf(a) ==
  /\ step[a] = "files" => left[a] \subseteq Touched(work[a].change) /\ Holds(left[a])
  /\ step[a] = "mark" => Holds({})
FilesOK ==
  /\ head # None =>
       \A p \in Touched(commits[head].change) : truth[p] = commits[head].change.to[p]
  /\ SourceMatchesHead
  /\ \A a \in Agents : FilesOf(a)

LEMMA FilesStep ==
  ASSUME GovernanceInv, FilesOK, [Next]_vars
  PROVE  FilesOK'
<1> USE DEF GovernanceInv
<1> DEFINE Typed == /\ step \in [Agents -> Steps] /\ doing \in [Agents -> Commands]
                    /\ work \in [Agents -> WorkRecords] /\ left \in [Agents -> SUBSET Paths]
                    /\ head \in Ids \cup {None} /\ commits \in [Ids -> CommitRecords]
                    /\ source \in Trees /\ truth \in Trees /\ drifts \in Nat
<1>0. Typed
  BY TypeParts, SettingsAssumption
     DEF CommandTyped, WorkRecords, MachineTyped, RecordsTyped, FilesTyped
<1>k. (head # None => head \in Accepted) /\ (\A a \in Agents : FilesOf(a)) /\ SourceMatchesHead
      /\ \A a, b \in Agents : Materializing(a) /\ Materializing(b) => a = b
  BY DEF Governance, LineOK, FilesOK, MaterializingOK
<1>m. \A a \in Agents : Materializing(a) =>
        head # None /\ work[a].id = head /\ ~HeadMaterialized /\ commits[head].change = work[a].change
  BY DEF Governance, MaterializingOK, MaterializingOf
<1> HIDE DEF Typed

(* the truth tells what the head's commit changed *)
<1> DEFINE Told == head # None =>
             \A p \in Touched(commits[head].change) : truth[p] = commits[head].change.to[p]
<1>1. Told'
  <2>0. Told
    BY DEF FilesOK
  <2>1. ASSUME NEW a \in Agents, MoveHead(a)  PROVE Told'
    <3> DEFINE id == work[a].id
    <3>1. /\ head' = id /\ id \in Ids /\ UNCHANGED commits
          /\ commits[id] = [state |-> "pending", parent |-> head, change |-> work[a].change,
                            home |-> Owner(a)]
          /\ truth' = Overlay(truth, work[a].change)
      BY <2>1, MoveHeadFacts DEF MoveHead
    <3> HIDE DEF id
    <3>2. commits'[head'].change = work[a].change
      BY <3>1
    <3> QED
      BY <3>1, <3>2 DEF Overlay, Touched
  <2>2. ASSUME NEW a \in Agents, WriteCommit(a)  PROVE Told'
    <3>1. head' = head /\ (head # None => commits'[head] = commits[head]) /\ UNCHANGED truth
      BY <1>k, <2>2, WriteCommitKeeps DEF WriteCommit, files
    <3> QED
      BY <2>0, <3>1 DEF Touched
  <2>3. ASSUME NEW a \in Agents, MarkMaterialized(a) \/ MarkFailed(a)  PROVE Told'
    <3>1. head' = head /\ commits'[head].change = commits[head].change /\ UNCHANGED truth
      BY <2>3, MarkKeeps DEF MarkMaterialized, MarkFailed, files
    <3> QED
      BY <2>0, <3>1 DEF Touched
  <2>4. ASSUME UNCHANGED <<head, commits, truth>>  PROVE Told'
    BY <2>0, <2>4 DEF Touched
  <2>5. ASSUME NEW a \in Agents, WriteProposal(a) \/ Reject(a) \/ Decide(a)
        PROVE  UNCHANGED <<head, commits, truth>>
    BY <2>5 DEF WriteProposal, Reject, Decide, files
  <2>6. UNCHANGED truth \/ \E a \in Agents : MoveHead(a)
    BY FilesKinds DEF Drift, Materialize, files
  <2> QED
    BY RecordsKinds, <2>1, <2>2, <2>3, <2>4, <2>5, <2>6 DEF records

(* the changes of the files *)
<1>2. ASSUME NEW p \in Paths, Drift(p)  PROVE FilesOK'
  <2>1. drifts' # 0 /\ UNCHANGED <<step, left, work>>
    BY <1>0, <1>2 DEF Typed, Drift, command
  <2>2. SourceMatchesHead'
    BY <2>1 DEF SourceMatchesHead
  <2>3. \A a \in Agents : FilesOf(a)'
    BY <1>k, <2>1 DEF FilesOf, Holds, Touched
  <2> QED
    BY <1>1, <2>2, <2>3 DEF FilesOK
<1>3. ASSUME NEW a \in Agents, NEW p \in Paths, Materialize(a, p)  PROVE FilesOK'
  <2>1. Materializing(a) /\ step[a] = "files" /\ p \in left[a]
    BY <1>3 DEF Materialize, At, Materializing
  <2>2. p \in Touched(commits[head].change) /\ head # None /\ ~HeadMaterialized
        /\ commits[head].change = work[a].change
    BY <1>k, <1>m, <2>1 DEF FilesOf
  <2>3. /\ UNCHANGED <<head, commits, work, step, truth, drifts>>
        /\ source' = [source EXCEPT ![p] = work[a].change.to[p]]
        /\ left'[a] = left[a] \ {p}
    BY <1>0, <1>3 DEF Typed, Materialize, metadata
  <2>4. source'[p] = truth[p] /\ \A q \in Paths \ {p} : source'[q] = source[q]
    BY <1>0, <2>2, <2>3 DEF Typed, Trees, FilesOK
  <2>5. SourceMatchesHead'
    BY <1>k, <2>2, <2>3, <2>4 DEF SourceMatchesHead, HeadMaterialized, Touched
  <2>6. FilesOf(a)'
    BY <1>k, <2>1, <2>3, <2>4 DEF FilesOf, Holds, Touched
  <2>7. \A b \in Agents \ {a} : FilesOf(b)'
    BY <1>k, <2>1, <2>3 DEF FilesOf, Materializing
  <2> QED
    BY <1>1, <2>5, <2>6, <2>7 DEF FilesOK
<1>4. ASSUME NEW a \in Agents, MoveHead(a)  PROVE FilesOK'
  <2> DEFINE id == work[a].id
  <2>1. /\ head' = id /\ id \in Ids /\ UNCHANGED <<commits, source, drifts>> /\ HeadMaterialized
        /\ commits[id] = [state |-> "pending", parent |-> head, change |-> work[a].change,
                          home |-> Owner(a)]
        /\ truth' = Overlay(truth, work[a].change) /\ step' = [step EXCEPT ![a] = "release"]
    BY <1>4, MoveHeadFacts DEF MoveHead
  <2> HIDE DEF id
  <2>2. commits'[head'].change = work[a].change /\ commits'[head'].state = "pending" /\ head' # None
    BY <2>1, ConstantsTyped
  <2>3. \A b \in Agents : ~Materializing(b)
    BY <1>m, <2>1
  <2>4. drifts = 0 => \A p \in Paths : source[p] = truth[p]
    BY <1>k, <2>1 DEF SourceMatchesHead
  <2>5. SourceMatchesHead'
    BY <2>1, <2>2, <2>4 DEF SourceMatchesHead, HeadMaterialized, Touched, Overlay
  <2>6. \A b \in Agents : step'[b] \notin {"files", "mark"}
    BY <1>0, <2>1, <2>3 DEF Typed, Materializing
  <2> QED
    BY <1>1, <2>5, <2>6 DEF FilesOK, FilesOf

(* the files stay *)
<1>5. ASSUME UNCHANGED files  PROVE SourceMatchesHead'
  <2>0. UNCHANGED <<source, truth, drifts>>
    BY <1>5 DEF files
  <2>1. ASSUME UNCHANGED <<head, commits>>  PROVE SourceMatchesHead'
    BY <1>k, <2>0, <2>1 DEF SourceMatchesHead, HeadMaterialized, Touched
  <2>2. ASSUME NEW a \in Agents, WriteProposal(a) \/ Reject(a) \/ Decide(a)
        PROVE  UNCHANGED <<head, commits>>
    BY <2>2, ProposalFacts
  <2>3. ASSUME NEW a \in Agents, WriteCommit(a)  PROVE SourceMatchesHead'
    BY <1>k, <2>0, <2>3, WriteCommitKeeps DEF SourceMatchesHead
  <2>4. ASSUME NEW a \in Agents, MoveHead(a)  PROVE SourceMatchesHead'
    BY <1>4, <2>4 DEF FilesOK
  <2>5. ASSUME NEW a \in Agents, MarkMaterialized(a)  PROVE SourceMatchesHead'
    <3>1. step[a] = "mark"
      BY <2>5 DEF MarkMaterialized, At
    <3> QED
      BY <1>k, <2>0, <3>1 DEF FilesOf, Holds, SourceMatchesHead
  <2>6. ASSUME NEW a \in Agents, MarkFailed(a), ~MarkMaterialized(a)  PROVE SourceMatchesHead'
    <3>1. head \in Ids /\ ~HeadMaterialized
      BY <2>6, MarkFacts
    <3>2. head' = head /\ commits'[head].change = commits[head].change
          /\ commits'[head].state = "failed"
      BY <2>6, MarkKeeps
    <3> QED
      BY <1>k, <2>0, <3>1, <3>2, ConstantsTyped DEF SourceMatchesHead, HeadMaterialized, Touched
  <2> QED
    BY RecordsKinds, <2>1, <2>2, <2>3, <2>4, <2>5, <2>6 DEF records
<1>6. ASSUME UNCHANGED files, NEW b \in Agents, Rests(b)  PROVE FilesOf(b)'
  BY <1>k, <1>6 DEF FilesOf, Holds, Touched, Rests, files
<1>7. ASSUME UNCHANGED files, NEW a \in Agents, step'[a] \notin {"files", "mark"}  PROVE FilesOf(a)'
  BY <1>7 DEF FilesOf
<1>8. ASSUME UNCHANGED files, NEW a \in Agents, AnnounceMaterialized(a)  PROVE FilesOf(a)'
  <2>1. step[a] = "files" /\ left[a] = {} /\ step'[a] = "mark"
    BY <1>0, <1>8 DEF Typed, AnnounceMaterialized, At, GoTo
  <2> QED
    BY <1>k, <1>8, <2>1 DEF FilesOf, Holds, files
<1>9. ASSUME UNCHANGED files, NEW a \in Agents, Release(a) \/ RepairBegin(a)  PROVE FilesOf(a)'
  <2>1. /\ step'[a] = "files" /\ UNCHANGED <<head, commits>>
        /\ left'[a] = Touched(work'[a].change)
    BY <1>0, <1>9 DEF Typed, Release, RepairBegin, Start, GoTo, Staged, Touched, metadata
  <2>2. head # None /\ ~HeadMaterialized /\ work'[a].change = commits[head].change
    <3>1. CASE Release(a)
      <4>1. Materializing(a) /\ work' = work
        BY <3>1 DEF Release, At, Materializing
      <4> QED
        BY <1>m, <4>1
    <3>2. CASE RepairBegin(a)
      BY <1>0, <3>2 DEF Typed, RepairBegin, Start, NeedsRepair, HeadMaterialized
    <3> QED
      BY <1>9, <3>1, <3>2
  <2> QED
    BY <1>k, <1>9, <2>1, <2>2 DEF FilesOf, Holds, SourceMatchesHead, Touched, files
<1>10. ASSUME UNCHANGED files, NEW a \in Agents, NEW p \in Paths, Edit(a, p)  PROVE FilesOf(a)'
  BY <1>k, <1>10 DEF Edit, FilesOf, Holds, Touched, files, command
<1> USE DEF At, GoTo, Start, End
<1>11. ASSUME UNCHANGED files, NEW a \in Agents,
              Beginning(a) \/ Proposing(a) \/ Locking(a) \/ Attaching(a)
       PROVE  FilesOf(a)'
  <2>1. Beginning(a) => RepairBegin(a) \/ step'[a] \notin {"files", "mark"}
    BY <1>0 DEF Typed, Beginning, ApplyBegin, ProposeBegin, Begin, AttachBegin, AcceptBegin,
       RejectBegin
  <2>2. Proposing(a) => step'[a] \notin {"files", "mark"}
    BY <1>0 DEF Typed, Proposing, Stage, StageFails, WriteProposal, AnnounceProposal, Reject,
       AnnounceRejection
  <2>3. Locking(a) \/ Attaching(a) => step'[a] \notin {"files", "mark"}
    BY <1>0 DEF Typed, Locking, ReadClock, CreateLock, ListLocks, Attaching, AttachSync, AttachTrust
  <2> QED
    BY <1>7, <1>9, <1>11, <2>1, <2>2, <2>3
<1>12. ASSUME UNCHANGED files, NEW a \in Agents, Accepting(a)  PROVE FilesOf(a)'
  <2>1. Accepting(a) => Release(a) \/ step'[a] \notin {"files", "mark"}
    BY <1>0 DEF Typed, Accepting, WriteCommit, Refuse, AnnounceCommit, MoveHead,
       MetadataWriteFails, ReleaseRefused
  <2> QED
    BY <1>7, <1>9, <1>12, <2>1
<1>13. ASSUME UNCHANGED files, NEW a \in Agents, Settling(a)  PROVE FilesOf(a)' \/ FilesOK'
  <2>1. \/ AnnounceMaterialized(a) \/ step'[a] \notin {"files", "mark"}
        \/ \E p \in Paths : Materialize(a, p)
    BY <1>0, <1>13 DEF Typed, Settling, MarkMaterialized, MaterializeFails, MarkFailed
  <2> QED
    BY <1>3, <1>7, <1>8, <1>13, <2>1
<1>14. ASSUME UNCHANGED files, NEW a \in Agents, Ending(a)  PROVE FilesOf(a)'
  <2>1. step'[a] \notin {"files", "mark"}
    BY <1>0, <1>14 DEF Typed, Ending, Decide, AnnounceDecision, Finish, Crash
  <2> QED
    BY <1>7, <1>14, <2>1
<1>15. ASSUME UNCHANGED files  PROVE FilesOK'
  <2>1. ASSUME NEW a \in Agents, FilesOf(a)', \A b \in Agents \ {a} : Rests(b)
        PROVE  \A b \in Agents : FilesOf(b)'
    BY <1>6, <1>15, <2>1
  <2>2. (\A b \in Agents : Rests(b)) => \A b \in Agents : FilesOf(b)'
    BY <1>6, <1>15
  <2>3. (\A b \in Agents : FilesOf(b)') \/ FilesOK'
    BY OthersRest, <1>10, <1>11, <1>12, <1>13, <1>14, <1>15, <2>1, <2>2
  <2> QED
    BY <1>1, <1>5, <1>15, <2>3 DEF FilesOK
<1> QED
  BY FilesKinds, <1>2, <1>3, <1>4, <1>15

(* A change made on the base that is the head now starts from the versions *)
(* that the commits so far add up to.                                      *)
Current(base, change) ==
  drifts = 0 /\ base = head => \A p \in Touched(change) : change.from[p] = truth[p]
Intends(a) ==
  step[a] \in {"propose", "proposed", "lock", "create", "list", "check", "announce", "move"}
CurrentOf(a) == Intends(a) => Current(work[a].base, work[a].change)
ProposalsCurrent ==
  \A id \in Ids : proposals[id] # NoProposal => Current(proposals[id].base, proposals[id].change)
ChangesCurrent == ProposalsCurrent /\ \A a \in Agents : CurrentOf(a)

LEMMA CurrentKept ==
  ASSUME GovernanceInv, [Next]_vars, NEW base, NEW change, BaseOK(base), Current(base, change)
  PROVE  drifts' = 0 /\ base = head' => \A p \in Touched(change) : change.from[p] = truth'[p]
<1>1. ASSUME drifts' = 0  PROVE drifts = 0
  <2>1. drifts \in Nat
    BY TypeParts DEF GovernanceInv, FilesTyped
  <2>2. ~ \E p \in Paths : Drift(p)
    BY <1>1, <2>1 DEF Drift
  <2> QED
    BY <1>1, <2>2, FilesKinds DEF files, MoveHead, Materialize
<1>2. ASSUME base = head'  PROVE base = head /\ UNCHANGED truth
  <2>1. ~ \E a \in Agents : MoveHead(a)
    BY <1>2, MoveHeadFacts, ConstantsTyped DEF BaseOK, GovernanceInv
  <2> QED
    BY <1>2, <2>1, FilesKinds, HeadKinds DEF files, Drift, Materialize
<1> QED
  BY <1>1, <1>2 DEF Current

LEMMA ChangesCurrentStep ==
  ASSUME GovernanceInv, KnownBases, FilesOK, ChangesCurrent, [Next]_vars
  PROVE  ChangesCurrent'
<1> USE DEF GovernanceInv, Intends
<1> DEFINE Typed == /\ step \in [Agents -> Steps] /\ doing \in [Agents -> Commands]
                    /\ work \in [Agents -> WorkRecords]
<1>0. Typed /\ StepsMatch /\ (\A a \in Agents : CurrentOf(a)) /\ ProposalsCurrent
  BY TypeParts DEF CommandTyped, WorkRecords, Governance, ChangesCurrent
<1>b. /\ \A id \in Ids : proposals[id] # NoProposal => BaseOK(proposals[id].base)
      /\ \A a \in Agents : Intends(a) \/ step[a] = "compare" => BaseOK(work[a].base)
  <2>1. \A a \in Agents : Intends(a) \/ step[a] = "compare" =>
          doing[a] \in {"apply", "propose", "accept"}
    BY <1>0 DEF StepsMatch
  <2> QED
    BY <2>1 DEF KnownBases, ProposalBasesKnown
<1> HIDE DEF Typed
<1>p. ProposalsCurrent'
  <2>1. CASE UNCHANGED proposals
    BY <1>0, <1>b, <2>1, CurrentKept DEF ProposalsCurrent, Current, Touched
  <2>2. ASSUME NEW a \in Agents, WriteProposal(a) \/ Reject(a) \/ Decide(a)
        PROVE  ProposalsCurrent'
    <3> SUFFICES ASSUME NEW id \in Ids, proposals'[id] # NoProposal, drifts' = 0,
                        proposals'[id].base = head', NEW p \in Paths,
                        proposals'[id].change.from[p] # proposals'[id].change.to[p]
                 PROVE  proposals'[id].change.from[p] = truth'[p]
      BY DEF ProposalsCurrent, Current, Touched
    <3>1. WriteProposal(a) => Intends(a)
      BY <1>0 DEF WriteProposal, At
    <3>2. \/ /\ proposals[id] # NoProposal /\ proposals'[id].base = proposals[id].base
             /\ proposals'[id].change = proposals[id].change
          \/ /\ WriteProposal(a) /\ proposals'[id].base = work[a].base
             /\ proposals'[id].change = work[a].change
      BY <2>2, ProposalFacts
    <3>3. CASE /\ proposals[id] # NoProposal /\ proposals'[id].base = proposals[id].base
               /\ proposals'[id].change = proposals[id].change
      <4>1. BaseOK(proposals[id].base) /\ Current(proposals[id].base, proposals[id].change)
        BY <1>0, <1>b, <3>3 DEF ProposalsCurrent
      <4> QED
        BY <3>3, <4>1, CurrentKept DEF Touched
    <3>4. CASE /\ WriteProposal(a) /\ proposals'[id].base = work[a].base
               /\ proposals'[id].change = work[a].change
      <4>1. BaseOK(work[a].base) /\ Current(work[a].base, work[a].change)
        BY <1>0, <1>b, <3>1, <3>4 DEF CurrentOf
      <4> QED
        BY <3>4, <4>1, CurrentKept DEF Touched
    <3> QED
      BY <3>2, <3>3, <3>4
  <2>3. \A a \in Agents : WriteCommit(a) \/ MoveHead(a) \/ MarkMaterialized(a) \/ MarkFailed(a)
          => UNCHANGED proposals
    BY WriteCommitKeeps, MoveHeadFacts, MarkKeeps
  <2> QED
    BY RecordsKinds, <2>1, <2>2, <2>3 DEF records
<1>1. ASSUME NEW a \in Agents, work'[a].base = work[a].base, work'[a].change = work[a].change,
             Intends(a)' => Intends(a)
      PROVE  CurrentOf(a)'
  <2> SUFFICES ASSUME Intends(a), drifts' = 0, work[a].base = head', NEW p \in Paths,
                      work[a].change.from[p] # work[a].change.to[p]
               PROVE  work[a].change.from[p] = truth'[p]
    BY <1>1 DEF CurrentOf, Current, Touched
  <2>1. BaseOK(work[a].base) /\ Current(work[a].base, work[a].change)
    BY <1>0, <1>b DEF CurrentOf
  <2> QED
    BY <2>1, CurrentKept DEF Touched
<1>2. ASSUME NEW a \in Agents, Stage(a)  PROVE CurrentOf(a)'
  <2>1. /\ UNCHANGED <<source, truth, drifts, head, commits>>
        /\ work'[a] = [id |-> None, base |-> work[a].base,
                       change |-> [from |-> source, to |-> tree[a]]]
        /\ BaseOK(work[a].base)
    BY <1>0, <1>2, <1>b DEF Typed, Stage, At, files, metadata
  <2>2. work'[a].base = work[a].base /\ work'[a].change.from = source
    BY <2>1
  <2>3. work[a].base = head /\ drifts = 0 => \A p \in Paths : source[p] = truth[p]
    BY <2>1 DEF BaseOK, FilesOK, SourceMatchesHead
  <2> QED
    BY <2>1, <2>2, <2>3 DEF CurrentOf, Current, Touched
<1>3. ASSUME NEW a \in Agents, NEW id \in Ids, AcceptBegin(a, id)  PROVE CurrentOf(a)'
  <2>1. /\ UNCHANGED <<truth, drifts, head>> /\ proposals[id].status = "proposed"
        /\ work'[a] = [id |-> id, base |-> proposals[id].base, change |-> proposals[id].change]
    BY <1>0, <1>3 DEF Typed, AcceptBegin, Start, files, metadata
  <2>2. proposals[id] # NoProposal /\ work'[a].base = proposals[id].base
        /\ work'[a].change = proposals[id].change
    BY <2>1 DEF NoProposal
  <2> QED
    BY <1>0, <2>1, <2>2 DEF ProposalsCurrent, CurrentOf, Current, Touched
<1>4. ASSUME NEW a \in Agents, ~Intends(a)'  PROVE CurrentOf(a)'
  BY <1>4 DEF CurrentOf
<1> USE DEF At, GoTo, Start, End, command
<1>5. ASSUME NEW a \in Agents, Beginning(a)  PROVE CurrentOf(a)'
  <2>1. (\E id \in Ids : AcceptBegin(a, id)) \/ ~Intends(a)'
    BY <1>0, <1>5 DEF Typed, Beginning, ApplyBegin, ProposeBegin, Begin, RepairBegin, AttachBegin,
       RejectBegin
  <2> QED
    BY <1>3, <1>4, <2>1
<1>6. ASSUME NEW a \in Agents, Proposing(a)  PROVE CurrentOf(a)'
  <2>1. CASE WriteProposal(a)
    BY <1>0, <1>1, <2>1 DEF Typed, WriteProposal
  <2>2. CASE StageFails(a) \/ AnnounceProposal(a) \/ Reject(a) \/ AnnounceRejection(a)
    BY <1>0, <1>4, <2>2 DEF Typed, StageFails, AnnounceProposal, Reject, AnnounceRejection
  <2> QED
    BY <1>2, <1>6, <2>1, <2>2 DEF Proposing
<1>7. ASSUME NEW a \in Agents, Locking(a)  PROVE CurrentOf(a)'
  <2>1. (work'[a] = work[a] /\ (Intends(a)' => Intends(a))) \/ ~Intends(a)'
    BY <1>0, <1>7 DEF Typed, Locking, ReadClock, CreateLock, ListLocks
  <2> QED
    BY <1>1, <1>4, <2>1
<1>8. ASSUME NEW a \in Agents, Accepting(a)  PROVE CurrentOf(a)'
  <2>1. (/\ work'[a].base = work[a].base /\ work'[a].change = work[a].change
         /\ (Intends(a)' => Intends(a))) \/ ~Intends(a)'
    BY <1>0, <1>8 DEF Typed, Accepting, WriteCommit, Refuse, AnnounceCommit, MoveHead,
       MetadataWriteFails, Release, ReleaseRefused
  <2> QED
    BY <1>1, <1>4, <2>1
<1>9. ASSUME NEW a \in Agents, Settling(a)  PROVE CurrentOf(a)'
  <2>1. ~Intends(a)'
    BY <1>0, <1>9 DEF Typed, Settling, Materialize, AnnounceMaterialized, MarkMaterialized,
       MaterializeFails, MarkFailed
  <2> QED
    BY <1>4, <2>1
<1>10. ASSUME NEW a \in Agents, Ending(a) \/ Attaching(a)  PROVE CurrentOf(a)'
  <2>1. ~Intends(a)'
    BY <1>0, <1>10 DEF Typed, Ending, Decide, AnnounceDecision, Finish, Crash, Attaching,
       AttachSync, AttachTrust
  <2> QED
    BY <1>4, <2>1
<1>11. ASSUME NEW a \in Agents, NEW p \in Paths, Edit(a, p)  PROVE CurrentOf(a)'
  BY <1>1, <1>11 DEF Edit
<1>12. ASSUME NEW a \in Agents, Rests(a)  PROVE CurrentOf(a)'
  BY <1>1, <1>12 DEF Rests
<1> QED
  BY OthersRest, <1>p, <1>5, <1>6, <1>7, <1>8, <1>9, <1>10, <1>11, <1>12 DEF ChangesCurrent

SourceInv == GovernanceInv /\ KnownBases /\ FilesOK /\ ChangesCurrent

LEMMA SourceInvariant == ASSUME Paced PROVE Spec => []SourceInv
<1>1. Init => SourceInv
  <2> SUFFICES ASSUME Init PROVE SourceInv
    OBVIOUS
  <2>1. GovernanceInv
    BY GovernanceInitially
  <2>2. KnownBases
    BY DEF Init, KnownBases, ProposalBasesKnown, BaseOK, HeadMaterialized
  <2>3. FilesOK
    BY DEF Init, FilesOK, FilesOf, SourceMatchesHead
  <2>4. ChangesCurrent
    BY DEF Init, ChangesCurrent, ProposalsCurrent, CurrentOf, Intends
  <2> QED
    BY <2>1, <2>2, <2>3, <2>4 DEF SourceInv
<1>2. SourceInv /\ [Next]_vars => SourceInv'
  BY GovernanceStep, KnownBasesStep, FilesStep, ChangesCurrentStep DEF SourceInv
<1> QED
  BY <1>1, <1>2, PTL DEF Spec

(* But for ungoverned edits, the source holds what the accepted commits    *)
(* add up to, save for the paths of a head commit that is not materialized *)
(* yet, whatever commands died on the way and were repaired.               *)
THEOREM SourceFollowsHead == ASSUME Paced PROVE Spec => []SourceMatchesHead
<1>1. SourceInv => SourceMatchesHead
  BY DEF SourceInv, FilesOK
<1> QED
  BY <1>1, SourceInvariant, PTL

(* A commit that becomes the head replaces the versions its author saw,    *)
(* never a commit the author had not seen; and so says every other command *)
(* that names the commit.                                                  *)
THEOREM NothingLost == ASSUME Paced PROVE Spec => NoLostUpdate
<1> DEFINE Keeps == \A a \in Agents : drifts = 0 /\ head' # head /\ head' = work[a].id =>
              \A p \in Touched(work[a].change) : work[a].change.from[p] = truth[p]
<1>1. SourceInv /\ [Next]_vars => Keeps
  <2> SUFFICES ASSUME SourceInv, [Next]_vars, NEW a \in Agents, drifts = 0, head' # head,
                      head' = work[a].id
               PROVE  \A p \in Touched(work[a].change) : work[a].change.from[p] = truth[p]
    OBVIOUS
  <2> USE DEF SourceInv, GovernanceInv
  <2>1. PICK m \in Agents : MoveHead(m)
    BY HeadKinds
  <2> DEFINE id == work[a].id
  <2>2. /\ id = work[m].id /\ id \in Ids /\ work[m].base = head
        /\ commits[id] = [state |-> "pending", parent |-> head, change |-> work[m].change,
                          home |-> Owner(m)]
    BY <2>1, MoveHeadFacts
  <2>3. commits[id].change = work[m].change /\ commits[id] # NoCommit
    <3> HIDE DEF id
    <3>1. commits[id].change = work[m].change /\ commits[id].state = "pending"
      BY <2>2
    <3> QED
      BY <3>1 DEF NoCommit
  <2>4. \A p \in Touched(work[m].change) : work[m].change.from[p] = truth[p]
    BY <2>1, <2>2 DEF MoveHead, At, ChangesCurrent, CurrentOf, Intends, Current
  <2>5. WorkOf(a) /\ doing[a] \in Commands /\ step[a] \in Steps /\ StepsMatch
    BY TypeParts DEF Governance, WorkOK, CommandTyped
  <2>6. CASE doing[a] \in {"apply", "repair"}
    BY <2>2, <2>3, <2>4, <2>5, <2>6, ConstantsTyped DEF WorkOf
  <2>7. CASE doing[a] = "accept" \/ step[a] = "proposed"
    BY <2>2, <2>3, <2>4, <2>5, <2>7 DEF WorkOf, Governance, RecordsOK
  <2>8. CASE doing[a] = "reject"
    BY <2>5, <2>8 DEF WorkOf, NoChange, Touched
  <2>9. CASE doing[a] \in {"nothing", "attach"} \/ step[a] \in {"compare", "propose"}
    BY <2>2, <2>5, <2>9, ConstantsTyped DEF WorkOf
  <2>10. doing[a] = "propose" => step[a] \in {"compare", "propose", "proposed"}
    BY <2>5 DEF StepsMatch, Steps
  <2> QED
    BY <2>5, <2>6, <2>7, <2>8, <2>9, <2>10 DEF Commands
<1>2. SourceInv /\ [Next]_vars => [Keeps]_vars
  BY <1>1
<1> QED
  BY <1>2, SourceInvariant, PTL DEF Spec, NoLostUpdate

-----------------------------------------------------------------------------
(* The event log.                                                          *)
EventsOf(a) ==
  /\ step[a] = "move" => <<"commit.accepted", work[a].id>> \in events
  /\ step[a] = "mark" => <<"commit.materialized", work[a].id>> \in events
EventsOK == EventsComplete /\ \A a \in Agents : EventsOf(a)

LEMMA EventsStep ==
  ASSUME GovernanceInv, EventsOK, [Next]_vars
  PROVE  EventsOK'
<1> USE DEF GovernanceInv, EventsOf, Announce
<1> DEFINE Typed == step \in [Agents -> Steps]
<1>0. Typed /\ \A a \in Agents : EventsOf(a)
  BY TypeParts DEF CommandTyped, EventsOK
<1> HIDE DEF Typed
<1>1. events \subseteq events'
  <2> USE DEF vars, metadata
  <2>1. \A a \in Agents : Beginning(a) => events' = events
    BY DEF Beginning, ApplyBegin, ProposeBegin, Begin, RepairBegin, AttachBegin, AcceptBegin,
       RejectBegin
  <2>2. \A a \in Agents : Proposing(a) \/ Locking(a) => events \subseteq events'
    BY DEF Proposing, Stage, StageFails, WriteProposal, AnnounceProposal, Reject,
       AnnounceRejection, Locking, ReadClock, CreateLock, ListLocks
  <2>3. \A a \in Agents : Accepting(a) => events \subseteq events'
    BY DEF Accepting, WriteCommit, Refuse, AnnounceCommit, MoveHead, MetadataWriteFails, Release,
       ReleaseRefused
  <2>4. \A a \in Agents : Settling(a) => events \subseteq events'
    BY DEF Settling, Materialize, AnnounceMaterialized, MarkMaterialized, MaterializeFails,
       MarkFailed
  <2>5. \A a \in Agents : Ending(a) \/ Attaching(a) => events \subseteq events'
    BY DEF Ending, Decide, AnnounceDecision, Finish, Crash, Attaching, AttachSync, AttachTrust
  <2>6. \A a \in Agents, p \in Paths : Edit(a, p) => events' = events
    BY DEF Edit
  <2>7. (Tick => events' = events) /\ \A p \in Paths : Drift(p) => events' = events
    BY DEF Tick, Drift
  <2> QED
    BY NextCases, <2>1, <2>2, <2>3, <2>4, <2>5, <2>6, <2>7
<1>2. EventsComplete'
  <2>0. EventsComplete
    BY DEF EventsOK
  <2>1. ASSUME accepted' = accepted, \A id \in Ids : commits'[id].state = "materialized" =>
                                       commits[id].state = "materialized"
        PROVE  EventsComplete'
    BY <1>1, <2>0, <2>1 DEF EventsComplete
  <2>2. ASSUME NEW a \in Agents, WriteProposal(a) \/ Reject(a) \/ Decide(a)
        PROVE  UNCHANGED <<accepted, commits>>
    BY <2>2, ProposalFacts
  <2>3. ASSUME NEW a \in Agents, WriteCommit(a)
        PROVE  /\ accepted' = accepted
               /\ \A id \in Ids : commits'[id].state = "materialized" =>
                                    commits[id].state = "materialized"
    <3>1. PICK i \in Ids : commits' = [commits EXCEPT ![i] =
                 [state |-> "pending", parent |-> head, change |-> work[a].change,
                  home |-> Owner(a)]]
      BY <2>3, WriteCommitFacts
    <3>2. commits \in [Ids -> CommitRecords] /\ accepted' = accepted
      BY <2>3, TypeParts DEF RecordsTyped, WriteCommit
    <3> QED
      BY <3>1, <3>2
  <2>4. ASSUME NEW a \in Agents, MoveHead(a)  PROVE EventsComplete'
    <3> DEFINE id == work[a].id
    <3>1. accepted' = accepted \cup {<<id, head>>} /\ UNCHANGED commits
      BY <2>4, MoveHeadFacts
    <3>2. <<"commit.accepted", id>> \in events
      BY <1>0, <2>4 DEF MoveHead, At
    <3> HIDE DEF id
    <3> QED
      BY <1>1, <2>0, <3>1, <3>2 DEF EventsComplete
  <2>5. ASSUME NEW a \in Agents, MarkMaterialized(a)  PROVE EventsComplete'
    <3>1. <<"commit.materialized", head>> \in events
      BY <1>0, <2>5, MarkFacts DEF MarkMaterialized, At
    <3> QED
      BY <1>1, <2>0, <2>5, <3>1, MarkKeeps DEF EventsComplete
  <2>6. ASSUME NEW a \in Agents, MarkFailed(a), ~MarkMaterialized(a)  PROVE EventsComplete'
    <3>1. accepted' = accepted /\ commits'[head].state = "failed"
          /\ \A id \in Ids \ {head} : commits'[id] = commits[id]
      BY <2>6, MarkKeeps
    <3> QED
      BY <2>1, <3>1
  <2>7. UNCHANGED records => EventsComplete'
    BY <2>1 DEF records
  <2>8. ASSUME NEW a \in Agents, WriteProposal(a) \/ Reject(a) \/ Decide(a) \/ WriteCommit(a)
        PROVE  EventsComplete'
    BY <2>1, <2>2, <2>3, <2>8
  <2> QED
    BY RecordsKinds, <2>4, <2>5, <2>6, <2>7, <2>8
<1>3. ASSUME NEW a \in Agents, (step'[a] \in {"move", "mark"} => step'[a] = step[a] /\ work'[a] = work[a])
      PROVE  EventsOf(a)'
  BY <1>0, <1>1, <1>3
<1>4. ASSUME NEW a \in Agents, AnnounceCommit(a) \/ AnnounceMaterialized(a)  PROVE EventsOf(a)'
  BY <1>0, <1>4 DEF Typed, AnnounceCommit, AnnounceMaterialized, GoTo
<1> USE DEF At, GoTo, Start, End, command
<1>5. ASSUME NEW a \in Agents, Beginning(a)  PROVE EventsOf(a)'
  <2>1. step'[a] \notin {"move", "mark"}
    BY <1>0, <1>5 DEF Typed, Beginning, ApplyBegin, ProposeBegin, Begin, RepairBegin, AttachBegin,
       AcceptBegin, RejectBegin
  <2> QED
    BY <2>1
<1>6. ASSUME NEW a \in Agents, Proposing(a) \/ Locking(a)  PROVE EventsOf(a)'
  <2>1. step'[a] \notin {"move", "mark"}
    BY <1>0, <1>6 DEF Typed, Proposing, Stage, StageFails, WriteProposal, AnnounceProposal, Reject,
       AnnounceRejection, Locking, ReadClock, CreateLock, ListLocks
  <2> QED
    BY <2>1
<1>7. ASSUME NEW a \in Agents, Accepting(a)  PROVE EventsOf(a)'
  <2>1. AnnounceCommit(a) \/ step'[a] \notin {"move", "mark"}
    BY <1>0, <1>7 DEF Typed, Accepting, WriteCommit, Refuse, MoveHead, MetadataWriteFails,
       Release, ReleaseRefused
  <2> QED
    BY <1>4, <2>1
<1>8. ASSUME NEW a \in Agents, Settling(a)  PROVE EventsOf(a)'
  <2>1. AnnounceMaterialized(a) \/ step'[a] \notin {"move", "mark"}
    BY <1>0, <1>8 DEF Typed, Settling, Materialize, MarkMaterialized, MaterializeFails, MarkFailed
  <2> QED
    BY <1>4, <2>1
<1>9. ASSUME NEW a \in Agents, Ending(a) \/ Attaching(a)  PROVE EventsOf(a)'
  <2>1. step'[a] \notin {"move", "mark"}
    BY <1>0, <1>9 DEF Typed, Ending, Decide, AnnounceDecision, Finish, Crash, Attaching,
       AttachSync, AttachTrust
  <2> QED
    BY <2>1
<1>10. ASSUME NEW a \in Agents, NEW p \in Paths, Edit(a, p)  PROVE EventsOf(a)'
  BY <1>3, <1>10 DEF Edit
<1>11. ASSUME NEW a \in Agents, Rests(a)  PROVE EventsOf(a)'
  BY <1>3, <1>11 DEF Rests
<1> QED
  BY OthersRest, <1>2, <1>5, <1>6, <1>7, <1>8, <1>9, <1>10, <1>11 DEF EventsOK

(* The event log tells of every commit that became the head, and of every  *)
(* commit whose record says its files are in the source.                   *)
THEOREM EventsTold == ASSUME Paced PROVE Spec => []EventsComplete
<1>1. Init => EventsOK
  BY DEF Init, EventsOK, EventsOf, EventsComplete, NoCommit
<1>2. GovernanceInv /\ EventsOK /\ [Next]_vars => EventsOK'
  BY EventsStep
<1>3. EventsOK => EventsComplete
  BY DEF EventsOK
<1> QED
  BY <1>1, <1>2, <1>3, GovernanceInvariant, PTL DEF Spec

-----------------------------------------------------------------------------
(* The rows of a machine and the files its local root was made from.       *)

(* The rows of an attached root are the files it was made from, but where  *)
(* its own commit is being materialized, or was and failed.                *)
Agree(a, but) == \A p \in Paths \ but : trusted[a][p] = basis[a][p]
Settles(a) ==
  doing[a] \in {"apply", "repair"} /\ step[a] \in {"release", "files", "mark", "finish", "fail"}
Written(a, but) ==
  \A p \in Touched(work[a].change) \ but : trusted[a][p] = work[a].change.to[p]
EditsOf(a) ==
  doing[a] \in {"apply", "propose"} =>
    \A p \in Touched(work[a].change) : work[a].change.to[p] # basis[a][p]
HeadOf(a) == head # None /\ ~HeadMaterialized /\ commits[head].home = a
RowsOf(a) ==
  /\ a \notin reset =>
       /\ attached[a] /\ mount[a] = head => Agree(a, {})
       /\ doing[a] \in {"apply", "propose"} /\ (step[a] = "compare" \/ Intends(a)) => Agree(a, {})
       /\ Settles(a) => Agree(a, Touched(work[a].change))
       /\ Settles(a) /\ step[a] = "files" => Written(a, left[a])
       /\ Settles(a) /\ step[a] \in {"mark", "finish"} => Written(a, {})
       /\ HeadOf(a) => Agree(a, Touched(commits[head].change))
       /\ EditsOf(a)
  /\ step[a] \in {"sync", "trust"} => a \in reset
  /\ step[a] = "trust" => trusted[a] = work[a].change.to
RowsOK == \A a \in Agents : RowsOf(a)

(* The head becomes an agent's own only by the agent's doing. *)
LEMMA HomeKept ==
  ASSUME GovernanceInv, [Next]_vars, NEW b \in Agents, ~MoveHead(b), HeadOf(b)'
  PROVE  HeadOf(b) /\ head' = head /\ commits'[head].change = commits[head].change
<1> USE ConstantsTyped DEF GovernanceInv, HeadOf
<1>k. (head # None => head \in Accepted) /\ head \in Ids \cup {None}
  BY TypeParts DEF Governance, LineOK, RecordsTyped
<1>1. CASE UNCHANGED records
  BY <1>1 DEF records, HeadMaterialized
<1>2. ASSUME NEW a \in Agents, WriteProposal(a) \/ Reject(a) \/ Decide(a)
      PROVE  UNCHANGED <<head, commits>>
  BY <1>2, ProposalFacts
<1>3. ASSUME NEW a \in Agents, WriteCommit(a)  PROVE FALSE
  BY <1>3, WriteCommitKeeps
<1>4. ASSUME NEW a \in Agents, MoveHead(a)  PROVE FALSE
  <2> DEFINE id == work[a].id
  <2>1. /\ head' = id /\ UNCHANGED commits
        /\ commits[id] = [state |-> "pending", parent |-> head, change |-> work[a].change,
                          home |-> Owner(a)]
    BY <1>4, MoveHeadFacts
  <2> HIDE DEF id
  <2>2. commits'[head'].home = Owner(a)
    BY <2>1
  <2> QED
    BY <1>4, <2>2 DEF Owner
<1>5. ASSUME NEW a \in Agents, MarkMaterialized(a) \/ MarkFailed(a)
      PROVE  HeadOf(b) /\ head' = head /\ commits'[head].change = commits[head].change
  BY <1>5, MarkFacts, MarkKeeps
<1>6. UNCHANGED <<head, commits>> =>
        HeadOf(b) /\ head' = head /\ commits'[head].change = commits[head].change
  BY DEF HeadMaterialized
<1> QED
  BY RecordsKinds, <1>1, <1>2, <1>3, <1>4, <1>5, <1>6 DEF records

(* A mount is never the commit that the head moves to. *)
LEMMA MountKept ==
  ASSUME GovernanceInv, KnownBases, [Next]_vars, NEW b \in Agents, mount[b] = head'
  PROVE  mount[b] = head
BY HeadKinds DEF KnownBases, BaseOK

LEMMA RowsKept ==
  ASSUME GovernanceInv, KnownBases, [Next]_vars, NEW b \in Agents, RowsOf(b),
         doing'[b] = doing[b], step'[b] = step[b], left'[b] = left[b],
         trusted'[b] = trusted[b], basis'[b] = basis[b], work'[b].change = work[b].change,
         mount'[b] = mount[b], attached'[b] = attached[b], b \in reset' <=> b \in reset
  PROVE  RowsOf(b)'
<1>1. ~MoveHead(b)
  <2>1. step \in [Agents -> Steps]
    BY TypeParts DEF GovernanceInv, CommandTyped
  <2> QED
    BY <2>1 DEF MoveHead, At, GoTo
<1>2. HeadOf(b)' => HeadOf(b) /\ commits'[head'].change = commits[head].change
  BY <1>1, HomeKept
<1>3. attached'[b] /\ mount'[b] = head' => attached[b] /\ mount[b] = head
  BY MountKept
<1> QED
  BY <1>2, <1>3 DEF RowsOf, Agree, Settles, Written, EditsOf, Intends, Touched

(* An idle machine only has its mount and its commit to answer for. *)
LEMMA RowsIdle ==
  ASSUME GovernanceInv, KnownBases, [Next]_vars, NEW a \in Agents, RowsOf(a), ~MoveHead(a),
         doing'[a] \in {"nothing", "accept", "reject"}, step'[a] \notin {"sync", "trust"},
         trusted'[a] = trusted[a], basis'[a] = basis[a],
         mount'[a] = mount[a], attached'[a] = attached[a], a \in reset' <=> a \in reset
  PROVE  RowsOf(a)'
<1>1. HeadOf(a)' => HeadOf(a) /\ commits'[head'].change = commits[head].change
  BY HomeKept
<1>2. attached'[a] /\ mount'[a] = head' => attached[a] /\ mount[a] = head
  BY MountKept
<1> QED
  BY <1>1, <1>2 DEF RowsOf, Agree, Settles, EditsOf, Touched

LEMMA RowsStep ==
  ASSUME Deciders \cap Rooted = {}, SourceInv, RowsOK, [Next]_vars
  PROVE  RowsOK'
<1> USE DEF SourceInv, GovernanceInv
<1> DEFINE Typed == /\ step \in [Agents -> Steps] /\ doing \in [Agents -> Commands]
                    /\ work \in [Agents -> WorkRecords] /\ left \in [Agents -> SUBSET Paths]
                    /\ trusted \in [Agents -> Trees] /\ basis \in [Agents -> Trees]
                    /\ tree \in [Agents -> Trees] /\ source \in Trees
                    /\ mount \in [Agents -> Ids \cup {None}] /\ attached \in [Agents -> BOOLEAN]
<1>0. Typed /\ StepsMatch /\ \A a \in Agents : RowsOf(a)
  BY TypeParts DEF CommandTyped, WorkRecords, MachineTyped, FilesTyped, Governance, RowsOK
<1>h. /\ \A a \in Agents : FilesOf(a) /\ WorkOf(a) /\ BaseOK(mount[a])
      /\ \A a \in Agents : Materializing(a) =>
           /\ head # None /\ work[a].id = head /\ ~HeadMaterialized
           /\ commits[head].change = work[a].change /\ commits[head].home = Owner(a)
      /\ \A a \in Agents : doing[a] = "accept" => ~attached[a]
  BY <1>0 DEF FilesOK, Governance, WorkOK, KnownBases, MaterializingOK, MaterializingOf, StepsMatch
<1> HIDE DEF Typed
<1> USE DEF At, GoTo, Start, End, machine, command
<1>1. ASSUME NEW a \in Agents, Beginning(a)  PROVE RowsOf(a)'
  <2>0. ~MoveHead(a) /\ step[a] = "idle" /\ doing[a] = "nothing"
    BY <1>0, <1>1 DEF StepsMatch, MoveHead, Beginning, ApplyBegin, ProposeBegin, Begin,
       RepairBegin, AttachBegin, AcceptBegin, RejectBegin
  <2>1. CASE ApplyBegin(a) \/ ProposeBegin(a)
    <3>1. /\ attached[a] /\ mount[a] = head /\ UNCHANGED <<head, commits, machine>>
          /\ doing'[a] \in {"apply", "propose"} /\ step'[a] = "compare"
          /\ work'[a] = [id |-> None, base |-> head, change |-> NoChange]
      BY <1>0, <2>1 DEF Typed, ApplyBegin, ProposeBegin, Begin, metadata
    <3>2. work'[a].change = NoChange
      BY <3>1
    <3>3. Touched(work'[a].change) = {}
      BY <3>2 DEF NoChange, Touched
    <3> QED
      BY <1>0, <3>1, <3>3 DEF RowsOf, Agree, Settles, EditsOf, Intends, HeadOf, HeadMaterialized, Touched
  <2>2. CASE RepairBegin(a)
    <3>1. /\ UNCHANGED <<head, commits, machine>>
          /\ head # None /\ commits[head].state \in {"pending", "failed"} /\ commits[head].home = a
          /\ doing'[a] = "repair" /\ step'[a] = "files"
          /\ work'[a] = [id |-> head, base |-> None, change |-> commits[head].change]
          /\ left'[a] = Touched(commits[head].change)
      BY <1>0, <2>2 DEF Typed, RepairBegin, metadata, NeedsRepair, HasSnapshot, Staged, Touched
    <3>2. work'[a].change = commits[head].change /\ HeadOf(a)
      BY <3>1 DEF HeadOf, HeadMaterialized
    <3> QED
      BY <1>0, <3>1, <3>2 DEF RowsOf, Agree, Settles, Written, EditsOf, Intends, HeadOf,
         HeadMaterialized, Touched
  <2>3. CASE AttachBegin(a)
    <3>1. a \in reset' /\ step'[a] = "sync"
      BY <1>0, <2>3 DEF Typed, AttachBegin
    <3> QED
      BY <3>1 DEF RowsOf
  <2>4. ASSUME NEW id \in Ids, AcceptBegin(a, id) \/ RejectBegin(a, id)  PROVE RowsOf(a)'
    <3>1. doing'[a] \in {"accept", "reject"} /\ step'[a] \in {"lock", "reject"} /\ UNCHANGED machine
      BY <1>0, <2>4 DEF Typed, AcceptBegin, RejectBegin
    <3> QED
      BY <1>0, <2>0, <3>1, RowsIdle
  <2> QED
    BY <1>1, <2>1, <2>2, <2>3, <2>4 DEF Beginning
<1>2. ASSUME NEW a \in Agents, Stage(a)  PROVE RowsOf(a)'
  <2>1. /\ UNCHANGED <<head, commits, machine, doing, left>> /\ step'[a] \in {"lock", "propose"}
        /\ work'[a] = [id |-> None, base |-> work[a].base,
                       change |-> [from |-> source, to |-> tree[a]]]
        /\ trusted[a] = source /\ step[a] = "compare"
    BY <1>0, <1>2 DEF Typed, Stage, NoDrift, metadata
  <2>2. work'[a].change.from = source /\ work'[a].change.to = tree[a]
    BY <2>1
  <2>3. a \notin reset => \A p \in Paths : basis[a][p] = source[p]
    BY <1>0, <2>1 DEF StepsMatch, RowsOf, Agree
  <2>4. a \notin reset => EditsOf(a)'
    BY <2>1, <2>2, <2>3 DEF EditsOf, Touched
  <2> QED
    BY <1>0, <2>1, <2>4 DEF StepsMatch, RowsOf, Agree, Settles, EditsOf, Intends, HeadOf,
       HeadMaterialized, Touched
(* steps within a command that leave the machine alone *)
<1>3. ASSUME NEW a \in Agents, ~MoveHead(a), UNCHANGED machine,
             doing'[a] = doing[a], work'[a].change = work[a].change,
             step'[a] \in {"propose", "proposed", "lock", "create", "list", "check", "announce",
                           "move", "refuse", "rejected", "decide", "decided", "fail", "finish", "mark"},
             Intends(a)' => Intends(a),
             Settles(a)' => Settles(a),
             Settles(a)' /\ step'[a] \in {"mark", "finish"} =>
               step[a] \in {"mark", "finish"} \/ (step[a] = "files" /\ left[a] = {})
      PROVE  RowsOf(a)'
  <2>1. HeadOf(a)' => HeadOf(a) /\ commits'[head'].change = commits[head].change
    BY <1>3, HomeKept
  <2>2. attached'[a] /\ mount'[a] = head' => attached[a] /\ mount[a] = head
    BY <1>3, MountKept
  <2>3. a \notin reset /\ Settles(a)' /\ step'[a] \in {"mark", "finish"} => Written(a, {})
    BY <1>0, <1>3 DEF RowsOf, Written, Settles
  <2>4. Touched(work[a].change)' = Touched(work[a].change)
    BY <1>3 DEF Touched
  <2> QED
    BY <1>0, <1>3, <2>1, <2>2, <2>3, <2>4 DEF RowsOf, Agree, Settles, Written, EditsOf, Intends, Touched
<1>4. ASSUME NEW a \in Agents, Proposing(a)  PROVE RowsOf(a)'
  <2>1. CASE WriteProposal(a) \/ Reject(a)
    <3>1. /\ UNCHANGED machine /\ doing'[a] = doing[a] /\ work'[a].change = work[a].change
          /\ step[a] \in {"propose", "reject"} /\ step'[a] \in {"proposed", "rejected"}
          /\ (step'[a] = "proposed" => step[a] = "propose")
      BY <1>0, <2>1 DEF Typed, WriteProposal, Reject
    <3>2. ~MoveHead(a)
      BY <3>1 DEF MoveHead
    <3> QED
      BY <1>3, <3>1, <3>2 DEF Intends, Settles
  <2>2. CASE StageFails(a) \/ AnnounceProposal(a) \/ AnnounceRejection(a)
    <3>1. UNCHANGED machine /\ doing'[a] = "nothing" /\ step'[a] = "idle" /\ step[a] # "move"
      BY <1>0, <2>2 DEF Typed, StageFails, AnnounceProposal, AnnounceRejection
    <3> QED
      BY <1>0, <3>1, RowsIdle DEF MoveHead
  <2> QED
    BY <1>2, <1>4, <2>1, <2>2 DEF Proposing
<1>5. ASSUME NEW a \in Agents, UNCHANGED machine, ~MoveHead(a),
             doing'[a] = "nothing", step'[a] = "idle"
      PROVE  RowsOf(a)'
  BY <1>0, <1>5, RowsIdle
<1>6. ASSUME NEW a \in Agents, Locking(a)  PROVE RowsOf(a)'
  <2>1. /\ UNCHANGED machine /\ step[a] # "move"
        /\ \/ /\ doing'[a] = doing[a] /\ work'[a] = work[a]
              /\ step[a] \in {"lock", "create", "list"} /\ step'[a] \in {"create", "list", "check"}
           \/ doing'[a] = "nothing" /\ step'[a] = "idle"
    BY <1>0, <1>6 DEF Typed, Locking, ReadClock, CreateLock, ListLocks
  <2>2. ~MoveHead(a)
    BY <2>1 DEF MoveHead
  <2> QED
    BY <1>3, <1>5, <2>1, <2>2 DEF Intends, Settles
<1>7. ASSUME NEW a \in Agents,
             WriteCommit(a) \/ Refuse(a) \/ AnnounceCommit(a) \/ MetadataWriteFails(a)
             \/ ReleaseRefused(a)
      PROVE  RowsOf(a)'
  <2>1. /\ UNCHANGED machine
        /\ \/ /\ doing'[a] = doing[a] /\ work'[a].change = work[a].change
              /\ step[a] \in {"check", "announce", "move"}
              /\ step'[a] \in {"announce", "move", "refuse"}
           \/ doing'[a] = "nothing" /\ step'[a] = "idle"
    BY <1>0, <1>7 DEF Typed, WriteCommit, Refuse, AnnounceCommit, MetadataWriteFails, ReleaseRefused
  <2>2. ~MoveHead(a)
    BY <1>0, <2>1 DEF Typed, MoveHead
  <2> QED
    BY <1>3, <1>5, <2>1, <2>2 DEF Intends, Settles
<1>8. ASSUME NEW a \in Agents, MoveHead(a)  PROVE RowsOf(a)'
  <2> DEFINE id == work[a].id
  <2>1. /\ head' = id /\ UNCHANGED <<commits, machine, doing, work>> /\ step[a] = "move"
        /\ commits[id] = [state |-> "pending", parent |-> head, change |-> work[a].change,
                          home |-> Owner(a)]
        /\ step'[a] = "release" /\ id \notin Accepted \cup {None}
    BY <1>0, <1>8, MoveHeadFacts, ConstantsTyped DEF Typed, MoveHead
  <2> HIDE DEF id
  <2>2. commits'[head'].change = work[a].change /\ commits'[head'].home = Owner(a)
    BY <2>1
  <2>3. mount'[a] # head'
    BY <1>h, <2>1 DEF BaseOK
  <2>4. doing[a] \in {"apply", "accept"} /\ Intends(a)
    BY <1>0, <2>1 DEF StepsMatch, Intends
  <2>5. HeadOf(a)' => doing[a] = "apply"
    BY <2>2, <2>4, ConstantsTyped DEF HeadOf, Owner
  <2> QED
    BY <1>0, <2>1, <2>2, <2>3, <2>4, <2>5 DEF RowsOf, Agree, Settles, EditsOf, Intends, Touched
<1>9. ASSUME NEW a \in Agents, Release(a)  PROVE RowsOf(a)'
  <2>1. /\ UNCHANGED <<head, commits, machine, doing, work>> /\ step[a] = "release"
        /\ step'[a] = "files" /\ left'[a] = Touched(work[a].change)
    BY <1>0, <1>9 DEF Typed, Release, metadata, Staged, Touched
  <2> QED
    BY <1>0, <2>1 DEF StepsMatch, RowsOf, Agree, Settles, Written, EditsOf, Intends, HeadOf,
       HeadMaterialized, Touched
<1>10. ASSUME NEW a \in Agents, NEW p \in Paths, Materialize(a, p)  PROVE RowsOf(a)'
  <2>1. /\ UNCHANGED <<head, commits, mount, attached, basis, reset, doing, step, work>>
        /\ step[a] = "files" /\ p \in left[a] /\ left'[a] = left[a] \ {p}
        /\ trusted'[a] = [trusted[a] EXCEPT ![p] = work[a].change.to[p]]
    BY <1>0, <1>10 DEF Typed, Materialize, metadata
  <2>2. /\ head # None /\ ~HeadMaterialized /\ commits[head].change = work[a].change
        /\ commits[head].home = Owner(a) /\ p \in Touched(work[a].change)
    BY <1>h, <2>1 DEF Materializing, FilesOf
  <2>3. mount[a] # head
    BY <1>h, <2>2 DEF BaseOK
  <2>4. trusted'[a][p] = work[a].change.to[p]
        /\ \A q \in Paths \ {p} : trusted'[a][q] = trusted[a][q]
    BY <1>0, <2>1 DEF Typed, Trees
  <2>5. doing[a] \in {"apply", "accept", "repair"} /\ (doing[a] = "accept" => ~HeadOf(a))
    BY <1>0, <2>1, <2>2, ConstantsTyped DEF StepsMatch, HeadOf, Owner
  <2>6. HeadOf(a)' <=> HeadOf(a)
    BY <2>1 DEF HeadOf, HeadMaterialized
  <2>7. Settles(a)' <=> Settles(a)
    BY <2>1 DEF Settles
  <2> QED
    BY <1>0, <2>1, <2>2, <2>3, <2>4, <2>5, <2>6, <2>7
       DEF RowsOf, Agree, Settles, Written, EditsOf, Intends, Touched
<1>11. ASSUME NEW a \in Agents, AnnounceMaterialized(a) \/ MarkMaterialized(a) \/ MaterializeFails(a)
       PROVE  RowsOf(a)'
  <2>1. /\ UNCHANGED machine /\ doing'[a] = doing[a] /\ work'[a].change = work[a].change
        /\ \/ step[a] = "files" /\ step'[a] = "fail"
           \/ step[a] = "files" /\ left[a] = {} /\ step'[a] = "mark"
           \/ step[a] = "mark" /\ step'[a] \in {"decide", "finish"}
    BY <1>0, <1>11 DEF Typed, AnnounceMaterialized, MarkMaterialized, MaterializeFails
  <2>2. ~MoveHead(a)
    BY <2>1 DEF MoveHead
  <2> QED
    BY <1>3, <2>1, <2>2 DEF Intends, Settles
<1>12. ASSUME NEW a \in Agents, MarkFailed(a) \/ Crash(a)  PROVE RowsOf(a)'
  <2>1. UNCHANGED machine /\ doing'[a] = "nothing" /\ step'[a] = "idle"
    BY <1>0, <1>12 DEF Typed, MarkFailed, Crash
  <2>2. ~MoveHead(a)
    BY <1>0, <2>1 DEF Typed, MoveHead
  <2> QED
    BY <1>5, <2>1, <2>2
<1>13. ASSUME NEW a \in Agents, Decide(a) \/ AnnounceDecision(a)  PROVE RowsOf(a)'
  <2>1. /\ UNCHANGED machine /\ doing'[a] = doing[a] /\ work'[a] = work[a]
        /\ step[a] \in {"decide", "decided"} /\ step'[a] \in {"decided", "finish"}
    BY <1>0, <1>13 DEF Typed, Decide, AnnounceDecision
  <2>2. doing[a] = "accept" /\ ~MoveHead(a)
    BY <1>0, <2>1 DEF StepsMatch, MoveHead
  <2> QED
    BY <1>3, <2>1, <2>2 DEF Intends, Settles
<1>14. ASSUME NEW a \in Agents, Finish(a)  PROVE RowsOf(a)'
  <2>1. /\ UNCHANGED <<head, commits, trusted, attached, reset>> /\ step[a] = "finish"
        /\ doing'[a] = "nothing" /\ step'[a] = "idle" /\ ~MoveHead(a)
    BY <1>0, <1>14 DEF Typed, Finish, MoveHead, metadata
  <2>2. doing[a] \in {"apply", "accept", "repair"}
    BY <1>0, <2>1 DEF StepsMatch
  <2>3. CASE doing[a] = "accept"
    <3>1. ~attached[a] /\ basis' = basis /\ mount' = mount
      BY <1>h, <1>14, <2>3 DEF Finish, MountMoved
    <3> QED
      BY <1>0, <2>1, <3>1, RowsIdle
  <2>4. CASE doing[a] # "accept"
    <3>1. basis'[a] = Overlay(basis[a], work[a].change)
      BY <1>0, <1>14, <2>4 DEF Typed, Finish
    <3>2. Settles(a)
      BY <2>1, <2>2, <2>4 DEF Settles
    <3>3. a \notin reset => \A p \in Paths : trusted'[a][p] = basis'[a][p]
      BY <1>0, <2>1, <3>1, <3>2 DEF RowsOf, Agree, Written, Overlay
    <3> QED
      BY <2>1, <3>3 DEF RowsOf, Agree, Settles, EditsOf
  <2> QED
    BY <2>3, <2>4
<1>15. ASSUME NEW a \in Agents, AttachSync(a)  PROVE RowsOf(a)'
  <2>1. /\ a \in reset /\ reset' = reset /\ trusted'[a] = source
        /\ work'[a] = [id |-> None, base |-> work[a].base,
                       change |-> [from |-> Nothing, to |-> source]]
    BY <1>0, <1>15 DEF Typed, AttachSync, RowsOf
  <2>2. work'[a].change.to = source
    BY <2>1
  <2> QED
    BY <2>1, <2>2 DEF RowsOf
<1>16. ASSUME NEW a \in Agents, AttachTrust(a)  PROVE RowsOf(a)'
  <2>1. /\ doing'[a] = "nothing" /\ step'[a] = "idle" /\ step[a] = "trust"
    BY <1>0, <1>16 DEF Typed, AttachTrust
  <2>2. a \in reset /\ trusted[a] = work[a].change.to
    BY <1>0, <2>1 DEF RowsOf
  <2>3. CASE work[a].change.to = source
    <3>1. \/ trusted'[a] = basis'[a]
          \/ a \in reset'
      BY <1>0, <1>16, <2>2, <2>3 DEF Typed, AttachTrust
    <3> QED
      BY <2>1, <3>1 DEF RowsOf, Agree, Settles, EditsOf
  <2>4. CASE work[a].change.to # source
    <3>1. a \in reset'
      BY <1>16, <2>2, <2>4 DEF AttachTrust
    <3> QED
      BY <2>1, <3>1 DEF RowsOf
  <2> QED
    BY <2>3, <2>4
<1>17. ASSUME NEW a \in Agents, NEW p \in Paths, Edit(a, p)  PROVE RowsOf(a)'
  BY <1>0, <1>17, RowsKept DEF Edit
<1>18. ASSUME NEW a \in Agents, Rests(a)  PROVE RowsOf(a)'
  BY <1>0, <1>18, RowsKept DEF Rests
<1>19. ASSUME NEW a \in Agents, Accepting(a) \/ Settling(a) \/ Ending(a) \/ Attaching(a)
       PROVE  RowsOf(a)'
  BY <1>7, <1>8, <1>9, <1>10, <1>11, <1>12, <1>13, <1>14, <1>15, <1>16, <1>19
     DEF Accepting, Settling, Ending, Attaching
<1> QED
  BY OthersRest, <1>1, <1>4, <1>6, <1>17, <1>18, <1>19 DEF RowsOK

(* Where proposals are decided on machines without a local root, a change  *)
(* is staged at a path only if the agent edited that path: a commit never  *)
(* carries the difference that somebody else's write to the source made.   *)
THEOREM OnlyEditsCommitted ==
  ASSUME Paced, Deciders \cap Rooted = {}
  PROVE  Spec => []CommitsOnlyEdits
<1>1. Init => RowsOK
  <2> SUFFICES ASSUME Init, NEW a \in Agents  PROVE RowsOf(a)
    BY DEF RowsOK
  <2> QED
    BY DEF Init, RowsOf, Agree, Settles, EditsOf, HeadOf, Intends
<1>2. SourceInv /\ RowsOK /\ [Next]_vars => RowsOK'
  BY RowsStep
<1>3. RowsOK => CommitsOnlyEdits
  BY DEF RowsOK, RowsOf, EditsOf, CommitsOnlyEdits
<1> QED
  BY <1>1, <1>2, <1>3, SourceInvariant, PTL DEF Spec
===============================================================================
