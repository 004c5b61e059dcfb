---------------------------- MODULE AgentFsCommit ----------------------------
(***************************************************************************)
(* The governed commits of one AgentFS: the head lock, `commit apply`,     *)
(* `propose`, `accept`, `reject` and `repair`, and `fs attach`, run by     *)
(* agents on machines of their own against one backing source.             *)
(*                                                                         *)
(* crates/sectiond/src/control_plane.rs and agentfs.rs.  Each machine runs *)
(* one command at a time.  Who may commit and who may decide on proposals  *)
(* is fixed here.                                                          *)
(***************************************************************************)
EXTENDS Naturals

CONSTANTS
  Agents,      \* each with a machine: a store, a staging area, a local root
  Committers,  \* those with the commit capability
  Deciders,    \* those who also manage: they accept and reject proposals
  Rooted,      \* those whose machine has a local root
  Paths, Content,
  Absent,      \* no file at a path
  Ids,         \* commit ids, 1..n: a proposal's id is that of its commit
  None,
  Tokens,      \* lock tokens, 1..n
  Paced,       \* lock acquisitions neither overlap nor share a millisecond,
               \* and no lock expires under its holder
  TTL, MaxTime,\* life of a lock; bound on the clock
  MaxFaults, MaxDrift, MaxEdits   \* bounds on failures, ungoverned edits, edits

Holdings == Content \cup {Absent}
Trees == [Paths -> Holdings]
Changes == [from : Trees, to : Trees]   \* previous_version and local_version

ASSUME AgentsAssumption ==
  /\ Committers \subseteq Agents /\ Deciders \subseteq Committers /\ Rooted \subseteq Agents
  /\ None \notin Agents
ASSUME ValuesAssumption ==
  /\ Absent \notin Content
  /\ Ids \subseteq Nat /\ Tokens \subseteq Nat /\ None \notin Nat
ASSUME SettingsAssumption ==
  /\ Paced \in BOOLEAN
  /\ TTL \in Nat \ {0} /\ MaxTime \in Nat /\ MaxFaults \in Nat /\ MaxDrift \in Nat
  /\ MaxEdits \in Nat

VARIABLES
  source,    \* the files of the backing source
  head,      \* heads/current.json
  commits, proposals, events, locks,   \* the records under .section/agentfs
  clock,     \* now_ms, the same for everybody
  tree,      \* each machine's local root
  trusted,   \* its path rows: what it takes the source to hold
  mount,     \* the commit its local root was made from
  attached,  \* whether its store has a mount at all
  doing, step, work, lock, left,   \* the command a machine runs
  basis,     \* history: the files each local root was made from
  reset,     \* history: local roots whose rows an unfinished attach replaced
  truth,     \* history: the files the commits moved to so far add up to
  accepted,  \* history: <<commit, parent>> when the head moved to the commit
  faults, drifts, edits   \* the bounds' counters

files    == <<source, truth, drifts>>
metadata == <<head, commits, proposals, events, accepted>>
machine  == <<edits, tree, trusted, mount, attached, basis, reset>>
command  == <<doing, step, work, lock, left>>
vars == <<files, metadata, locks, clock, machine, command, faults>>

Nothing == [p \in Paths |-> Absent]
NoChange == [from |-> Nothing, to |-> Nothing]
NoCommit == [state |-> "none", parent |-> None, change |-> NoChange, home |-> None]
NoProposal == [status |-> "none", base |-> None, change |-> NoChange]
NoLock == [token |-> 0, created |-> 0]
NoWork == [id |-> None, base |-> None, change |-> NoChange]

Init ==
  /\ source = Nothing /\ truth = Nothing /\ drifts = 0
  /\ head = None /\ accepted = {} /\ events = {}
  /\ commits = [id \in Ids |-> NoCommit] /\ proposals = [id \in Ids |-> NoProposal]
  /\ locks = {} /\ clock = 0
  /\ tree = [a \in Agents |-> Nothing] /\ basis = [a \in Agents |-> Nothing]
  /\ trusted = [a \in Agents |-> Nothing]
  /\ mount = [a \in Agents |-> None] /\ attached = [a \in Agents |-> FALSE]
  /\ doing = [a \in Agents |-> "nothing"] /\ step = [a \in Agents |-> "idle"]
  /\ work = [a \in Agents |-> NoWork] /\ lock = [a \in Agents |-> NoLock]
  /\ left = [a \in Agents |-> {}]
  /\ reset = {} /\ faults = 0 /\ edits = 0

-----------------------------------------------------------------------------
(***************************************************************************)
(* Helpers.                                                                *)
(***************************************************************************)
(* the dirty paths, those a commit stages *)
Touched(change) == {p \in Paths : change.from[p] # change.to[p]}
(* wrong: the deletions are forgotten *)
StagedCreates(change) == {p \in Touched(change) : change.to[p] # Absent}
(* the paths of the staging manifest *)
Staged(change) == Touched(change)
Overlay(files_, change) ==
  [p \in Paths |-> IF p \in Touched(change) THEN change.to[p] ELSE files_[p]]

(* ensure_head_is_materialized *)
HeadMaterialized == head # None => commits[head].state = "materialized"

Unused(id) == commits[id] = NoCommit /\ proposals[id] = NoProposal

Start(a, name, s, w) ==
  /\ doing[a] = "nothing"
  /\ doing' = [doing EXCEPT ![a] = name]
  /\ step' = [step EXCEPT ![a] = s]
  /\ work' = [work EXCEPT ![a] = w]

At(a, s) == step[a] = s
GoTo(a, s) == step' = [step EXCEPT ![a] = s]

End(a) ==
  /\ doing' = [doing EXCEPT ![a] = "nothing"]
  /\ GoTo(a, "idle")
  /\ work' = [work EXCEPT ![a] = NoWork]
  /\ lock' = [lock EXCEPT ![a] = NoLock]
  /\ left' = [left EXCEPT ![a] = {}]

Fault == faults < MaxFaults /\ faults' = faults + 1

(* wrong: a subject has one event, its last *)
AnnounceLast(kind, subject) ==
  events' = {e \in events : e[2] # subject} \cup {<<kind, subject>>}
Announce(kind, subject) == events' = events \cup {<<kind, subject>>}
(* wrong: two fields swapped *)
SetStateSwapped(id, state) ==
  commits' = [commits EXCEPT ![id] =
    [state |-> state, parent |-> commits[id].home,
     change |-> commits[id].change, home |-> commits[id].parent]]
SetState(id, state) ==
  commits' = [commits EXCEPT ![id] =
    [state |-> state, parent |-> commits[id].parent,
     change |-> commits[id].change, home |-> commits[id].home]]
SetStatus(id, status) ==
  proposals' = [proposals EXCEPT ![id] =
    [status |-> status, base |-> proposals[id].base, change |-> proposals[id].change]]

-----------------------------------------------------------------------------
(***************************************************************************)
(* `commit apply` and `commit propose` begin alike: the head is read and   *)
(* must be materialized and be the mount's base; then the local root, the  *)
(* source and the path rows are compared, and what differs is staged.      *)
(***************************************************************************)
Begin(a, name) ==
  /\ attached[a] /\ mount[a] = head /\ HeadMaterialized
  /\ Start(a, name, "compare", [id |-> None, base |-> head, change |-> NoChange])
  /\ UNCHANGED <<files, metadata, locks, clock, machine, lock, left, faults>>

ApplyBegin(a) == a \in Committers /\ Begin(a, "apply")
ProposeBegin(a) == Begin(a, "propose")

(* wrong: no look at the source for ungoverned edits *)
AnyDrift(a) == TRUE
(* ensure_remote_matches_trusted_base *)
NoDrift(a) == trusted[a] = source

Stage(a) ==
  /\ At(a, "compare") /\ NoDrift(a) /\ tree[a] # source
  /\ GoTo(a, IF doing[a] = "apply" THEN "lock" ELSE "propose")
  /\ work' = [work EXCEPT ![a] =
       [id |-> None, base |-> work[a].base,
        change |-> [from |-> source, to |-> tree[a]]]]
  /\ UNCHANGED <<files, metadata, locks, clock, machine, doing, lock, left, faults>>

(* remote_drift, or an empty commit *)
StageFails(a) ==
  /\ At(a, "compare") /\ (~NoDrift(a) \/ tree[a] = source)
  /\ End(a)
  /\ UNCHANGED <<files, metadata, locks, clock, machine, faults>>

(* the snapshot and the proposal are new files; the event follows *)
WriteProposal(a) ==
  /\ At(a, "propose")
  /\ \E id \in Ids :
       /\ Unused(id) /\ \A other \in Ids : Unused(other) => id <= other
       /\ proposals' = [proposals EXCEPT ![id] =
            [status |-> "proposed", base |-> work[a].base, change |-> work[a].change]]
       /\ work' = [work EXCEPT ![a] =
            [id |-> id, base |-> work[a].base, change |-> work[a].change]]
  /\ GoTo(a, "proposed")
  /\ UNCHANGED <<files, head, commits, events, accepted, locks, clock, machine,
                 doing, lock, left, faults>>

AnnounceProposal(a) ==
  /\ At(a, "proposed")
  /\ Announce("commit.proposed", work[a].id)
  /\ End(a)
  /\ UNCHANGED <<files, head, commits, proposals, accepted, locks, clock, machine, faults>>

(* `commit accept`: a proposal found open goes the way of an apply *)
AcceptBegin(a, id) ==
  /\ a \in Deciders /\ proposals[id].status = "proposed"
  /\ Start(a, "accept", "lock",
           [id |-> id, base |-> proposals[id].base, change |-> proposals[id].change])
  /\ UNCHANGED <<files, metadata, locks, clock, machine, lock, left, faults>>

(* `commit reject` takes no lock *)
RejectBegin(a, id) ==
  /\ a \in Deciders /\ proposals[id].status = "proposed"
  /\ Start(a, "reject", "reject", [id |-> id, base |-> None, change |-> NoChange])
  /\ UNCHANGED <<files, metadata, locks, clock, machine, lock, left, faults>>

Reject(a) ==
  /\ At(a, "reject")
  /\ SetStatus(work[a].id, "rejected")
  /\ GoTo(a, "rejected")
  /\ UNCHANGED <<files, head, commits, events, accepted, locks, clock, machine,
                 doing, work, lock, left, faults>>

AnnounceRejection(a) ==
  /\ At(a, "rejected")
  /\ Announce("proposal.rejected", work[a].id)
  /\ End(a)
  /\ UNCHANGED <<files, head, commits, proposals, accepted, locks, clock, machine, faults>>

-----------------------------------------------------------------------------
(***************************************************************************)
(* acquire_head_lock: read the clock, create a record of one's own, list   *)
(* the records that were alive at that clock, and hold the lock if one's   *)
(* own comes first by creation time and token; else delete it and give up. *)
(***************************************************************************)
Acquiring(a) == step[a] \in {"create", "list"}
Holding(a) == step[a] \in {"check", "announce", "move", "release", "refuse"}

(* tokens are random; they matter only between locks of one creation time *)
Used(t) == (\E l \in locks : l.token = t) \/ (\E a \in Agents : lock[a].token = t)

ReadClock(a) ==
  /\ At(a, "lock")
  /\ Paced => /\ \A b \in Agents : ~Acquiring(b)
              /\ \A l \in locks : l.created # clock
  /\ \E t \in Tokens :
       /\ ~Used(t)
       /\ Paced => \A u \in Tokens : u < t => Used(u)
       /\ lock' = [lock EXCEPT ![a] = [token |-> t, created |-> clock]]
  /\ GoTo(a, "create")
  /\ UNCHANGED <<files, metadata, locks, clock, machine, doing, work, left, faults>>

CreateLock(a) ==
  /\ At(a, "create")
  /\ locks' = locks \cup {lock[a]}
  /\ GoTo(a, "list")
  /\ UNCHANGED <<files, metadata, clock, machine, doing, work, lock, left, faults>>

(* wrong: the youngest lock wins *)
After(l, m) == l.created > m.created \/ (l.created = m.created /\ l.token > m.token)
Before(l, m) == l.created < m.created \/ (l.created = m.created /\ l.token < m.token)
Alive(l, now) == l.created + TTL > now
IsFirst(l) == \A m \in locks : Alive(m, l.created) => ~Before(m, l)

ListLocks(a) ==
  /\ At(a, "list")
  /\ \/ IsFirst(lock[a]) /\ GoTo(a, "check") /\ UNCHANGED <<locks, doing, work, lock, left>>
     \/ ~IsFirst(lock[a]) /\ locks' = locks \ {lock[a]} /\ End(a)
  /\ UNCHANGED <<files, metadata, clock, machine, faults>>

-----------------------------------------------------------------------------
(***************************************************************************)
(* Under the lock: the head is read again and must be materialized and be  *)
(* the base of the change; then the commit record, the event and the head  *)
(* are written, and the lock is released, whatever came of it.             *)
(***************************************************************************)
(* wrong: the base is not compared with the head again *)
CanAcceptAnyBase(a) == HeadMaterialized
CanAccept(a) == HeadMaterialized /\ work[a].base = head

WriteCommit(a) ==
  /\ At(a, "check") /\ CanAccept(a)
  /\ \E id \in Ids :
       /\ IF doing[a] = "accept" THEN id = work[a].id
          ELSE Unused(id) /\ \A other \in Ids : Unused(other) => id <= other
       /\ commits' = [commits EXCEPT ![id] =
            [state |-> "pending", parent |-> head, change |-> work[a].change,
             home |-> IF doing[a] = "accept" THEN None ELSE a]]
       /\ work' = [work EXCEPT ![a] =
            [id |-> id, base |-> work[a].base, change |-> work[a].change]]
  /\ GoTo(a, "announce")
  /\ UNCHANGED <<files, head, proposals, events, accepted, locks, clock, machine,
                 doing, lock, left, faults>>

Refuse(a) ==
  /\ At(a, "check") /\ ~CanAccept(a)
  /\ GoTo(a, "refuse")
  /\ UNCHANGED <<files, metadata, locks, clock, machine, doing, work, lock, left, faults>>

AnnounceCommit(a) ==
  /\ At(a, "announce")
  /\ Announce("commit.accepted", work[a].id)
  /\ GoTo(a, "move")
  /\ UNCHANGED <<files, head, commits, proposals, accepted, locks, clock, machine,
                 doing, work, lock, left, faults>>

MoveHead(a) ==
  /\ At(a, "move")
  /\ head' = work[a].id
  /\ truth' = Overlay(truth, work[a].change)
  /\ accepted' = accepted \cup {<<work[a].id, commits[work[a].id].parent>>}
  /\ GoTo(a, "release")
  /\ UNCHANGED <<source, drifts, commits, proposals, events, locks, clock, machine,
                 doing, work, lock, left, faults>>

MetadataWriteFails(a) ==
  /\ At(a, "announce") \/ At(a, "move") \/ (At(a, "check") /\ CanAccept(a))
  /\ GoTo(a, "refuse")
  /\ Fault
  /\ UNCHANGED <<files, metadata, locks, clock, machine, doing, work, lock, left>>

(* a record that cannot be deleted stays until it expires *)
Released(a) ==
  \/ locks' = locks \ {lock[a]} /\ UNCHANGED faults
  \/ Fault /\ UNCHANGED locks

Release(a) ==
  /\ At(a, "release")
  /\ Released(a)
  /\ GoTo(a, "files")
  /\ left' = [left EXCEPT ![a] = Staged(work[a].change)]
  /\ UNCHANGED <<files, metadata, clock, machine, doing, work, lock>>

ReleaseRefused(a) ==
  /\ At(a, "refuse")
  /\ Released(a)
  /\ End(a)
  /\ UNCHANGED <<files, metadata, clock, machine>>

-----------------------------------------------------------------------------
(***************************************************************************)
(* Materialization from the staging snapshot: deletions first, a path at a *)
(* time, with its row in the machine's store; then the event and the state *)
(* of the commit record, and for a proposal its status and event.          *)
(***************************************************************************)
Materialize(a, p) ==
  /\ At(a, "files") /\ p \in left[a]
  /\ work[a].change.to[p] # Absent =>
       \A q \in left[a] : work[a].change.to[q] # Absent
  /\ source' = [source EXCEPT ![p] = work[a].change.to[p]]
  /\ trusted' = [trusted EXCEPT ![a] = [trusted[a] EXCEPT ![p] = work[a].change.to[p]]]
  /\ left' = [left EXCEPT ![a] = left[a] \ {p}]
  /\ UNCHANGED <<truth, drifts, metadata, locks, clock, edits, tree, mount, attached, basis, reset,
                 doing, step, work, lock, faults>>

AnnounceMaterialized(a) ==
  /\ At(a, "files") /\ left[a] = {}
  /\ Announce("commit.materialized", work[a].id)
  /\ GoTo(a, "mark")
  /\ UNCHANGED <<files, head, commits, proposals, accepted, locks, clock, machine,
                 doing, work, lock, left, faults>>

MarkMaterialized(a) ==
  /\ At(a, "mark")
  /\ SetState(work[a].id, "materialized")
  /\ GoTo(a, IF doing[a] = "accept" THEN "decide" ELSE "finish")
  /\ UNCHANGED <<files, head, proposals, events, accepted, locks, clock, machine,
                 doing, work, lock, left, faults>>

Decide(a) ==
  /\ At(a, "decide")
  /\ SetStatus(work[a].id, "accepted")
  /\ GoTo(a, "decided")
  /\ UNCHANGED <<files, head, commits, events, accepted, locks, clock, machine,
                 doing, work, lock, left, faults>>

AnnounceDecision(a) ==
  /\ At(a, "decided")
  /\ Announce("proposal.accepted", work[a].id)
  /\ GoTo(a, "finish")
  /\ UNCHANGED <<files, head, commits, proposals, accepted, locks, clock, machine,
                 doing, work, lock, left, faults>>

(***************************************************************************)
(* record_local_materialized_commit: the mount of the machine's local root *)
(* is moved to the commit, and a lock that could not be released is tried  *)
(* again.  The local root of a machine that applied or repaired the commit *)
(* holds its files; that of one that accepted a proposal does not.         *)
(***************************************************************************)
MountMoved(a) ==
  IF a \in Rooted /\ attached[a] THEN [mount EXCEPT ![a] = work[a].id] ELSE mount

Finish(a) ==
  /\ At(a, "finish")
  /\ locks' = locks \ {lock[a]}
  /\ mount' = MountMoved(a)
  /\ basis' = IF doing[a] = "accept" THEN basis
              ELSE [basis EXCEPT ![a] = Overlay(basis[a], work[a].change)]
  /\ End(a)
  /\ UNCHANGED <<files, metadata, clock, edits, tree, trusted, attached, reset, faults>>

MaterializeFails(a) ==
  /\ At(a, "files") /\ left[a] # {}
  /\ Announce("commit.materialization_failed", work[a].id)
  /\ GoTo(a, "fail")
  /\ Fault
  /\ UNCHANGED <<files, head, commits, proposals, accepted, locks, clock, machine,
                 doing, work, lock, left>>

MarkFailed(a) ==
  /\ At(a, "fail")
  /\ SetState(work[a].id, "failed")
  /\ End(a)
  /\ UNCHANGED <<files, head, proposals, events, accepted, locks, clock, machine, faults>>

(***************************************************************************)
(* `commit repair` of the head: materialization again, from the snapshot,  *)
(* which is looked for on the machine's own disk.                          *)
(***************************************************************************)
(* wrong: a pending commit is taken to be in progress *)
OnlyFailed(state) == state = "failed"
NeedsRepair(state) == state \in {"pending", "failed"}
(* read_staging_manifest *)
HasSnapshot(a, id) == commits[id].home = a

RepairBegin(a) ==
  /\ a \in Committers /\ head # None
  /\ NeedsRepair(commits[head].state)
  /\ HasSnapshot(a, head)
  /\ Start(a, "repair", "files",
           [id |-> head, base |-> None, change |-> commits[head].change])
  /\ left' = [left EXCEPT ![a] = Staged(commits[head].change)]
  /\ UNCHANGED <<files, metadata, locks, clock, machine, lock, faults>>

-----------------------------------------------------------------------------
(***************************************************************************)
(* `fs attach` into an empty directory: the rows of the source are         *)
(* forgotten, a sync pass copies the source, and if the copy still is the  *)
(* source the rows are written and the mount moves to the new directory.   *)
(* An attach that fails leaves the old mount and no rows.                  *)
(***************************************************************************)
AttachBegin(a) ==
  /\ a \in Rooted /\ HeadMaterialized
  /\ Start(a, "attach", "sync", [id |-> None, base |-> head, change |-> NoChange])
  /\ trusted' = [trusted EXCEPT ![a] = Nothing] /\ reset' = reset \cup {a}
  /\ UNCHANGED <<files, metadata, locks, clock, edits, tree, mount, attached, basis,
                 lock, left, faults>>

AttachSync(a) ==
  /\ At(a, "sync")
  /\ work' = [work EXCEPT ![a] =
       [id |-> None, base |-> work[a].base, change |-> [from |-> Nothing, to |-> source]]]
  /\ trusted' = [trusted EXCEPT ![a] = source]
  /\ GoTo(a, "trust")
  /\ UNCHANGED <<files, metadata, locks, clock, edits, tree, mount, attached, basis,
                 reset, doing, lock, left, faults>>

AttachTrust(a) ==
  /\ At(a, "trust")
  /\ LET copy == work[a].change.to IN
     \/ /\ copy = source
        /\ tree' = [tree EXCEPT ![a] = copy] /\ basis' = [basis EXCEPT ![a] = copy]
        /\ mount' = [mount EXCEPT ![a] = work[a].base]
        /\ attached' = [attached EXCEPT ![a] = TRUE]
        /\ Announce("fs.attached", a) /\ reset' = reset \ {a}
        /\ UNCHANGED trusted
     \/ /\ copy # source
        /\ trusted' = [trusted EXCEPT ![a] = Nothing]
        /\ UNCHANGED <<tree, basis, mount, attached, events, reset>>
  /\ End(a)
  /\ UNCHANGED <<files, head, commits, proposals, accepted, locks, clock, edits, faults>>

-----------------------------------------------------------------------------
(***************************************************************************)
(* Around the commands: the agent's own edits, edits of the source that    *)
(* bypass the commands, time, and a command that dies at any step.         *)
(***************************************************************************)
Edit(a, p) ==
  /\ attached[a] /\ edits < MaxEdits /\ edits' = edits + 1
  /\ \E c \in Holdings \ {tree[a][p]} :
       tree' = [tree EXCEPT ![a] = [tree[a] EXCEPT ![p] = c]]
  /\ UNCHANGED <<files, metadata, locks, clock, trusted, mount, attached, basis,
                 reset, command, faults>>

Drift(p) ==
  /\ drifts < MaxDrift /\ drifts' = drifts + 1
  /\ \E c \in Holdings \ {source[p]} : source' = [source EXCEPT ![p] = c]
  /\ UNCHANGED <<truth, metadata, locks, clock, machine, command, faults>>

Tick ==
  /\ clock < MaxTime /\ clock' = clock + 1
  /\ Paced => \A a \in Agents :
       Acquiring(a) \/ Holding(a) => clock + 1 < lock[a].created + TTL
  /\ UNCHANGED <<files, metadata, locks, machine, command, faults>>

Crash(a) ==
  /\ doing[a] # "nothing"
  /\ Fault /\ End(a)
  /\ UNCHANGED <<files, metadata, locks, clock, machine>>

-----------------------------------------------------------------------------
Continue(a) ==
  \/ Stage(a) \/ StageFails(a) \/ WriteProposal(a) \/ AnnounceProposal(a)
  \/ Reject(a) \/ AnnounceRejection(a)
  \/ ReadClock(a) \/ CreateLock(a) \/ ListLocks(a)
  \/ WriteCommit(a) \/ Refuse(a) \/ AnnounceCommit(a) \/ MoveHead(a)
  \/ Release(a) \/ ReleaseRefused(a)
  \/ (\E p \in Paths : Materialize(a, p))
  \/ AnnounceMaterialized(a) \/ MarkMaterialized(a)
  \/ Decide(a) \/ AnnounceDecision(a) \/ Finish(a) \/ MarkFailed(a)
  \/ AttachSync(a) \/ AttachTrust(a)

Next ==
  \/ Tick
  \/ \E p \in Paths : Drift(p)
  \/ \E a \in Agents :
       \/ ApplyBegin(a) \/ ProposeBegin(a) \/ RepairBegin(a) \/ AttachBegin(a)
       \/ \E id \in Ids : AcceptBegin(a, id) \/ RejectBegin(a, id)
       \/ Continue(a)
       \/ MetadataWriteFails(a) \/ MaterializeFails(a) \/ Crash(a)
       \/ \E p \in Paths : Edit(a, p)

Spec == Init /\ [][Next]_vars

(* A command that has begun goes on, and whoever can repair the head       *)
(* sooner or later does.                                                   *)
FairSpec ==
  /\ Spec
  /\ \A a \in Agents : WF_vars(Continue(a)) /\ SF_vars(RepairBegin(a))

-----------------------------------------------------------------------------
Commands == {"nothing", "apply", "propose", "accept", "reject", "repair", "attach"}
Steps ==
  {"idle", "compare", "propose", "proposed", "reject", "rejected", "lock", "create",
   "list", "check", "announce", "move", "release", "refuse", "files", "mark",
   "decide", "decided", "finish", "fail", "sync", "trust"}
EventKinds ==
  {"commit.proposed", "proposal.rejected", "proposal.accepted", "commit.accepted",
   "commit.materialized", "commit.materialization_failed", "fs.attached"}
Locks == [token : Tokens \cup {0}, created : 0..MaxTime]

TypeOK ==
  /\ source \in Trees /\ truth \in Trees /\ drifts \in 0..MaxDrift /\ edits \in 0..MaxEdits
  /\ head \in Ids \cup {None}
  /\ accepted \subseteq Ids \X (Ids \cup {None})
  /\ commits \in [Ids ->
       [state : {"none", "pending", "materialized", "failed"},
        parent : Ids \cup {None}, change : Changes, home : Agents \cup {None}]]
  /\ proposals \in [Ids ->
       [status : {"none", "proposed", "accepted", "rejected"},
        base : Ids \cup {None}, change : Changes]]
  /\ events \subseteq EventKinds \X (Ids \cup Agents)
  /\ locks \subseteq Locks /\ clock \in 0..MaxTime
  /\ tree \in [Agents -> Trees] /\ basis \in [Agents -> Trees]
  /\ trusted \in [Agents -> Trees]
  /\ mount \in [Agents -> Ids \cup {None}] /\ attached \in [Agents -> BOOLEAN]
  /\ doing \in [Agents -> Commands] /\ step \in [Agents -> Steps]
  /\ work \in [Agents -> [id : Ids \cup {None}, base : Ids \cup {None}, change : Changes]]
  /\ lock \in [Agents -> Locks] /\ left \in [Agents -> SUBSET Paths]
  /\ reset \subseteq Agents /\ faults \in 0..MaxFaults

(* The accepted commits form one line: each was accepted on top of the     *)
(* head, and only when the files of the head were in the source.           *)
Log == INSTANCE CommitLog WITH
  Commit <- Ids, log <- accepted,
  settled <- {id \in Ids : commits[id].state = "materialized"}
Governed == Log!Spec

(* The source holds what the accepted commits add up to, but for the paths *)
(* of a head commit that is not materialized yet, whatever commands died   *)
(* on the way and were repaired.                                           *)
SourceMatchesHead ==
  drifts = 0 => \A p \in Paths :
    \/ source[p] = truth[p]
    \/ ~HeadMaterialized /\ p \in Touched(commits[head].change)

(* The head only moves to a commit made on top of it.                      *)
HeadAdvances == [][head' # head => commits[head'].parent = head]_vars

(* A commit that becomes the head replaces the versions its author saw     *)
(* (previous_version), never a commit the author had not seen.             *)
NoLostUpdate ==
  [][\A a \in Agents : drifts = 0 /\ head' # head /\ head' = work[a].id =>
       \A p \in Touched(work[a].change) : work[a].change.from[p] = truth[p]]_vars

(* A change is staged at a path only if the agent edited that path in the  *)
(* local root: a commit never carries the difference that somebody else's  *)
(* write to the source made.  (An attach that fails leaves the old root    *)
(* with rows not its own, which no longer tell the two apart.)             *)
CommitsOnlyEdits ==
  \A a \in Agents :
    doing[a] \in {"apply", "propose"} /\ a \notin reset =>
      \A p \in Touched(work[a].change) : work[a].change.to[p] # basis[a][p]

(* The event log tells of every commit that became the head, and of every  *)
(* commit whose record says its files are in the source.                   *)
EventsComplete ==
  /\ \A entry \in accepted : <<"commit.accepted", entry[1]>> \in events
  /\ \A id \in Ids :
       commits[id].state = "materialized" => <<"commit.materialized", id>> \in events

(* A head commit that was applied from a local root gets its files into    *)
(* the source in the end, although commands fail and die.                  *)
AppliedHeadRecovers ==
  (~HeadMaterialized /\ commits[head].home # None) ~> HeadMaterialized
=============================================================================
