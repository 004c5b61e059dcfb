# A verification project for Section

Section synchronises directories with object stores, shares them between agents
through governed commits (AgentFS) and mounts them with FUSE.  This directory
holds TLA+ models of the parts with the hardest state, TLC configurations that
check them on small instances, and TLAPS proofs for instances of any size.

    tlc -config SyncEngine_tree.cfg MCSyncEngine      (the other runs: see below)
    tlapm SyncEngine_proofs.tla

`PROJECT.json` lists the components, the runs, the source lines each definition
models, the hazards of the code with the properties that cover them, and where
the code and its documents disagree.

## 1. The system

| Component | State it keeps | Operations | Module |
|---|---|---|---|
| Sync planner (`sync/coordinator.rs`) | none | `plan_path`: row x local x remote -> operation and row | `SyncPlanner` |
| Sync engine (`sync.rs`, `collector.rs`, `transport.rs`) | a pass: scan, plans, transfers; a resolve | `source_sync`, `path_resolve`, `watch` | `PathSync`, `SyncEngine` |
| Provider store (`store.rs`, SQLite) | `path_sync_state`, `local_scan_cache`, `remote_manifest`, `sync_events`, sources, mounts, credentials | one transaction per call | in the above |
| AgentFS control plane (`control_plane.rs`, `agentfs.rs`) | `.section/agentfs/` in the backing source: head, commits, proposals, locks, events; per machine a mount, rows and a staging area | `fs attach`, `commit apply / propose / accept / reject / repair` | `AgentFsCommit`, abstract: `CommitLog` |
| Control service (`control_service.rs`, HTTP) | agents, filesystems, grants, shares, source profiles, credential leases | login, create, rollback, grant, revoke, share, accept, authorize | `ControlService` |
| AgentFS event log (`agentfs.rs`, `control_service.rs`, `watch.rs`) | event files in the source with numbers, event rows in the service's database; a client's cursor | append, copy, `fs events`, `watch` | `EventLog` |
| Local roots (`control_plane.rs`, `store.rs`) | sources, their local roots, mounts, accepted filesystems, sync rows; a marker file in each root | `source add / remove / bind / unbind / sync`, `fs create / accept / attach` | `LocalRoots` |
| Path scopes and AGENTS.md rules (`agentfs.rs`, `control_plane.rs`) | the rules in the source, the scopes of a grant | match, enforce, authorize | `PathScopes` |
| FUSE file system (`section-fuse`) | inode table, open files with whole-file buffers | lookup, getattr, readdir, setattr, open, read, write, flush, release, create, mkdir, unlink, rmdir, rename | `FuseFs` |
| Metadata and content caches (`section-core/cache.rs`) | stats and listings with a time to live, contents in LRU order with a byte count | get, put, invalidate, invalidate by prefix | `Caches` |
| Router, permissions, data plane | none of their own | paths of a source, mode bits, filling and clearing of the caches | in `FuseFs` |
| Hooks, crypto, config, CLI, delta prototype | none or static | parsing, printing, running a user's command | not modelled |

How they meet: the CLI calls the control plane; a sync pass reads the local
directory and the store's remote through opendal, plans each path from the
store's row, transfers paths concurrently (8 at a time by default) and writes
rows, cache lines and events one statement at a time.  AgentFS commands of
several machines share nothing but the objects in the backing source and the
control service.  A pass or a command may die between any two writes.

What is hard about it: state read before a wait and used after it (listing and
push, base and head, clock and lock record), one path of many failing, rows and
caches that have to stay in step with trees others write to, a crash between
records that only make sense together, and a lock made of plain objects.

What makes each part correct:
* planner, engine: nothing is overwritten that the row does not know; rows and
  caches tell the truth; passes settle; the announced state is the row's state;
* commits: one line of commits, the source equals what they add up to, a commit
  carries its author's edits and nothing else, a failed head can be repaired;
* control service: rights come from one grant in force and cannot be raised by
  their holder; events, shares, audit and sources stay in step with the grants;
* event log: a client that polls with a cursor misses nothing;
* local roots: no directory serves two sources; a sync pass runs on the rows of
  the root and the place it compares, and never on a governed filesystem;
* scopes and rules: an accepted commit lies where grant and rules allow it, and
  what lies there is not refused;
* FUSE: what was flushed is what is read; caches never hide a finished write of
  this mount; no flush drops bytes it has not seen.

## 2. Modules

`SyncPlanner` - pure.  `Plan(prev, local, remote)` is `plan_path` branch by
branch (`PlanBothPresent`, `PlanRemoteOnly`, `PlanLocalOnly`), the row
constructors are those of `sync.rs`, `Materialize` is `materialize_record`.
Versions are elements of a set; `None` is the version of a directory or of
nothing; `Kinds` are file and dir.

`PathSync` - one path, each pass atomic.  Variables `record`, `local`, `remote`
and the history `common` (the observations both sides have had alike).  Actions:
`Pass`, `PassWithoutRow` (transfer made, row lost), `Resolve(side)`, `Edit`.

`SyncEngine` - a pass as it really runs.  `phase` goes idle, listing, run, save,
manifest; `StartPass` scans the local tree through `localCache`, `PlanPass` lists
the remote through `manifest` and announces "syncing"; in "run" every path has
its own `work` state and its own transfer actions, in any order that the
directories allow; `FailPass` and `AbortPass` are the error paths;
`RefreshCaches`, `Persist(p)`, `SaveLocalCache`, `SaveManifest` the end of a
pass.  `rsv` is a `path_resolve` command in its steps.  A node of a tree is
content and stamp; the stamp stands for size and modification time, and for the
version token where `HasTokens`.  `uploaded` is a history: the (version, bytes)
pairs the remote has held.  `Quiet` names the
commands during which nobody edits, `Alone` says that they do not overlap.  `watch` is the last event of each path.

`AgentFsCommit` - machines running AgentFS commands on one source.  Every write
to `.section/agentfs` is an action of its own, in the order of the code, so that
commands interleave and die between any two: `WriteCommit`, `AnnounceCommit`,
`MoveHead`, `Release`, `Materialize(a, p)`, `AnnounceMaterialized`,
`MarkMaterialized`, `Decide`, ...  `acquire_head_lock` is three actions
(`ReadClock`, `CreateLock`, `ListLocks`).  A change is the two trees it was
computed from (`previous_version` and `local_version` of its dirty paths).
Histories: `truth` (the files the commits that became head add up to),
`accepted`, `basis` (what each local root was made from), `reset`.
`commit apply` and `commit accept` share their steps under the lock; `accept`
takes the identity of the proposal's commit.

`CommitLog` - what the governance layer promises: `Accept` on top of a settled
head, `Settle`.  `AgentFsCommit!Governed` is its specification under the mapping
log <- accepted, settled <- the commits recorded as materialized.

`ControlService` - the tables of the service as sets of rows, the identity each
machine keeps, the metadata in each backing source.  One action per call:
`Login`, `Create`, `Rollback`, `FsGrant`, `FsRevoke`, `FsShare`, `AcceptShare`.
A call is one SQLite transaction, so one action; a refused call is none.  Where
the code does part of its work outside the transaction there are two steps:
`CreateBegin` (the look into the source) and `Create`; `LoginLost` (the service
has answered, the store of the machine is not written); `CreateFails` (objects
written, rows rolled back); `AuthorizeCommit` and `AcceptCommit` (the authority
read from the service, the commit written to the source).  A machine in `Local`
opens the database itself and is trusted with its identity; any other calls the
server, which authenticates it, checks the policy of the profile and serves one
call at a time.  The scopes of a grant are the set of paths they match.  A name
stands for the agent id it gets; every way of naming a filesystem is its id.

`Caches` - pure.  A cache is a function from paths to entries; the content cache
adds the order of use and the count of bytes.  What a call invalidates is a set
of keys (`InvalidatedLists`, `InvalidatedStats`); `Evict`, `PutContent`,
`RemovePath` and `RemovePrefix` keep order and count as the code does.

`FuseFs` - the file system of one source over `Caches`.  `SectionFs` serves one
request at a time, so a request is one action: the call to the source, the
caches, the inode table and the handles together.  A file is the set of the
positions that were written, a path the sequence of its names.  Troubles are
calls that fail, whether or not they have had their effect (`FlushFails`,
`RenameFails`, ...), and changes by other clients (`Foreign`); `Tick` ages the
metadata.  The kernel looks a name up before it uses it: `missed` is the name
of which the last lookup said no, the one a create or mkdir may follow.
Histories: an entry is `sure` while nobody but this mount has changed what it
speaks of and no failed call may have; a handle is `raced` once something other
than its own flush has changed its file.  The source is what the caches are
compared with: the abstract file system is `files` itself.

`EventLog` - events are named by their place in the order of creation; each
writer takes its time, so they become visible in any order.  Numbers are taken
and events written in two steps without a lock (`TakeNumber`, `WriteEvent`); the
service's events are inserted in a transaction and copied later or never
(`Insert`, `Mirror`).  A poll reads the two logs in two steps, merges them
(`Merged`), renumbers by order of creation (`Rank`) and delivers a `Page` from
the `Offset` of the cursor.  `overtaken` is a history: the events that became
visible after a poll began that delivered a later one.

`LocalRoots` - a command is a record in `cmd` with the step it is at, in the
order in which the code writes the store, the marker and the rows; it may `Die`
before any step of `DiesAt`.  A failed attach goes through the steps of
`rollback_failed_attach`.  `rows[s]` says of which root and which place the
sync rows of a source speak.  `torn` is a history: sources whose last command
was left unfinished.

`PathScopes` - names are sequences of `Letters`, patterns the sequences of texts
between their stars.  `SegmentMatches` and `Matches` follow the code, `Glob` is
what globs mean, written without regard to the code.  Around it the commit of an
agent that may not manage: the head and the rules are read (`Begin`, `Enforce`),
then, under the lock, the head again and the grant (`Accept`), while the owner
replaces the grant (`FsGrant`) or the rules (`CommitRules`).

`MC*` give small values to the constants.  Operators commented "wrong:" are
plausible bugs of the definition that follows them; each property of a passing
run fails when one of them takes its definition's place.

## 3. Runs

| Run | Instance | Shows |
|---|---|---|
| `PathSync` | 1 path, 2 versions | `RemoteFileOverwriteIsKnown`, `PassIsIdempotent`, `TypeOK` |
| `SyncEngine_tree` | a directory, a file in it, 2 contents, 4 edits, 1 fault, tokens, quiet | `LocalBytesSurvive`, `RemoteBytesSurvive`, `ReadyRecordsAgree`, `BaseWasHeld`, `Settles`, `TypeOK` |
| `SyncEngine_hash` | 1 file, no tokens, 4 edits, also during a resolution, 1 fault | `CachesFaithful`, `WatchHonest` |
| `AgentFs_apply` | 2 agents, 2 paths, 2 commits, 2 edits, 1 fault, lock lives 2 ticks of 2 | `Governed`, `SourceMatchesHead`, `TypeOK` |
| `AgentFs_review` | agent and reviewer, 1 path, 1 edit, 1 fault, 1 ungoverned edit, fair | `CommitsOnlyEdits`, `EventsComplete`, `NoLostUpdate`, `AppliedHeadRecovers` |
| `AgentFs_lock` | 2 agents, overlapping acquisitions, no time passes | violated: `HeadAdvances` |
| `ControlService` | a local machine and a remote one, 2 names, 1 profile, 2 creates, 4 grants, 1 share, 1 commit, 1 fault | `OneActiveGrant`, `SeparationOfDuty`, `EventsReplay`, `NoDanglingRows`, `AuditExplains`, `SourceOwned`, `IdentitiesHold`, `TypeOK` |
| `FuseFs_files` | 2 files, 2 positions, 2 handles, 2 users, a content cache of 2 bytes, 1 failed call or change by another client | `CachedContentCurrent`, `UnracedFlushKeeps`, `CacheAccounted`, `TypeOK` |
| `FuseFs_tree` | a directory with a file and a directory or file that may hold another, 1 position, 1 handle, 1 user, no content cache, metadata that lives 1 tick | `StatsCurrent`, `ListingsCurrent` |
| `EventLog` | 3 events, pages of 1, the client starts over once, fair | `OnlyOvertakenMissed`, `SeenUnlessOvertaken` |
| `LocalRoots` | 2 sources, one a filesystem, 2 buckets, 3 directories of which one holds another, 1 command at a time, 1 dies | `RootsApart`, `RecordsAgree`, `SharedIsGoverned`, `PassesOnOwnRows` |
| `PathScopes` | 11 paths, 101 scopes, 2 protected scopes, commits of up to 2 paths, 2 commits | `AcceptedWithinBounds`, `InScopeAccepted` |

Deadlock is checked where the system can always take a step (the sync engine
may always start a pass).  `AgentFsCommit` and `ControlService` stop when their
bounds are used up, and so do the commits of `PathScopes`.  `EventLog`,
`LocalRoots` and `FuseFs` may come to rest too: every event stored and shown to
a watcher whose last poll found nothing, no user who asks for anything.  Their
configurations say CHECK_DEADLOCK FALSE.

Bounds.  `MaxEdits`, `MaxFaults`, `MaxDrift` count events of the environment;
the code has no such limits.  Four edits suffice for: common content, an edit of
each side, and one more during or after the conflict.  Two contents distinguish
"the old bytes" from "other bytes"; stamps distinguish all writes.  Two commits
are the first and one that must notice it; a third repeats the second's case.
With two paths a commit can be half materialized.  `TTL = 2`, `MaxTime = 2` let
two lock records be alive together and a dead holder's record expire; where the
lock is not the question one tick is enough.  A single fault reaches every
recovery path; two faults repeat them.  In `AgentFs_review` the ungoverned edit
can fall between any two steps of a command.  One edit makes both a commit and a
proposal, and whichever comes second is stale; two edits are in `AgentFs_apply`,
and any number in the proofs.

In `ControlService` four grants are the owner's and three of another agent: one
replaced, one revoked, one in force, or those of a second filesystem.  Two
creates on one profile are the one that succeeds and the one that must be
refused, or the one that failed and its repetition.  One fault is a lost login
or a create that fails; one path suffices, since a scope either has it or not.

In `FuseFs_files` two positions let one handle lack what another has written, and
two bytes of cache are full with one whole file or two small ones, so that every
put may evict; one trouble reaches every doubt and every race.  The owner may do
everything and a stranger only read.  There is one mode and one owner of files, so
that `SetAttr` changes nothing in the runs: what it can change is which requests
are refused, and a refused request changes nothing.  The theorems of
`FuseFs_proofs` hold for any users, owners and modes.  In `FuseFs_tree` two names
in a directory have a rename between them and a listing that both change, and a name
below one of them lets a flush make a directory again whose removal is cached.
In `EventLog`
three events with pages of one allow one to be late, one to be delivered and one
to move their numbers; equal numbers need two.  In `LocalRoots` the third
directory lies in the second, so that "equal", "above" and "below" all occur;
two sources are one that is asked about and one that is in the way.  In
`PathScopes` the scopes are all patterns of up to three texts out of "", a, b,
ab, all pairs of four kinds of steps and two longer ones; the names have texts
that recur and overlap.

Assumptions about the environment, named in the constants:
* `Quiet` (`SyncEngine_tree`, `_hash`): nobody edits during a pass; during a
  resolution they do in `SyncEngine_hash`.  With edits at any moment the
  properties about bytes fail: the transports have no conditional writes, and
  `Settles` fails when an edit falls between a pull and the refresh of its cache
  line.  `BaseWasHeld` holds for edits at any moment: that is the theorem
  `BaseHeld`.
* `Alone` (the same runs): a pass and a resolution do not overlap.  A pass that
  refreshes its cache while a resolution writes breaks `CachesFaithful`.
* `Paced` (`AgentFs_apply`, `_review`): lock acquisitions do not
  overlap or share a millisecond, and no lock expires under its holder.
  Without the first, two agents hold the lock (`AgentFs_lock`).
* In the passing AgentFS runs those who decide on proposals have no local root
  on the same machine: with one `CommitsOnlyEdits` fails (section 5).
* Commands run one at a time on each machine.
* `CreatesApart` (`ControlService`): no two creates are between the look into
  the source and the end of the transaction.  The server gives this by its lock
  around the store; local processes do not, and without it `SourceOwned` fails.
* No file is larger than the content cache (`FuseFs_files`:
  `MaxBytes` is the number of positions).  A smaller cache breaks `CachedContentCurrent`.
* `CreatesFresh` (`FuseFs`): a name lookup did not find is still free when it is
  created.  The kernel holds its directory meanwhile, other clients do not;
  create leaves the content cache alone, so that without this
  `CachedContentCurrent` fails.
* `AddsNew` (`LocalRoots`): `source add` is given names that are not taken; over
  a bound source `PassesOnOwnRows` fails.
* `Commands` has one element (`LocalRoots`): with two `RootsApart` fails.
* `DiesAt` (`LocalRoots`) leaves out "accept", "clear" and "forget": a command
  that dies before one of these leaves a source with a governed place, or with
  rows of another root, and nothing tells (section 5).

Fairness.  A watching client goes on polling: WF of `ListSource` and `Deliver`
(`watch` is a loop).  A command once begun goes on (the executor polls its future; each
call to a backend returns): WF of the steps of a pass and of a resolve, WF of
`Continue(a)`.  Nothing is assumed about anybody starting a pass: `Settles` says
"if passes keep being run".  `AppliedHeadRecovers` assumes SF of `RepairBegin`:
the commit's author retries `commit repair` as the error message tells it to,
whatever else it runs in between.  Failures are not fair, they are bounded.

## 4. Proofs

All for any values of the constants that satisfy the named assumptions.

* `SyncPlanner_proofs`: `RemoteWriteNeedsBase`, `LocalWriteNeedsLast` - no plan
  touches a present file whose version is not the one the row remembers -
  and lemmas about the shape of plans and rows.
* `PathSync_proofs`: `TypeCorrect`, `StaleOverwriteProtection`, `Idempotence`.
  The invariant adds to the types that a row's base, if it has one, names a file
  both sides have held in common; without it a plan's "remote is at base" says
  nothing about history.
* `SyncEngine_proofs`: `TypeCorrect` (an invariant that couples the phase, the
  work states, the values returned by transfers and the kinds of paths), and
  `BaseHeld`: with tokens, every recorded base is a version the remote held,
  for any interleaving of edits.  It is inductive only together with the same
  statement for what scans, transfers, cache lines and a resolve in progress
  carry (`VersionsHeld`).
  Where commands run one at a time and nobody edits during a pass
  (`Undisturbed`), `CachesStayFaithful` (`CachesFaithful`) and `RemoteBytesKept`
  (`RemoteBytesSurvive`).  Their invariant `CacheInv` says that what a pass has seen
  of a path that it has not transferred yet is still there, and that a cache line
  with the stamp of a file has the hash of its bytes.
  If in addition the backend has tokens and nobody edits during a resolution
  (`Tracked`), `ReadyRowsAgree` (`ReadyRecordsAgree`) and `LocalBytesKept`
  (`LocalBytesSurvive`).  `RowInv` puts the base of a row into the past of the
  remote, strictly so for a conflict over a remote file.  Else the remote could
  come back to the base, and the next pass would record as ready a local file
  that was never uploaded.  That is what happens without tokens, so the
  hypothesis cannot go.
  `WatchTold` (`WatchHonest`) is for sources without directories (`Flat`):
  `WatchInv` needs that no transfer finds its source gone, and deleting a remote
  directory removes files that another transfer is still to pull.
* `AgentFsCommit_proofs`: `TypeCorrect` and, when lock acquisitions do not
  overlap (`Paced`; `AgentFs_lock` shows the fork otherwise),
  `ImplementsCommitLog` (`Governed`: every step is one of `CommitLog` or leaves
  its variables alone), from there `Line` (`NoFork`) and `Settled`
  (`OnlyHeadUnsettled`) of `CommitLog`, then `HeadMovesForward` (`HeadAdvances`),
  `SourceFollowsHead` (`SourceMatchesHead`), `NothingLost` (`NoLostUpdate`),
  `EventsTold` (`EventsComplete`) and, where deciders have no local root,
  `OnlyEditsCommitted` (`CommitsOnlyEdits`).  The invariant is built in layers.
  An agent that holds the lock is the only one, and any other that still acquires
  is the later one and will see so (`Exclusive`).  So the head that was compared
  under the lock is still the head when it moves, and its files are in the source
  (`MovesOK`, `LineOK`).  Commands and records agree about the commit they both
  name, also after a command died and another repairs (`WorkOK`, `RecordsOK`), so
  that only the head is ever materialized, by one command at a time
  (`MaterializingOK`).  Then the source is short of the head by just the paths
  that are left (`FilesOK`), and a change about to be committed still starts from
  the files of the head (`ChangesCurrent`).  Events (`EventsOK`) and the rows of
  local roots (`RowsOK`) come last.  The hypothesis about deciders is needed: a
  reviewer with a root has its base moved under its files (section 5).
* `ControlService_proofs`: `TypeCorrect`, `UniqueGrant`, `DutiesSeparated`,
  `AuditTrail`, `RowsStay`; under `CreatesApart` also `SourcesOwned`.  The
  invariant `IInv` adds that ids are never used twice (`IdsFresh`: else a claim
  or a grant of a rolled back filesystem would speak of a later one), that only
  owners have the owner's role, and that nobody granted itself the right to
  commit; with at most one grant in force and no role that both manages and
  commits, separation of duty follows.  `SourcesOwned` adds that a create which
  has looked is the only one and still finds its source empty.  Without any
  hypothesis, `EventsTell` (`EventsReplay`): the grants in force are those the
  log leaves standing, because every id is fresh and the log of a filesystem that
  is not created yet, or was rolled back, is empty (`EventsInv`); and
  `IdentitiesKept` (`IdentitiesHold`), which is inductive with the types.
* `PathScopes_proofs`, for any names over any letters and any scopes.
  `RulesEnforced` - although the rules are read before the lock is taken,
  an accepted commit changes no path that takes the right to manage under the
  rules in force at that moment.  Rules change only with the head, and the head
  only grows: a commit accepted on the head it began on has seen the rules of
  that head.  `MatchesSound` and `MatchesComplete` compare the matching of the
  code with the meaning of globs (`Glob`): what matches is what the scope stands
  for, and all of it matches except where the text behind the last star of a
  pattern occurs twice in a name (`Clear`, section 5).  From these and
  `RulesEnforced` follow `WithinBounds` (`AcceptedWithinBounds`) and `NotRefused`
  (`InScopeAccepted`).  The code matches by two recursions, which the model has
  as functions defined by recursion on a number or a position.  No induction is
  needed for them: such a definition has one solution, a set given without
  recursion, since the least place at which another differed would contradict
  its equation (`LeastExists`).  For a name the solution is the first end of all
  ways to place the texts before it in the name: the first occurrence of a text
  leaves most room for those behind it (`ReachedStep`).  For a path it is whether
  there is a cut of the path among the steps of the scope (`MatchesIsCut`).
  The last section is about `EventLog`, which the module extends too (so its
  specification is named `LogSpec`):
  `NothingPassedOver`, the property `OnlyOvertakenMissed` for
  any number of events, page size and restarts.  Its invariant
  says that what is shown is closed downwards up to the overtaken events, and
  that the cursor is never ahead of all that was shown.  The second part is what
  makes a page extend the closure; it holds because an event's rank only grows
  as others come in before it.
* `LocalRoots_proofs`, for commands one at a time: `RootsStayApart` (the property
  `RootsApart`, whatever dies at any step) and, when no command dies between
  storing the source of a filesystem and recording it as accepted,
  `FilesystemsGoverned` (`SharedIsGoverned`).  The first adds to the roots that a
  command about to set one has just found it apart from all, and that the root
  it would go back to is still beside those of the others.  The second adds that
  every source in a filesystem's place is recorded, or is at the step that does
  so.  `RecordsStayTogether` (`RecordsAgree`) needs no more than one command
  at a time: whatever a command has changed and not finished is named by its step
  or by `torn` (`AInv`).  `PassesSeeOwnRows` (`PassesOnOwnRows`) also assumes that
  sources are added under new names (`AddsNew`) and that no command dies just
  before it clears rows or records a filesystem (`CleansUp`).  Both are needed:
  the rows of the former root or place stay there, and nothing tells that they
  are old (section 5).

* `FuseFs_proofs`, for any tree, number of handles, users, modes and time to
  live, whatever other clients do and whatever fails.  `TypesStay` has no
  hypothesis, and neither has `ListingsStayRight` (`ListingsCurrent`).
  `StatsStayRight` (`StatsCurrent`) assumes `CreatesFresh`, `ReadsOwnWrites`
  (`CachedContentCurrent`) and `FlushesKeepBytes` (`UnracedFlushKeeps`) also that
  no file is larger than the content cache (`Fits`); without the one or the other
  the old entry of a file stays and is read (sections 3 and 5).  Requests are of
  few kinds (`StepKinds`), and each changes the paths it names, besides
  directories above them that a write makes again (`Touched`).  What it
  invalidates covers these paths, and an entry of a path that stays as it was
  stays right; no such entry is one of a directory made again, which was not
  there.  A failed call or another client makes the entries it touches unsure.
  `FlushesKeepBytes` adds that a handle which is not raced holds every byte of its
  file (`Buffers`), and needs right contents for it: an open trusts the cache.
  `FuseTyped` (`TypeOK`) and `CacheCountsRight` (`CacheAccounted`) have no
  hypothesis either.  For the second, the count of bytes is the number of pairs
  of a cached path and a byte of its content, so that sums are cardinalities of
  disjoint unions (`BytesApart`).  Every operation of the content cache keeps
  its invariant `Accounts`: order, entries and count agree, and the count is
  within `MaxBytes`.  Eviction keeps it because the shortest run of old entries that
  makes room exists: dropping all of them leaves the whole cache
  (`EvictAccounts`).

Every invariant and every action property of the passing runs is a theorem, some
under the hypotheses named above.  Only model-checked are the liveness properties
(`Settles`, `AppliedHeadRecovers`, `SeenUnlessOvertaken`): liveness under
fairness is outside the provers' reach.

## 5. What the code does that its documents do not say

`AgentFs_lock` shows one; the others have no run of their own (all in
`PROJECT.json`, with the line of the document).  Of the sync engine:
* a conflict does not pause: the next pass moves or deletes files;
* an edit between a pull and the refresh of its cache line is never uploaded;
* a remote directory never seen here is removed after a kind conflict;
* a directory removal takes along remote children that appeared meanwhile;
* a failed pass leaves transferred paths announced as syncing;
* `path compare` in conflict can report a match with the current remote;
* an edit of the remote between the listing and the push is overwritten.

Of AgentFS and the control service:
* accepting a proposal moves the base of a local root whose files stay as they
  were: its next commit takes the proposal back;
* `commit.accepted` is written before the head, not after it;
* event numbers are taken without the lock;
* two creates from one profile by local processes share its source;
* `fs available` lists shares that `fs accept` refuses, once the grant they were
  made for has been replaced;
* a name whose token the machine no longer holds can never log in again;
* an accepted proposal whose materialization failed cannot be repaired: its
  snapshot is looked for on the local disk;
* an event that becomes visible after a later one was delivered is never
  delivered, and the numbers of those behind it move;
* a pattern with a text behind its last star does not match a name in which that
  text occurs earlier, too: "*a" does not match "aa".

Of local roots:
* `source add` over a bound source keeps its rows, and the next pass deletes;
* a bind that dies before it clears the rows cannot be repaired by another bind;
* an adopted filesystem that was not recorded as accepted is open to plain sync;
* a failed attach to the root already bound leaves that root without a marker;
* two binds at once may bind a directory and one below it.

Of FUSE:
* content too large for the cache leaves the old entry there, which every open
  then reads;
* a lookup renews the life of a cached stat: looked up often, it never expires;
* the listing of the source itself is not invalidated by a change in it;
* a flush into a directory that was removed makes it again, and the listing of
  the directory above goes on without it until it expires: `ListingsCurrent` allows for this;
* cached contents have no age, although a time to live is configured;
* a truncation changes the size in the inode and neither file nor buffer.

Also observed, of FUSE: a changed mode is undone by the next lookup; rename
forgets the inode the kernel holds; a handle open across a rename or an unlink
writes back to the old name; release drops the buffer when its flush fails; a
rename that fails between copy and delete leaves both names; create overwrites a
file another client has made since the lookup.  Of local roots: adopting a
filesystem silently replaces a plain source of its name; unbind leaves the rows
(the next bind clears them); after a crash in an attach its repetition may leave
the old marker.

Elsewhere: since roles never combine manage and commit, only an owner can accept
a proposal; a commit authorized before a revocation is still recorded after it;
nothing revokes a share; a rolled back create leaves its metadata in the source,
from which nothing can be created again; an edit of the same size in the same
tick is invisible to the stat caches; an edit while a resolution copies leaves a
row that pairs the version it inspected with other bytes (`ReadyRecordsAgree`
with `Quiet = {"pass"}`); two passes at once share rows without a lock; a push without a
token records the local hash as remote version; the successful pushes of a pass
that fails are not recorded, and the next pass may find a conflict; a failed
re-attach leaves the old root with no rows or those of the new one, after which
an ungoverned edit is not noticed there; reject can win over an accept whose
head has moved but whose proposal is still open.

## 6. Not modelled

Symlinks and special files, sizes and byte counts, progress statistics, HTTP and
SQLite themselves (a statement is atomic and durable), credentials, the
legacy single-file lock (it can only block).  `AgentFsCommit` takes roles as
fixed and has no rules, which only refuse a commit (`PathScopes` has them);
`ControlService` has the authority of a commit but not its head.  Of the control service: hooks, credential bindings
(they are recorded and nothing reads them), the seeding of source profiles, the
copies of grants and events in the source (written best effort, no authority),
expiry of shares (never set) and the names of filesystems in calls.  Attach
copies the source in one step: the comparison that follows rejects any mixture.
Edits of the same stamp are left out.  Metadata reads are atomic with the step
that uses them.

Hooks: a user's command runs after a materialization with a time limit, its
outcome is recorded and printed, and nothing depends on it.  The YAML block of
AGENTS.md, TOML, encryption, router and command line: parsing and printing
without state.  Of FUSE the directory that lists the sources, which is fixed
while the file system is mounted, and removing a source's directory.  Of local
roots: roots that overlap the backing root of a local source, and sources of the
configuration file, which no command changes.  Two passes over one source at
once: the code has no guard against them and no document says what they may do.

## 7. Plan

1. (done) `SyncPlanner`, `PathSync`, `SyncEngine` and their proofs.
2. (done) `CommitLog`, `AgentFsCommit`; proofs of all safety properties and of
   the refinement.
3. (done) `ControlService`; proofs.
4. (done) `FuseFs` over `Caches`; proofs of all its properties.
5. (done) `EventLog`; proof of `OnlyOvertakenMissed`.
6. (done) `LocalRoots`, `PathScopes`; proofs of all their properties, and that
   matching is what globs mean.
7. (done) The safety properties of `SyncEngine` under `Undisturbed`, `Tracked`
   and `Flat`, of `ControlService` and of `LocalRoots`.
8. Hooks beside materialization; a second pass beside the first in `SyncEngine`.
