-------------------------- MODULE SyncEngine_proofs --------------------------
(***************************************************************************)
(* Theorems about SyncEngine, for every tree of paths, every set of        *)
(* contents, both kinds of backend and any interleaving of edits.          *)
(***************************************************************************)
EXTENDS SyncEngine, SyncPlanner_proofs

(* The values a path may hold and a version may have are told apart. *)
LEMMA ValueFacts ==
  /\ None \notin Version /\ Bytes \subseteq Version /\ Bytes \subseteq Holdings
  /\ Nat \subseteq Version /\ Version \subseteq MaybeVersion /\ None \in MaybeVersion
  /\ Absent \in Holdings /\ Directory \in Holdings /\ Partial \in Bytes
  /\ Absent \notin Bytes /\ Directory \notin Bytes /\ Absent # Directory
  /\ FilePaths \subseteq Paths /\ DirPaths \subseteq Paths
  /\ \A p \in Paths : p \in FilePaths <=> p \notin DirPaths
  /\ Content \subseteq Bytes
BY ValuesAssumption, TreeAssumption
DEF Version, Bytes, Holdings, MaybeVersion, Maybe, FilePaths

(* The operations on trees give trees. *)
LEMMA NodeFacts ==
  ASSUME NEW tree \in Trees, NEW p \in Paths
  PROVE  /\ tree \in [Paths -> Node] /\ tree[p] \in Node
         /\ tree[p].data \in Holdings /\ tree[p].stamp \in Nat
         /\ p \in DirPaths => ~IsFile(tree[p])
         /\ p \notin DirPaths => tree[p].data # Directory
         /\ IsFile(tree[p]) <=> tree[p].data \notin {Absent, Directory}
BY ValueFacts DEF Trees, Node, IsFile, Holdings

LEMMA AsDirTyped ==
  ASSUME NEW node \in Node, ~IsFile(node)
  PROVE  AsDir(node) \in Node /\ ~IsFile(AsDir(node))
BY ValueFacts DEF AsDir, Written, Node, Exists, IsFile

LEMMA MakeParentsTyped ==
  ASSUME NEW tree \in Trees, NEW p \in Paths
  PROVE  MakeParents(tree, p) \in Trees
<1> DEFINE new == MakeParents(tree, p)
<1>1. Above[p] \subseteq DirPaths
  BY TreeAssumption
<1>2. ASSUME NEW q \in Paths
      PROVE  /\ new[q] \in Node
             /\ IF q \in DirPaths THEN ~IsFile(new[q]) ELSE new[q].data # Directory
  BY <1>1, <1>2, NodeFacts, AsDirTyped DEF MakeParents
<1> QED
  BY <1>2 DEF Trees, MakeParents

LEMMA MakeDirTyped ==
  ASSUME NEW tree \in Trees, NEW p \in DirPaths
  PROVE  MakeDir(tree, p) \in Trees
<1> DEFINE mid == MakeParents(tree, p)
           new == MakeDir(tree, p)
<1>0. p \in Paths
  BY TreeAssumption
<1>1. mid \in Trees
  BY <1>0, MakeParentsTyped
<1>2. mid[p] \in Node /\ ~IsFile(mid[p])
  BY <1>0, <1>1, NodeFacts
<1>3. AsDir(mid[p]) \in Node /\ ~IsFile(AsDir(mid[p]))
  BY <1>2, AsDirTyped
<1>4. new = [mid EXCEPT ![p] = AsDir(mid[p])]
  BY DEF MakeDir
<1> HIDE DEF mid
<1> QED
  BY <1>0, <1>1, <1>3, <1>4 DEF Trees

LEMMA PutTyped ==
  ASSUME NEW tree \in Trees, NEW p \in FilePaths, NEW bytes \in Bytes
  PROVE  Put(tree, p, bytes) \in Trees
<1> DEFINE mid == MakeParents(tree, p)
           new == Put(tree, p, bytes)
<1>0. p \in Paths /\ p \notin DirPaths
  BY ValueFacts
<1>1. mid \in Trees
  BY <1>0, MakeParentsTyped
<1>2. Written(mid[p], bytes) \in Node /\ Written(mid[p], bytes).data # Directory
  BY <1>0, <1>1, NodeFacts, ValueFacts DEF Written, Node
<1>3. new = [mid EXCEPT ![p] = Written(mid[p], bytes)]
  BY DEF Put
<1> HIDE DEF mid
<1> QED
  BY <1>0, <1>1, <1>2, <1>3 DEF Trees

LEMMA DropTyped ==
  ASSUME NEW tree \in Trees, NEW gone
  PROVE  Drop(tree, gone) \in Trees
<1> DEFINE new == Drop(tree, gone)
<1>1. ASSUME NEW q \in Paths
      PROVE  /\ new[q] \in Node
             /\ IF q \in DirPaths THEN ~IsFile(new[q]) ELSE new[q].data # Directory
  <2>1. tree[q] \in Node /\ Gone(tree[q]) \in Node /\ Gone(tree[q]).data = Absent
    BY NodeFacts, ValueFacts DEF Node, Gone
  <2> QED
    BY <2>1, NodeFacts, ValueFacts DEF Drop, IsFile
<1> QED
  BY <1>1 DEF Trees, Drop

(* Writing a tree keeps the trees and the history of the remote typed. *)
LEMMA SetLocalTyped ==
  ASSUME TreesOK, NEW tree \in Trees, SetLocal(tree)
  PROVE  TreesOK'
BY DEF TreesOK, SetLocal

LEMMA SetRemoteTyped ==
  ASSUME TreesOK, NEW tree \in Trees, SetRemote(tree), UNCHANGED local
  PROVE  TreesOK'
<1>1. ASSUME NEW p \in Paths, IsFile(tree[p])
      PROVE  <<RemoteVersion(tree[p]), tree[p].data>> \in Version \X Bytes
  BY <1>1, NodeFacts, ValueFacts DEF IsFile, RemoteVersion
<1>2. ASSUME NEW p \in Paths
      PROVE  uploaded'[p] \in SUBSET (Version \X Bytes)
  BY <1>1, <1>2 DEF SetRemote, TreesOK
<1>3. uploaded' = [p \in Paths |-> uploaded'[p]]
  BY DEF SetRemote
<1> QED
  BY <1>2, <1>3 DEF TreesOK, SetRemote

-----------------------------------------------------------------------------
(* What the scans and the inspections see is an observation of the path's  *)
(* own kind, and makes a well-formed cache line.                           *)
LEMMA ObserveTyped ==
  ASSUME NEW tree \in Trees, NEW p \in Paths, NEW v \in Version
  PROVE  /\ Observe(tree[p], v) \in Observation
         /\ KindFits(p, Observe(tree[p], v))
         /\ Observe(tree[p], v).kind = "file" <=> IsFile(tree[p])
         /\ IsFile(tree[p]) => Observe(tree[p], v) = File(v)
<1>1. Nothing \in Observation /\ Dir \in Observation /\ File(v) \in Observation
  BY ValueFacts DEF Nothing, Dir, File, Observation, Observations, Kinds, Maybe
<1>2. ~Seen(Nothing) /\ Dir.kind = "dir" /\ File(v).kind = "file" /\ Nothing.kind = "nothing"
  BY DEF Seen, Nothing, Dir, File
<1> QED
  BY <1>1, <1>2, NodeFacts DEF Observe, KindFits

LEMMA LineTyped ==
  ASSUME NEW o \in Observation, NEW stamp \in Nat
  PROVE  Line(o, stamp) \in CacheLine
BY ObservationFacts DEF Line, CacheLine, Observation, MaybeVersion

LEMMA FixedLines == NoLine \in CacheLine /\ Line(Dir, 0) \in CacheLine
BY ValueFacts DEF NoLine, Line, Dir, CacheLine, Kinds

LEMMA FileTyped ==
  ASSUME NEW v \in Version
  PROVE  File(v) \in Observation
BY ValueFacts DEF File, Observation, Observations, Kinds, Maybe

LEMMA ScansTyped ==
  ASSUME TypeOK, NEW p \in Paths
  PROVE  /\ ScanLocal(p) \in Observation /\ KindFits(p, ScanLocal(p))
         /\ ScanRemote(p) \in Observation /\ KindFits(p, ScanRemote(p))
         /\ InspectLocal(p) \in Observation /\ KindFits(p, InspectLocal(p))
         /\ InspectRemote(p) \in Observation /\ KindFits(p, InspectRemote(p))
<1>1. local \in Trees /\ remote \in Trees
  BY DEF TypeOK, TreesOK
<1>2. ASSUME NEW tree \in Trees, NEW v, IsFile(tree[p]) => v \in Version
      PROVE  Observe(tree[p], v) \in Observation /\ KindFits(p, Observe(tree[p], v))
  <2>1. CASE v \in Version
    BY <2>1, ObserveTyped
  <2>2. CASE ~IsFile(tree[p])
    <3>1. \A w : Observe(tree[p], w) = Observe(tree[p], Partial)
      BY <2>2, NodeFacts DEF Observe
    <3> QED
      BY <3>1, ObserveTyped, ValueFacts
  <2> QED
    BY <1>2, <2>1, <2>2
<1>3. ASSUME NEW line \in CacheLine, NEW node, Hit(line, node)
      PROVE  line.version \in Version
  BY <1>3 DEF CacheLine, Hit, MaybeVersion, Maybe
<1>4. localCache[p] \in CacheLine /\ manifest[p] \in CacheLine
  BY DEF TypeOK, StoreOK
<1>5. /\ IsFile(local[p]) => local[p].data \in Version
      /\ IsFile(remote[p]) => RemoteVersion(remote[p]) \in Version
  BY <1>1, NodeFacts, ValueFacts DEF IsFile, RemoteVersion
<1>6. ScanLocal(p) \in Observation /\ KindFits(p, ScanLocal(p))
  BY <1>1, <1>2, <1>3, <1>4, <1>5 DEF ScanLocal
<1>7. ScanRemote(p) \in Observation /\ KindFits(p, ScanRemote(p))
  BY <1>1, <1>2, <1>3, <1>4, <1>5 DEF ScanRemote
<1>8. InspectLocal(p) \in Observation /\ KindFits(p, InspectLocal(p))
  BY <1>1, <1>2, <1>5 DEF InspectLocal
<1>9. InspectRemote(p) \in Observation /\ KindFits(p, InspectRemote(p))
  BY <1>1, <1>2, <1>5 DEF InspectRemote
<1> QED
  BY <1>6, <1>7, <1>8, <1>9

LEMMA ConstantsTyped ==
  /\ NoRecord \in Record /\ NoInput \in Input /\ ~Seen(Nothing) /\ Nothing \in Observation
  /\ \A kind \in Kinds, l, r \in MaybeVersion : ReadyRecord(kind, l, r) \in Record
  /\ ReadyAbsentRecord \in Record
  /\ Fresh \in Trees
<1>1. NoRecord \in Record
  BY DEF NoRecord, Record, Records, Kinds, Maybe
<1>2. Nothing \in Observation /\ ~Seen(Nothing)
  BY DEF Nothing, Observation, Observations, Kinds, Maybe, Seen
<1>3. \A kind \in Kinds, l, r \in MaybeVersion : ReadyRecord(kind, l, r) \in Record
  BY <1>1, RecordsTyped DEF Record, MaybeVersion
<1>4. ReadyAbsentRecord \in Record
  BY <1>1, RecordsTyped DEF Record
<1>5. Fresh \in Trees
  BY ValueFacts DEF Fresh, Trees, Node, IsFile
<1> QED
  BY <1>1, <1>2, <1>3, <1>4, <1>5 DEF NoInput, Input

(* The plan of a path, and what its transfer says of the path's kind. *)
LEMMA PlanFacts ==
  ASSUME TypeOK, NEW p \in Paths
  PROVE  /\ PlanFor(p) \in Plans(Version)
         /\ PlanFor(p).op \in {"create_local_dir", "create_remote_dir"} => p \in DirPaths
         /\ PlanFor(p).op \in {"pull_file", "push_file"} => p \in FilePaths
         /\ PlanFor(p).op = "push_file" => seen[p].local.version \in Version
<1>1. /\ seen[p].prev \in Records(Version)
      /\ seen[p].local \in Observations(Version) /\ seen[p].remote \in Observations(Version)
      /\ KindFits(p, seen[p].local) /\ KindFits(p, seen[p].remote)
  BY DEF TypeOK, PassOK, Input, Record, Observation
<1>2. PlanFor(p) \in Plans(Version)
  BY <1>1, PlanTyped DEF PlanFor
<1>3. /\ PlanFor(p).op = "create_local_dir" => Seen(seen[p].remote) /\ seen[p].remote.kind = "dir"
      /\ PlanFor(p).op = "create_remote_dir" => Seen(seen[p].local) /\ seen[p].local.kind = "dir"
      /\ PlanFor(p).op = "pull_file" => Seen(seen[p].remote) /\ seen[p].remote.kind # "dir"
      /\ PlanFor(p).op = "push_file" => Seen(seen[p].local) /\ seen[p].local.kind # "dir"
  BY <1>1, TransferSource DEF PlanFor
<1>4. p \in FilePaths <=> p \notin DirPaths
  BY ValueFacts
<1>5. PlanFor(p).op = "push_file" => seen[p].local.version \in Version
  BY <1>1, <1>3, ObservationFacts DEF Kinds, Maybe
<1> QED
  BY <1>1, <1>2, <1>3, <1>4, <1>5 DEF KindFits

-----------------------------------------------------------------------------
(* Steps shared by several actions: what is left alone stays typed, a pass *)
(* that ends is typed, and so is one that has made a transfer.             *)
LEMMA UntouchedTyped ==
  ASSUME TypeOK
  PROVE  /\ UNCHANGED trees => TreesOK'
         /\ UNCHANGED <<store, watch>> => StoreOK'
         /\ UNCHANGED pass => PassOK'
         /\ UNCHANGED rsv => ResolveOK'
         /\ UNCHANGED <<edits, faults>> => CountersOK'
<1>1. UNCHANGED trees => TreesOK'
  BY DEF TypeOK, TreesOK, trees
<1>2. UNCHANGED <<store, watch>> => StoreOK'
  BY DEF TypeOK, StoreOK, store
<1>3. UNCHANGED pass => PassOK'
  BY DEF TypeOK, PassOK, pass, PlanFor
<1>4. UNCHANGED rsv => ResolveOK'
  BY DEF TypeOK, ResolveOK
<1>5. UNCHANGED <<edits, faults>> => CountersOK'
  BY DEF TypeOK, CountersOK
<1> QED
  BY <1>1, <1>2, <1>3, <1>4, <1>5

LEMMA EndPassTyped ==
  ASSUME EndPass
  PROVE  PassOK'
<1>1. NoInput \in Input /\ NoLine \in CacheLine /\ None \in MaybeVersion
  BY ConstantsTyped, FixedLines, ValueFacts
<1>2. seen' \in [Paths -> Input] /\ phase' = "idle"
  BY <1>1 DEF EndPass
<1>3. \A p \in Paths : KindFits(p, seen'[p].local) /\ KindFits(p, seen'[p].remote)
  BY ConstantsTyped DEF EndPass, NoInput, KindFits
<1>4. newCache' \in [Paths -> CacheLine] /\ newManifest' \in [Paths -> CacheLine]
  BY <1>1 DEF EndPass
<1>5. /\ work' \in [Paths -> {"todo", "stat", "done", "failed", "saved"}]
      /\ got' \in [Paths -> MaybeVersion]
  BY <1>1 DEF EndPass
<1> QED
  BY <1>2, <1>3, <1>4, <1>5 DEF PassOK

LEMMA FaultTyped ==
  ASSUME TypeOK, Fault, UNCHANGED edits
  PROVE  CountersOK'
<1>1. faults \in 0..MaxFaults /\ edits \in 0..MaxEdits
  BY DEF TypeOK, CountersOK
<1>2. faults' \in 0..MaxFaults
  BY <1>1, SettingsAssumption DEF Fault
<1>3. edits' \in 0..MaxEdits
  BY <1>1
<1> QED
  BY <1>2, <1>3 DEF CountersOK

LEMMA FinishTyped ==
  ASSUME TypeOK, NEW p \in Paths, NEW status \in {"stat", "done", "failed"},
         NEW version \in MaybeVersion, phase = "run", Finish(p, status, version),
         status = "stat" => PlanFor(p).op = "push_file",
         status = "done" /\ PlanFor(p).op = "pull_file" => version \in Bytes
  PROVE  StoreOK' /\ PassOK' /\ ResolveOK'
<1>1. StoreOK' /\ ResolveOK'
  BY UntouchedTyped DEF Finish
<1>2. /\ UNCHANGED <<phase, seen, newCache, newManifest>>
      /\ work' = [work EXCEPT ![p] = status] /\ got' = [got EXCEPT ![p] = version]
  BY DEF Finish
<1>3. \A q \in Paths : PlanFor(q)' = PlanFor(q)
  BY <1>2 DEF PlanFor
<1>4. /\ work \in [Paths -> {"todo", "stat", "done", "failed", "saved"}]
      /\ got \in [Paths -> MaybeVersion]
  BY DEF TypeOK, PassOK
<1>5. \A q \in Paths :
        /\ work'[q] = "stat" => PlanFor(q)'.op = "push_file"
        /\ work'[q] = "done" /\ PlanFor(q)'.op = "pull_file" => got'[q] \in Bytes
  BY <1>2, <1>3, <1>4 DEF TypeOK, PassOK
<1> QED
  BY <1>1, <1>2, <1>4, <1>5 DEF TypeOK, PassOK

-----------------------------------------------------------------------------
(* Each action keeps the types: the actions of a pass ... *)
LEMMA StartPassTyped ==
  ASSUME TypeOK, StartPass
  PROVE  TypeOK'
<1> USE DEF StartPass
<1>1. TreesOK' /\ StoreOK' /\ ResolveOK'
  BY UntouchedTyped
<1>2. CountersOK'
  BY DEF TypeOK, CountersOK
<1>3. ASSUME NEW p \in Paths
      PROVE  /\ seen'[p] \in Input
             /\ KindFits(p, seen'[p].local) /\ KindFits(p, seen'[p].remote)
             /\ newCache'[p] \in CacheLine
  <2>1. seen'[p] = [prev |-> records[p], local |-> ScanLocal(p), remote |-> Nothing]
    OBVIOUS
  <2>2. records[p] \in Record /\ local[p].stamp \in Nat
    BY NodeFacts DEF TypeOK, StoreOK, TreesOK
  <2>3. ScanLocal(p) \in Observation /\ KindFits(p, ScanLocal(p))
    BY ScansTyped
  <2>4. Nothing \in Observation /\ KindFits(p, Nothing)
    BY ConstantsTyped DEF KindFits
  <2>5. newCache'[p] = Line(ScanLocal(p), local[p].stamp)
    OBVIOUS
  <2> HIDE DEF StartPass
  <2>6. newCache'[p] \in CacheLine
    BY <2>2, <2>3, <2>5, LineTyped
  <2> QED
    BY <2>1, <2>2, <2>3, <2>4, <2>6 DEF Input
<1>4. seen' \in [Paths -> Input] /\ newCache' \in [Paths -> CacheLine]
  BY <1>3
<1>5. PassOK'
  BY <1>3, <1>4 DEF PassOK, TypeOK, StoreOK
<1> QED
  BY <1>1, <1>2, <1>5 DEF TypeOK

LEMMA PlanPassTyped ==
  ASSUME TypeOK, PlanPass
  PROVE  TypeOK'
<1> DEFINE busy == {p \in Paths : PlanFor(p)'.op # "none"}
<1>1. TreesOK' /\ ResolveOK' /\ CountersOK'
  BY UntouchedTyped DEF PlanPass
<1>2. /\ work' = [p \in Paths |-> IF p \in busy THEN "todo" ELSE "done"]
      /\ watch' = [p \in Paths |-> IF p \in busy THEN "syncing" ELSE watch[p]]
      /\ seen' = [p \in Paths |-> [prev |-> seen[p].prev, local |-> seen[p].local,
                                   remote |-> ScanRemote(p)]]
      /\ newManifest' = [p \in Paths |-> Line(ScanRemote(p), remote[p].stamp)]
      /\ phase' = "run" /\ UNCHANGED <<store, newCache, got>>
  BY DEF PlanPass
<1>3. StoreOK'
  BY <1>2 DEF TypeOK, StoreOK, store
<1>4. ASSUME NEW p \in Paths
      PROVE  /\ seen'[p] \in Input
             /\ KindFits(p, seen'[p].local) /\ KindFits(p, seen'[p].remote)
             /\ newManifest'[p] \in CacheLine
  <2>1. seen'[p] = [prev |-> seen[p].prev, local |-> seen[p].local, remote |-> ScanRemote(p)]
    BY <1>2
  <2>2. seen[p] \in Input /\ KindFits(p, seen[p].local) /\ remote[p].stamp \in Nat
    BY NodeFacts DEF TypeOK, PassOK, TreesOK
  <2>3. ScanRemote(p) \in Observation /\ KindFits(p, ScanRemote(p))
    BY ScansTyped
  <2>4. newManifest'[p] \in CacheLine
    BY <1>2, <2>2, <2>3, LineTyped
  <2> QED
    BY <2>1, <2>2, <2>3, <2>4 DEF Input
<1>5. seen' \in [Paths -> Input] /\ newManifest' \in [Paths -> CacheLine]
  BY <1>2, <1>4
<1>6. \A p \in Paths :
        /\ work'[p] # "stat"
        /\ work'[p] = "done" => PlanFor(p)'.op = "none"
  BY <1>2
<1>7. work' \in [Paths -> {"todo", "stat", "done", "failed", "saved"}]
  BY <1>2
<1> HIDE DEF busy
<1>8. PassOK'
  BY <1>2, <1>4, <1>5, <1>6, <1>7 DEF TypeOK, PassOK
<1> QED
  BY <1>1, <1>3, <1>8 DEF TypeOK

(* ... its transfers, ... *)
LEMMA TransferTyped ==
  ASSUME TypeOK, NEW p \in Paths, Transfer(p)
  PROVE  TypeOK'
<1> USE ValueFacts, PlanFacts, NodeFacts
<1>1. TreesOK /\ local \in Trees /\ remote \in Trees
  BY DEF TypeOK, TreesOK
<1>2. CASE CreateLocalDir(p)
  <2>1. phase = "run" /\ PlanFor(p).op = "create_local_dir"
    BY <1>2 DEF CreateLocalDir, Ready
  <2>2. MakeDir(local, p) \in Trees
    BY <1>1, <2>1, MakeDirTyped
  <2>3. TreesOK'
    BY <1>1, <1>2, <2>2, SetLocalTyped DEF CreateLocalDir
  <2>4. StoreOK' /\ PassOK' /\ ResolveOK'
    BY <1>2, <2>1, FinishTyped DEF CreateLocalDir
  <2>5. CountersOK'
    BY <1>2, UntouchedTyped DEF CreateLocalDir, Finish
  <2> QED
    BY <2>3, <2>4, <2>5 DEF TypeOK
<1>3. CASE CreateRemoteDir(p)
  <2>1. phase = "run" /\ PlanFor(p).op = "create_remote_dir"
    BY <1>3 DEF CreateRemoteDir, Ready
  <2>2. MakeDir(remote, p) \in Trees
    BY <1>1, <2>1, MakeDirTyped
  <2>3. TreesOK'
    BY <1>1, <1>3, <2>2, SetRemoteTyped DEF CreateRemoteDir
  <2>4. StoreOK' /\ PassOK' /\ ResolveOK'
    BY <1>3, <2>1, FinishTyped DEF CreateRemoteDir
  <2>5. CountersOK'
    BY <1>3, UntouchedTyped DEF CreateRemoteDir, Finish
  <2> QED
    BY <2>3, <2>4, <2>5 DEF TypeOK
<1>4. CASE PullFile(p)
  <2>1. phase = "run" /\ p \in FilePaths /\ remote[p].data \in Bytes
    BY <1>4 DEF PullFile, Ready, IsFile
  <2>2. Put(local, p, remote[p].data) \in Trees
    BY <1>1, <2>1, PutTyped
  <2>3. TreesOK'
    BY <1>1, <1>4, <2>2, SetLocalTyped DEF PullFile
  <2>4. StoreOK' /\ PassOK' /\ ResolveOK'
    BY <1>4, <2>1, FinishTyped DEF PullFile
  <2>5. CountersOK'
    BY <1>4, UntouchedTyped DEF PullFile, Finish
  <2> QED
    BY <2>3, <2>4, <2>5 DEF TypeOK
<1>5. CASE PushFile(p)
  <2>1. phase = "run" /\ p \in FilePaths /\ local[p].data \in Bytes
        /\ PlanFor(p).op = "push_file"
    BY <1>5 DEF PushFile, Ready, IsFile
  <2>2. Put(remote, p, local[p].data) \in Trees
    BY <1>1, <2>1, PutTyped
  <2>3. TreesOK'
    BY <1>1, <1>5, <2>2, SetRemoteTyped DEF PushFile
  <2>4. remote' \in Trees
    BY <2>3 DEF TreesOK
  <2>5. remote'[p].stamp \in MaybeVersion
    BY <2>4
  <2>6. Finish(p, "done", remote'[p].stamp) \/ Finish(p, "stat", None)
    BY <1>5 DEF PushFile
  <2>7. StoreOK' /\ PassOK' /\ ResolveOK'
    BY <2>1, <2>5, <2>6, FinishTyped
  <2>8. CountersOK'
    BY <1>5, <2>6, UntouchedTyped DEF PushFile, Finish
  <2> QED
    BY <2>3, <2>7, <2>8 DEF TypeOK
<1>6. CASE StatPushed(p)
  <2>1. phase = "run" /\ PlanFor(p).op = "push_file"
    BY <1>6 DEF StatPushed, TypeOK, PassOK
  <2>2. (IF HasTokens THEN remote[p].stamp ELSE None) \in MaybeVersion
    BY <1>1
  <2>3. StoreOK' /\ PassOK' /\ ResolveOK'
    BY <1>6, <2>1, <2>2, FinishTyped DEF StatPushed
  <2>4. TreesOK' /\ CountersOK'
    BY <1>6, UntouchedTyped DEF StatPushed, Finish
  <2> QED
    BY <2>3, <2>4 DEF TypeOK
<1>7. CASE DeleteLocal(p)
  <2>1. phase = "run" /\ PlanFor(p).op = "delete_local"
    BY <1>7 DEF DeleteLocal, Ready
  <2>2. TreesOK'
    BY <1>1, <1>7, DropTyped, SetLocalTyped DEF DeleteLocal
  <2>3. StoreOK' /\ PassOK' /\ ResolveOK'
    BY <1>7, <2>1, FinishTyped DEF DeleteLocal
  <2>4. CountersOK'
    BY <1>7, UntouchedTyped DEF DeleteLocal, Finish
  <2> QED
    BY <2>2, <2>3, <2>4 DEF TypeOK
<1>8. CASE DeleteRemote(p)
  <2>1. phase = "run" /\ PlanFor(p).op = "delete_remote"
    BY <1>8 DEF DeleteRemote, Ready
  <2>2. TreesOK'
    BY <1>1, <1>8, DropTyped, SetRemoteTyped DEF DeleteRemote
  <2>3. StoreOK' /\ PassOK' /\ ResolveOK'
    BY <1>8, <2>1, FinishTyped DEF DeleteRemote
  <2>4. CountersOK'
    BY <1>8, UntouchedTyped DEF DeleteRemote, Finish
  <2> QED
    BY <2>2, <2>3, <2>4 DEF TypeOK
<1>9. CASE SourceMissing(p)
  <2>1. phase = "run"
    BY <1>9 DEF SourceMissing, Ready
  <2>2. \/ PlanFor(p).op = "pull_file" /\ SetLocal(MakeParents(local, p))
        \/ PlanFor(p).op = "pull_file" /\ SetLocal(Put(local, p, Partial))
        \/ UNCHANGED trees
    BY <1>9 DEF SourceMissing, Ready
  <2>3. TreesOK'
    BY <1>1, <2>2, MakeParentsTyped, PutTyped, SetLocalTyped, UntouchedTyped
  <2>4. StoreOK' /\ PassOK' /\ ResolveOK'
    BY <1>9, <2>1, FinishTyped DEF SourceMissing
  <2>5. CountersOK'
    BY <1>9, UntouchedTyped DEF SourceMissing, Finish
  <2> QED
    BY <2>3, <2>4, <2>5 DEF TypeOK
<1> QED
  BY <1>2, <1>3, <1>4, <1>5, <1>6, <1>7, <1>8, <1>9 DEF Transfer

LEMMA TransferFailsTyped ==
  ASSUME TypeOK, NEW p \in Paths, TransferFails(p)
  PROVE  TypeOK'
<1>1. TreesOK /\ local \in Trees /\ remote \in Trees
  BY DEF TypeOK, TreesOK
<1>2. phase = "run" /\ Finish(p, "failed", None) /\ Fault
  BY DEF TransferFails, Ready
<1>3. ASSUME UNCHANGED trees PROVE TreesOK'
  BY <1>3, UntouchedTyped
<1>4. ASSUME Ready(p, "pull_file"), SetLocal(Put(local, p, Partial))
      PROVE  TreesOK'
  <2>1. Put(local, p, Partial) \in Trees
    BY <1>1, <1>4, PutTyped, PlanFacts, ValueFacts DEF Ready
  <2> QED
    BY <1>1, <1>4, <2>1, SetLocalTyped
<1>5. ASSUME Ready(p, "push_file"), IsFile(local[p]), UNCHANGED local,
             \E data \in {local[p].data} \cup (IF HasTokens THEN {} ELSE {Partial}) :
               SetRemote(Put(remote, p, data))
      PROVE  TreesOK'
  <2>1. PICK data \in Bytes : SetRemote(Put(remote, p, data))
    BY <1>5, ValueFacts DEF IsFile
  <2>2. Put(remote, p, data) \in Trees
    BY <1>1, <1>5, <2>1, PutTyped, PlanFacts DEF Ready
  <2> QED
    BY <1>1, <1>5, <2>1, <2>2, SetRemoteTyped
<1>6. ASSUME \E gone \in SUBSET Tree(p) : SetRemote(Drop(remote, gone)),
             UNCHANGED local
      PROVE  TreesOK'
  BY <1>1, <1>6, DropTyped, SetRemoteTyped
<1>7. TreesOK'
  BY <1>3, <1>4, <1>5, <1>6 DEF TransferFails
<1>8. StoreOK' /\ PassOK' /\ ResolveOK'
  BY <1>2, FinishTyped, ValueFacts
<1>9. CountersOK'
  BY <1>2, FaultTyped DEF Finish
<1> QED
  BY <1>7, <1>8, <1>9 DEF TypeOK

(* ... what follows them, ... *)
LEMMA RefreshedTyped ==
  ASSUME TypeOK, NEW p \in Paths, phase = "run", work[p] = "done"
  PROVE  RefreshedLine(p) \in CacheLine /\ RefreshedManifestLine(p) \in CacheLine
<1>1. /\ newCache[p] \in CacheLine /\ newManifest[p] \in CacheLine
      /\ local[p].stamp \in Nat /\ remote[p].stamp \in Nat
      /\ got[p] \in MaybeVersion
      /\ PlanFor(p).op = "pull_file" => got[p] \in Bytes
  BY NodeFacts DEF TypeOK, PassOK, TreesOK
<1>2. ASSUME NEW v \in Version, NEW stamp \in Nat
      PROVE  Line(File(v), stamp) \in CacheLine
  BY <1>2, FileTyped, LineTyped
<1>3. RefreshedLine(p) \in CacheLine
  <2>1. PlanFor(p).op = "pull_file" => Line(File(got[p]), local[p].stamp) \in CacheLine
    BY <1>1, <1>2, ValueFacts
  <2> QED
    BY <1>1, <2>1, FixedLines DEF RefreshedLine
<1>4. PlanFor(p).op = "push_file" => PushedLine(p) \in CacheLine
  <2> SUFFICES ASSUME PlanFor(p).op = "push_file"
               PROVE  PushedLine(p) \in CacheLine
    OBVIOUS
  <2>1. (IF got[p] = None THEN seen[p].local.version ELSE got[p]) \in Version
    BY <1>1, PlanFacts DEF MaybeVersion, Maybe
  <2>2. 0 \in Nat /\ remote[p].stamp \in Version
    BY <1>1, ValueFacts
  <2> QED
    BY <1>1, <1>2, <2>1, <2>2 DEF PushedLine
<1>5. RefreshedManifestLine(p) \in CacheLine
  BY <1>1, <1>4, FixedLines DEF RefreshedManifestLine
<1> QED
  BY <1>3, <1>5

LEMMA RefreshCachesTyped ==
  ASSUME TypeOK, RefreshCaches
  PROVE  TypeOK'
<1>1. TreesOK' /\ StoreOK' /\ ResolveOK' /\ CountersOK'
  BY UntouchedTyped DEF RefreshCaches
<1>2. /\ newCache' = [p \in Paths |-> RefreshedLine(p)]
      /\ newManifest' = [p \in Paths |-> RefreshedManifestLine(p)]
      /\ phase' = "save" /\ UNCHANGED <<seen, work, got>>
      /\ \A p \in Paths : phase = "run" /\ work[p] = "done"
  BY DEF RefreshCaches, Finished
<1>3. newCache' \in [Paths -> CacheLine] /\ newManifest' \in [Paths -> CacheLine]
  BY <1>2, RefreshedTyped
<1>4. PassOK'
  BY <1>2, <1>3 DEF TypeOK, PassOK
<1> QED
  BY <1>1, <1>4 DEF TypeOK

LEMMA RowTyped ==
  ASSUME TypeOK, NEW p \in Paths
  PROVE  RowAfter(p) \in Record /\ PlanFor(p).announce \in {"none", "ready", "conflict"}
<1>1. /\ PlanFor(p) \in Plans(Version)
      /\ seen[p].local \in Observations(Version) /\ seen[p].remote \in Observations(Version)
      /\ got[p] \in Maybe(Version)
  BY PlanFacts DEF TypeOK, PassOK, Input, Observation, MaybeVersion
<1>2. RowAfter(p) \in Record
  BY <1>1, MaterializeTyped DEF Record, RowAfter
<1> QED
  BY <1>1, <1>2 DEF Plans, Announcements

LEMMA PersistTyped ==
  ASSUME TypeOK, NEW p \in Paths, Persist(p)
  PROVE  TypeOK'
<1> DEFINE row == RowAfter(p)
           announce == PlanFor(p).announce
<1>1. TreesOK' /\ ResolveOK' /\ CountersOK'
  BY UntouchedTyped DEF Persist
<1>2. /\ records' = [records EXCEPT ![p] = row]
      /\ watch' = [watch EXCEPT ![p] = IF announce = "none" THEN watch[p] ELSE announce]
      /\ work' = [work EXCEPT ![p] = "saved"]
      /\ phase = "save"
      /\ UNCHANGED <<localCache, manifest, phase, seen, newCache, newManifest, got>>
  BY DEF Persist
<1>3. row \in Record /\ announce \in {"none", "ready", "conflict"}
  BY RowTyped
<1> HIDE DEF row, announce
<1>4. StoreOK'
  BY <1>2, <1>3 DEF TypeOK, StoreOK
<1>5. PassOK'
  BY <1>2 DEF TypeOK, PassOK
<1> QED
  BY <1>1, <1>4, <1>5 DEF TypeOK

LEMMA EndOfPassTyped ==
  ASSUME TypeOK, FailPass \/ SaveLocalCache \/ SaveManifest \/ AbortPass
  PROVE  TypeOK'
<1>1. CASE FailPass
  <2>1. TreesOK' /\ ResolveOK'
    BY <1>1, UntouchedTyped DEF FailPass
  <2>2. PassOK'
    BY <1>1, EndPassTyped DEF FailPass
  <2>3. StoreOK'
    BY <1>1 DEF FailPass, TypeOK, StoreOK, store
  <2>4. CountersOK'
    BY <1>1 DEF FailPass, TypeOK, CountersOK
  <2> QED
    BY <2>1, <2>2, <2>3, <2>4 DEF TypeOK
<1>2. CASE SaveLocalCache
  <2>1. TreesOK' /\ ResolveOK' /\ CountersOK'
    BY <1>2, UntouchedTyped DEF SaveLocalCache
  <2>2. StoreOK' /\ PassOK'
    BY <1>2 DEF SaveLocalCache, TypeOK, StoreOK, PassOK
  <2> QED
    BY <2>1, <2>2 DEF TypeOK
<1>3. CASE SaveManifest
  <2>1. TreesOK' /\ ResolveOK' /\ CountersOK'
    BY <1>3, UntouchedTyped DEF SaveManifest
  <2>2. PassOK'
    BY <1>3, EndPassTyped DEF SaveManifest
  <2>3. StoreOK'
    BY <1>3 DEF SaveManifest, TypeOK, StoreOK, PassOK
  <2> QED
    BY <2>1, <2>2, <2>3 DEF TypeOK
<1>4. CASE AbortPass
  <2>1. TreesOK' /\ StoreOK' /\ ResolveOK'
    BY <1>4, UntouchedTyped DEF AbortPass
  <2>2. PassOK' /\ CountersOK'
    BY <1>4, EndPassTyped, FaultTyped DEF AbortPass
  <2> QED
    BY <2>1, <2>2 DEF TypeOK
<1> QED
  BY <1>1, <1>2, <1>3, <1>4

(* ... the resolve command ... *)
LEMMA NoResolveTyped ==
  ASSUME rsv' = NoResolve
  PROVE  ResolveOK'
<1>1. NoRecord \in Record /\ Nothing \in Observation
  BY ConstantsTyped
<1>2. rsv'.step = "idle"
  BY DEF NoResolve
<1> QED
  BY <1>1, <1>2 DEF ResolveOK, NoResolve

LEMMA AppliedTyped ==
  ASSUME TypeOK, rsv.step = "apply", NEW row \in Record, Applied(row)
  PROVE  StoreOK' /\ PassOK' /\ ResolveOK' /\ CountersOK'
<1>1. StoreOK' /\ PassOK'
  BY UntouchedTyped DEF Applied
<1>2. ResolveOK'
  BY DEF TypeOK, ResolveOK, Applied
<1>3. CountersOK'
  BY DEF TypeOK, CountersOK, Applied
<1> QED
  BY <1>1, <1>2, <1>3

LEMMA ResolveStepTyped ==
  ASSUME TypeOK, ResolveStep
  PROVE  TypeOK'
<1> DEFINE p == rsv.path
<1>1. /\ TreesOK /\ local \in Trees /\ remote \in Trees
      /\ rsv.local \in Observation /\ rsv.remote \in Observation
  BY DEF TypeOK, TreesOK, ResolveOK
<1>2. ASSUME rsv.step # "idle"
      PROVE  /\ p \in Paths
             /\ rsv.local.kind = "file" \/ rsv.remote.kind = "file" => p \in FilePaths
  <2>1. p \in Paths /\ KindFits(p, rsv.local) /\ KindFits(p, rsv.remote)
    BY <1>2 DEF TypeOK, ResolveOK
  <2>2. \A o \in Observation : o.kind = "file" => Seen(o)
    BY ObservationFacts DEF Observation, Kinds
  <2> QED
    BY <1>1, <2>1, <2>2, ValueFacts DEF KindFits
<1>3. \A o \in Observation : o.version \in MaybeVersion
  BY ObservationFacts DEF Observation, MaybeVersion
<1>4. "file" \in Kinds
  BY DEF Kinds
<1> HIDE DEF p
<1>5. CASE ApplyUseLocal
  <2>0. rsv.step = "apply" /\ UNCHANGED local /\ p \in Paths
    BY <1>2, <1>5 DEF ApplyUseLocal, Applying
  <2>1. ASSUME rsv.local.kind = "file", IsFile(local[p]),
               SetRemote(Put(remote, p, local[p].data)),
               Applied(ReadyRecord("file", rsv.local.version,
                 IF HasTokens THEN remote'[p].stamp ELSE rsv.local.version))
        PROVE  TypeOK'
    <3>1. Put(remote, p, local[p].data) \in Trees
      BY <1>1, <1>2, <2>0, <2>1, PutTyped DEF IsFile
    <3>2. TreesOK'
      BY <1>1, <2>0, <2>1, <3>1, SetRemoteTyped
    <3>3. remote'[p].stamp \in MaybeVersion
      BY <2>0, <3>1, <2>1, NodeFacts, ValueFacts DEF SetRemote
    <3>4. ReadyRecord("file", rsv.local.version,
            IF HasTokens THEN remote'[p].stamp ELSE rsv.local.version) \in Record
      BY <1>1, <1>3, <1>4, <3>3, ConstantsTyped
    <3> QED
      BY <2>0, <2>1, <3>2, <3>4, AppliedTyped DEF TypeOK
  <2>2. ASSUME SetRemote(IF Seen(rsv.remote) THEN Drop(remote, Tree(p)) ELSE remote),
               Applied(ReadyAbsentRecord)
        PROVE  TypeOK'
    <3>1. (IF Seen(rsv.remote) THEN Drop(remote, Tree(p)) ELSE remote) \in Trees
      BY <1>1, DropTyped
    <3>2. TreesOK'
      BY <1>1, <2>0, <2>2, <3>1, SetRemoteTyped
    <3> QED
      BY <2>0, <2>2, <3>2, AppliedTyped, ConstantsTyped DEF TypeOK
  <2> QED
    BY <1>5, <2>1, <2>2 DEF ApplyUseLocal, p
<1>6. CASE ApplyUseRemote
  <2>0. rsv.step = "apply" /\ p \in Paths
    BY <1>2, <1>6 DEF ApplyUseRemote, Applying
  <2>1. ASSUME rsv.remote.kind = "file", IsFile(remote[p]),
               SetLocal(Put(local, p, remote[p].data)),
               Applied(ReadyRecord("file", remote[p].data, rsv.remote.version))
        PROVE  TypeOK'
    <3>1. Put(local, p, remote[p].data) \in Trees
      BY <1>1, <1>2, <2>0, <2>1, PutTyped DEF IsFile
    <3>2. TreesOK'
      BY <1>1, <2>1, <3>1, SetLocalTyped
    <3>3. ReadyRecord("file", remote[p].data, rsv.remote.version) \in Record
      BY <1>1, <1>3, <1>4, <2>1, ConstantsTyped, ValueFacts DEF IsFile
    <3> QED
      BY <2>0, <2>1, <3>2, <3>3, AppliedTyped DEF TypeOK
  <2>2. ASSUME SetLocal(Drop(local, Tree(p))), Applied(ReadyAbsentRecord)
        PROVE  TypeOK'
    <3>1. TreesOK'
      BY <1>1, <2>2, DropTyped, SetLocalTyped
    <3> QED
      BY <2>0, <2>2, <3>1, AppliedTyped, ConstantsTyped DEF TypeOK
  <2> QED
    BY <1>6, <2>1, <2>2 DEF ApplyUseRemote, p
<1>7. CASE ResolveSave
  <2>1. TreesOK' /\ PassOK' /\ CountersOK'
    BY <1>7, UntouchedTyped DEF ResolveSave
  <2>2. rsv.row \in Record
    BY DEF TypeOK, ResolveOK
  <2>3. StoreOK'
    BY <1>7, <2>2 DEF ResolveSave, TypeOK, StoreOK
  <2>4. ResolveOK'
    BY <1>7, NoResolveTyped DEF ResolveSave
  <2> QED
    BY <2>1, <2>3, <2>4 DEF TypeOK
<1>8. CASE ResolveMissing
  <2>1. TreesOK' /\ StoreOK' /\ PassOK' /\ CountersOK'
    BY <1>8, UntouchedTyped DEF ResolveMissing
  <2> QED
    BY <1>8, <2>1, NoResolveTyped DEF ResolveMissing, TypeOK
<1> QED
  BY <1>5, <1>6, <1>7, <1>8 DEF ResolveStep

LEMMA ResolveBeginTyped ==
  ASSUME TypeOK, NEW p \in Paths, NEW how \in {"use_local", "use_remote"},
         ResolveBegin(p, how)
  PROVE  TypeOK'
<1>1. TreesOK' /\ StoreOK' /\ PassOK' /\ CountersOK'
  BY UntouchedTyped DEF ResolveBegin
<1>2. /\ rsv' = [step |-> "apply", path |-> p, how |-> how, row |-> NoRecord,
                 local |-> InspectLocal(p), remote |-> InspectRemote(p)]
      /\ InspectLocal(p) \in Observation /\ KindFits(p, InspectLocal(p))
      /\ InspectRemote(p) \in Observation /\ KindFits(p, InspectRemote(p))
      /\ NoRecord \in Record
  BY ScansTyped, ConstantsTyped DEF ResolveBegin
<1>3. ResolveOK'
  BY <1>2 DEF ResolveOK
<1> QED
  BY <1>1, <1>3 DEF TypeOK

LEMMA ResolveFailsTyped ==
  ASSUME TypeOK, ResolveFails
  PROVE  TypeOK'
<1> DEFINE p == rsv.path
<1>1. TreesOK /\ local \in Trees /\ remote \in Trees
  BY DEF TypeOK, TreesOK
<1>2. rsv.local.kind = "file" \/ rsv.remote.kind = "file" => p \in FilePaths
  <2>1. rsv.step # "idle" /\ rsv.local \in Observation /\ rsv.remote \in Observation
    BY DEF ResolveFails, TypeOK, ResolveOK
  <2>2. p \in Paths /\ KindFits(p, rsv.local) /\ KindFits(p, rsv.remote)
    BY <2>1 DEF TypeOK, ResolveOK
  <2>3. \A o \in Observation : o.kind = "file" => Seen(o)
    BY ObservationFacts DEF Observation, Kinds
  <2> QED
    BY <2>1, <2>2, <2>3, ValueFacts DEF KindFits
<1> HIDE DEF p
<1>3. ASSUME p \in FilePaths, NEW tree \in Trees
      PROVE  Put(tree, p, Partial) \in Trees
  BY <1>3, PutTyped, ValueFacts
<1>4. \/ UNCHANGED trees
      \/ p \in FilePaths /\ SetLocal(Put(local, p, Partial))
      \/ p \in FilePaths /\ SetRemote(Put(remote, p, Partial)) /\ UNCHANGED local
  BY <1>2 DEF ResolveFails, p
<1>5. TreesOK'
  BY <1>1, <1>3, <1>4, UntouchedTyped, SetLocalTyped, SetRemoteTyped
<1>6. StoreOK' /\ PassOK' /\ ResolveOK' /\ CountersOK'
  BY UntouchedTyped, NoResolveTyped, FaultTyped DEF ResolveFails
<1> QED
  BY <1>5, <1>6 DEF TypeOK

LEMMA CrashBeforeEventTyped ==
  ASSUME TypeOK, CrashBeforeEvent
  PROVE  TypeOK'
<1>1. TreesOK' /\ CountersOK'
  BY UntouchedTyped, FaultTyped DEF CrashBeforeEvent
<1>2. ASSUME NEW p \in Paths, NEW row \in Record, records' = [records EXCEPT ![p] = row]
      PROVE  StoreOK'
  BY <1>2 DEF CrashBeforeEvent, TypeOK, StoreOK
<1>3. ASSUME NEW p \in Paths, records' = [records EXCEPT ![p] = RowAfter(p)],
             EndPass, UNCHANGED rsv
      PROVE  StoreOK' /\ PassOK' /\ ResolveOK'
  BY <1>2, <1>3, RowTyped, EndPassTyped, UntouchedTyped
<1>4. ASSUME rsv.step = "save", records' = [records EXCEPT ![rsv.path] = rsv.row],
             rsv' = NoResolve, UNCHANGED pass
      PROVE  StoreOK' /\ PassOK' /\ ResolveOK'
  <2>1. rsv.path \in Paths /\ rsv.row \in Record
    BY <1>4 DEF TypeOK, ResolveOK
  <2> QED
    BY <1>2, <1>4, <2>1, NoResolveTyped, UntouchedTyped
<1> QED
  BY <1>1, <1>3, <1>4 DEF CrashBeforeEvent, TypeOK

(* ... and the edits. *)
LEMMA EditTyped ==
  ASSUME TypeOK, Edit
  PROVE  StoreOK' /\ PassOK' /\ ResolveOK' /\ CountersOK'
<1>1. StoreOK' /\ PassOK' /\ ResolveOK'
  BY UntouchedTyped DEF Edit
<1>2. edits \in 0..MaxEdits /\ faults \in 0..MaxFaults
  BY DEF TypeOK, CountersOK
<1>3. edits' \in 0..MaxEdits
  BY <1>2, SettingsAssumption DEF Edit
<1>4. faults' \in 0..MaxFaults
  BY <1>2 DEF Edit
<1> QED
  BY <1>1, <1>3, <1>4 DEF CountersOK

LEMMA EditsTyped ==
  ASSUME TypeOK, NEW p \in Paths, EditLocal(p) \/ EditRemote(p)
  PROVE  TypeOK'
<1>1. TreesOK /\ local \in Trees /\ remote \in Trees
  BY DEF TypeOK, TreesOK
<1>2. ASSUME NEW tree \in Trees
      PROVE  /\ p \in FilePaths => \A c \in Content : Put(tree, p, c) \in Trees
             /\ p \in DirPaths => MakeDir(tree, p) \in Trees
             /\ Drop(tree, Tree(p)) \in Trees
  BY <1>2, PutTyped, MakeDirTyped, DropTyped, ValueFacts
<1>3. CASE EditLocal(p)
  <2>1. TreesOK'
    BY <1>1, <1>2, <1>3, SetLocalTyped DEF EditLocal
  <2> QED
    BY <1>3, <2>1, EditTyped DEF EditLocal, TypeOK
<1>4. CASE EditRemote(p)
  <2>1. TreesOK'
    BY <1>1, <1>2, <1>4, SetRemoteTyped DEF EditRemote
  <2> QED
    BY <1>4, <2>1, EditTyped DEF EditRemote, TypeOK
<1> QED
  BY <1>3, <1>4

LEMMA TypeStep == TypeOK /\ [Next]_vars => TypeOK'
<1> SUFFICES ASSUME TypeOK, [Next]_vars PROVE TypeOK'
  OBVIOUS
<1>1. CASE UNCHANGED vars
  BY <1>1, UntouchedTyped DEF vars, TypeOK
<1>2. CASE PassStep
  BY <1>2, PlanPassTyped, TransferTyped, PersistTyped, EndOfPassTyped,
     RefreshCachesTyped DEF PassStep
<1>3. CASE Next /\ ~PassStep
  BY <1>3, StartPassTyped, EndOfPassTyped, TransferFailsTyped, ResolveBeginTyped,
     ResolveStepTyped, ResolveFailsTyped, CrashBeforeEventTyped, EditsTyped DEF Next
<1> QED
  BY <1>1, <1>2, <1>3

LEMMA InitTyped == Init => TypeOK
<1> SUFFICES ASSUME Init PROVE TypeOK
  OBVIOUS
<1> USE ConstantsTyped, FixedLines, ValueFacts, SettingsAssumption DEF Init
<1>1. TreesOK
  BY DEF TreesOK
<1>2. StoreOK
  BY DEF StoreOK
<1>3. \A p \in Paths : seen[p] = NoInput /\ KindFits(p, Nothing)
  BY DEF KindFits
<1>4. PassOK
  BY <1>3 DEF PassOK, NoInput
<1>5. ResolveOK
  BY DEF ResolveOK, NoResolve
<1>6. edits \in 0..MaxEdits /\ faults \in 0..MaxFaults
  OBVIOUS
<1>7. CountersOK
  BY <1>6 DEF CountersOK
<1> QED
  BY <1>1, <1>2, <1>4, <1>5, <1>7 DEF TypeOK

-----------------------------------------------------------------------------
(* TypeOK is inductive on its own: no scan, transfer, failure, resolution  *)
(* or edit, in any order, puts bytes where a directory belongs or loses    *)
(* the shape of a row or of a cache line.                                  *)
THEOREM TypeCorrect == Spec => []TypeOK
BY InitTyped, TypeStep, PTL DEF Spec

-----------------------------------------------------------------------------
(***************************************************************************)
(* A backend with tokens: every remote version the store, a pass or a      *)
(* resolution works with is one the remote path has held.  This is what    *)
(* BaseWasHeld needs to be inductive: a row's base comes from the row the  *)
(* pass started with, from its scan, from what a push reported or from the *)
(* inspection of a resolution.                                             *)
(***************************************************************************)
Held(history, p, version) ==
  version # None => \E bytes \in Bytes : <<version, bytes>> \in history[p]

RemoteHeld ==
  \A p \in Paths :
    IsFile(remote[p]) => <<RemoteVersion(remote[p]), remote[p].data>> \in uploaded[p]
RowsHeld == \A p \in Paths : Held(uploaded, p, records[p].base)
ScansHeld ==
  \A p \in Paths : /\ Held(uploaded, p, seen[p].prev.base)
                   /\ Held(uploaded, p, seen[p].remote.version)
PushesHeld ==
  \A p \in Paths :
    phase \in {"run", "save"} /\ work[p] = "done" /\ PlanFor(p).op = "push_file"
      => got[p] # None /\ Held(uploaded, p, got[p])
ResolveHeld ==
  rsv.step # "idle" => /\ Held(uploaded, rsv.path, rsv.remote.version)
                       /\ Held(uploaded, rsv.path, rsv.row.base)

VersionsHeld == RemoteHeld /\ RowsHeld /\ ScansHeld /\ PushesHeld /\ ResolveHeld

(* Whatever the step, the history of the remote only grows and what the    *)
(* remote holds is in it.                                                  *)
LEMMA RemoteMoves ==
  ASSUME TypeOK, [Next]_vars
  PROVE  SetRemote(remote') \/ UNCHANGED <<remote, uploaded>>
<1> USE DEF SetRemote, SetLocal, trees
<1>1. CASE UNCHANGED vars
  BY <1>1 DEF vars
<1>2. CASE PassStep
  <2>1. ASSUME NEW p \in Paths, Transfer(p)
        PROVE  SetRemote(remote') \/ UNCHANGED <<remote, uploaded>>
    BY <2>1 DEF Transfer, CreateLocalDir, CreateRemoteDir, PullFile, PushFile, StatPushed,
       DeleteLocal, DeleteRemote, SourceMissing
  <2> QED
    BY <1>2, <2>1 DEF PassStep, PlanPass, Persist, FailPass, RefreshCaches,
       SaveLocalCache, SaveManifest
<1>3. CASE ResolveStep \/ ResolveFails
  BY <1>3 DEF ResolveStep, ApplyUseLocal, ApplyUseRemote, ResolveSave, ResolveMissing,
     ResolveFails
<1>4. ASSUME NEW p \in Paths, TransferFails(p)
      PROVE  SetRemote(remote') \/ UNCHANGED <<remote, uploaded>>
  BY <1>4 DEF TransferFails
<1>5. ASSUME NEW p \in Paths, EditLocal(p) \/ EditRemote(p)
      PROVE  SetRemote(remote') \/ UNCHANGED <<remote, uploaded>>
  BY <1>5 DEF EditLocal, EditRemote
<1>6. CASE \/ StartPass \/ AbortPass \/ CrashBeforeEvent
           \/ \E p \in Paths, how \in {"use_local", "use_remote"} : ResolveBegin(p, how)
  BY <1>6 DEF StartPass, AbortPass, CrashBeforeEvent, ResolveBegin
<1> QED
  BY <1>1, <1>2, <1>3, <1>4, <1>5, <1>6 DEF Next

LEMMA HistoryGrows ==
  ASSUME TypeOK, RemoteHeld, [Next]_vars
  PROVE  /\ RemoteHeld'
         /\ \A p \in Paths : uploaded[p] \subseteq uploaded'[p]
         /\ \A p \in Paths : \A v : Held(uploaded, p, v) => Held(uploaded', p, v)
<1>1. SetRemote(remote') \/ UNCHANGED <<remote, uploaded>>
  BY RemoteMoves
<1>2. CASE UNCHANGED <<remote, uploaded>>
  BY <1>2 DEF RemoteHeld
<1>3. CASE SetRemote(remote')
  <2>1. ASSUME NEW p \in Paths
        PROVE  /\ uploaded[p] \subseteq uploaded'[p]
               /\ IsFile(remote'[p])
                    => <<RemoteVersion(remote'[p]), remote'[p].data>> \in uploaded'[p]
    BY <1>3 DEF SetRemote
  <2>2. RemoteHeld'
    BY <2>1 DEF RemoteHeld, RemoteVersion
  <2>3. \A p \in Paths : \A v : Held(uploaded, p, v) => Held(uploaded', p, v)
    BY <2>1 DEF Held
  <2> QED
    BY <2>1, <2>2, <2>3
<1> QED
  BY <1>1, <1>2, <1>3

(* The token of a present file is held, and so is what a scan and an       *)
(* inspection make of it.                                                  *)
LEMMA StampHeld ==
  ASSUME HasTokens, NEW tree \in Trees, NEW history, NEW p \in Paths, IsFile(tree[p]),
         <<RemoteVersion(tree[p]), tree[p].data>> \in history[p]
  PROVE  tree[p].stamp # None /\ Held(history, p, tree[p].stamp)
<1>1. <<tree[p].stamp, tree[p].data>> \in history[p] /\ tree[p].data \in Bytes
  BY DEF RemoteVersion, IsFile
<1>2. tree[p].stamp # None
  BY NodeFacts, ValuesAssumption
<1> QED
  BY <1>1, <1>2 DEF Held

LEMMA SightHeld ==
  ASSUME HasTokens, TypeOK, RemoteHeld, NEW p \in Paths
  PROVE  /\ Held(uploaded, p, ScanRemote(p).version)
         /\ Held(uploaded, p, InspectRemote(p).version)
<1>1. remote \in Trees
  BY DEF TypeOK, TreesOK
<1>2. ASSUME NEW o, o = Observe(remote[p], remote[p].stamp)
      PROVE  Held(uploaded, p, o.version)
  <2>1. CASE IsFile(remote[p])
    <3>1. o = File(remote[p].stamp)
      BY <1>1, <1>2, <2>1, NodeFacts DEF Observe
    <3>2. o.version = remote[p].stamp
      BY <3>1 DEF File
    <3> QED
      BY <1>1, <2>1, <3>2, StampHeld DEF RemoteHeld
  <2>2. CASE ~IsFile(remote[p])
    <3>1. o.version = None
      BY <1>1, <1>2, <2>2, NodeFacts DEF Observe, Nothing, Dir
    <3> QED
      BY <3>1 DEF Held
  <2> QED
    BY <2>1, <2>2
<1>3. /\ ScanRemote(p) = Observe(remote[p], remote[p].stamp)
      /\ InspectRemote(p) = Observe(remote[p], remote[p].stamp)
  BY DEF ScanRemote, InspectRemote, RemoteVersion
<1> QED
  BY <1>2, <1>3

(* Each clause is kept by the actions that write what it is about. *)
LEMMA RowsStayHeld ==
  ASSUME HasTokens, TypeOK, VersionsHeld, [Next]_vars
  PROVE  RowsHeld'
<1>1. \A p \in Paths : \A v : Held(uploaded, p, v) => Held(uploaded', p, v)
  BY HistoryGrows DEF VersionsHeld
<1>2. records \in [Paths -> Record]
  BY DEF TypeOK, StoreOK
<1>3. CASE UNCHANGED records
  BY <1>1, <1>3 DEF VersionsHeld, RowsHeld
<1>4. ASSUME NEW p \in Paths, NEW row, records' = [records EXCEPT ![p] = row],
             Held(uploaded', p, row.base)
      PROVE  RowsHeld'
  BY <1>1, <1>2, <1>4 DEF VersionsHeld, RowsHeld
<1>5. ASSUME NEW p \in Paths, phase = "save", work[p] = "done",
             records' = [records EXCEPT ![p] = RowAfter(p)]
      PROVE  RowsHeld'
  <2> DEFINE row == RowAfter(p)
  <2>1. records' = [records EXCEPT ![p] = row]
    BY <1>5
  <2>2. seen[p].prev \in Records(Version)
    BY DEF TypeOK, PassOK, Input, Record
  <2>3. \/ row.base \in {None, seen[p].prev.base, seen[p].remote.version}
        \/ /\ PlanFor(p).op = "push_file"
           /\ row.base = IF got[p] = None THEN seen[p].local.version ELSE got[p]
    BY <2>2, BaseOfRow DEF PlanFor, RowAfter
  <2> HIDE DEF row
  <2>4. Held(uploaded, p, row.base)
    <3>1. Held(uploaded, p, seen[p].prev.base) /\ Held(uploaded, p, seen[p].remote.version)
      BY DEF VersionsHeld, ScansHeld
    <3>2. PlanFor(p).op = "push_file" => got[p] # None /\ Held(uploaded, p, got[p])
      BY <1>5 DEF VersionsHeld, PushesHeld
    <3>3. Held(uploaded, p, None)
      BY DEF Held
    <3> QED
      BY <2>3, <3>1, <3>2, <3>3
  <2> QED
    BY <1>1, <1>4, <2>1, <2>4
<1>6. CASE rsv.step = "save" /\ records' = [records EXCEPT ![rsv.path] = rsv.row]
  <2>1. rsv.path \in Paths /\ Held(uploaded, rsv.path, rsv.row.base)
    BY <1>6 DEF TypeOK, ResolveOK, VersionsHeld, ResolveHeld
  <2> QED
    BY <1>1, <1>4, <1>6, <2>1
<1>7. \/ UNCHANGED records \/ ResolveSave \/ CrashBeforeEvent
      \/ \E p \in Paths : Persist(p)
  <2> USE DEF store, Finish, Edit
  <2>1. CASE UNCHANGED vars
    BY <2>1 DEF vars
  <2>2. ASSUME NEW p \in Paths, Transfer(p) \/ TransferFails(p)
        PROVE  UNCHANGED records
    BY <2>2 DEF Transfer, CreateLocalDir, CreateRemoteDir, PullFile, PushFile, StatPushed,
       DeleteLocal, DeleteRemote, SourceMissing, TransferFails
  <2>3. ASSUME NEW p \in Paths, EditLocal(p) \/ EditRemote(p)
        PROVE  UNCHANGED records
    BY <2>3 DEF EditLocal, EditRemote
  <2>4. CASE ApplyUseLocal \/ ApplyUseRemote \/ ResolveMissing \/ ResolveFails
    BY <2>4 DEF ApplyUseLocal, ApplyUseRemote, ResolveMissing, ResolveFails, Applied
  <2>5. CASE \/ StartPass \/ AbortPass \/ PlanPass \/ FailPass \/ RefreshCaches
             \/ SaveLocalCache \/ SaveManifest
             \/ \E p \in Paths, how \in {"use_local", "use_remote"} : ResolveBegin(p, how)
    BY <2>5 DEF StartPass, AbortPass, PlanPass, FailPass, RefreshCaches, SaveLocalCache,
       SaveManifest, ResolveBegin
  <2> QED
    BY <2>1, <2>2, <2>3, <2>4, <2>5 DEF Next, PassStep, ResolveStep
<1> QED
  BY <1>3, <1>5, <1>6, <1>7 DEF Persist, ResolveSave, CrashBeforeEvent

LEMMA ScansStayHeld ==
  ASSUME HasTokens, TypeOK, VersionsHeld, [Next]_vars
  PROVE  ScansHeld'
<1>1. \A p \in Paths : \A v : Held(uploaded, p, v) => Held(uploaded', p, v)
  BY HistoryGrows DEF VersionsHeld
<1>2. \A p \in Paths : Held(uploaded', p, None)
  BY DEF Held
<1>3. CASE UNCHANGED seen
  BY <1>1, <1>3 DEF VersionsHeld, ScansHeld
<1>4. CASE StartPass
  <2>1. ASSUME NEW p \in Paths
        PROVE  seen'[p].prev = records[p] /\ seen'[p].remote.version = None
    BY <1>4 DEF StartPass, Nothing
  <2> QED
    BY <1>1, <1>2, <2>1 DEF VersionsHeld, RowsHeld, ScansHeld
<1>5. CASE PlanPass
  <2>1. ASSUME NEW p \in Paths
        PROVE  seen'[p].prev = seen[p].prev /\ seen'[p].remote = ScanRemote(p)
    BY <1>5 DEF PlanPass
  <2>2. \A p \in Paths : Held(uploaded, p, ScanRemote(p).version)
    BY SightHeld DEF VersionsHeld
  <2> QED
    BY <1>1, <2>1, <2>2 DEF VersionsHeld, ScansHeld
<1>6. CASE EndPass
  <2>1. \A p \in Paths : seen'[p].prev.base = None /\ seen'[p].remote.version = None
    BY <1>6 DEF EndPass, NoInput, NoRecord, Nothing
  <2> QED
    BY <1>2, <2>1 DEF ScansHeld
<1>7. UNCHANGED seen \/ StartPass \/ PlanPass \/ EndPass
  <2> USE DEF pass, Finish, Edit
  <2>1. CASE UNCHANGED vars
    BY <2>1 DEF vars
  <2>2. ASSUME NEW p \in Paths, Transfer(p) \/ TransferFails(p) \/ Persist(p)
        PROVE  UNCHANGED seen
    BY <2>2 DEF Transfer, CreateLocalDir, CreateRemoteDir, PullFile, PushFile, StatPushed,
       DeleteLocal, DeleteRemote, SourceMissing, TransferFails, Persist
  <2>3. ASSUME NEW p \in Paths, EditLocal(p) \/ EditRemote(p)
        PROVE  UNCHANGED seen
    BY <2>3 DEF EditLocal, EditRemote
  <2>4. CASE ApplyUseLocal \/ ApplyUseRemote \/ ResolveMissing \/ ResolveFails \/ ResolveSave
    BY <2>4 DEF ApplyUseLocal, ApplyUseRemote, ResolveMissing, ResolveFails, ResolveSave,
       Applied
  <2>5. CASE \/ AbortPass \/ FailPass \/ SaveManifest \/ CrashBeforeEvent
    BY <2>5 DEF AbortPass, FailPass, SaveManifest, CrashBeforeEvent
  <2>6. CASE \/ RefreshCaches \/ SaveLocalCache
             \/ \E p \in Paths, how \in {"use_local", "use_remote"} : ResolveBegin(p, how)
    BY <2>6 DEF RefreshCaches, SaveLocalCache, ResolveBegin
  <2> QED
    BY <2>1, <2>2, <2>3, <2>4, <2>5, <2>6 DEF Next, PassStep, ResolveStep
<1> QED
  BY <1>3, <1>4, <1>5, <1>6, <1>7

LEMMA PushesStayHeld ==
  ASSUME HasTokens, TypeOK, VersionsHeld, [Next]_vars
  PROVE  PushesHeld'
<1>1. \A p \in Paths : \A v : Held(uploaded, p, v) => Held(uploaded', p, v)
  BY HistoryGrows DEF VersionsHeld
<1>2. ASSUME NEW p \in Paths, IsFile(remote'[p])
      PROVE  remote'[p].stamp # None /\ Held(uploaded', p, remote'[p].stamp)
  <2>1. RemoteHeld' /\ TypeOK'
    BY HistoryGrows, TypeStep DEF VersionsHeld
  <2>2. remote' \in Trees
    BY <2>1 DEF TypeOK, TreesOK
  <2>3. <<RemoteVersion(remote'[p]), remote'[p].data>> \in uploaded'[p]
    BY <1>2, <2>1 DEF RemoteHeld, RemoteVersion
  <2> QED
    BY <1>2, <2>2, <2>3, StampHeld
<1>3. work \in [Paths -> {"todo", "stat", "done", "failed", "saved"}]
      /\ got \in [Paths -> MaybeVersion]
  BY DEF TypeOK, PassOK
<1>4. CASE UNCHANGED <<seen, work, got>> /\ phase' \in {phase, "save", "manifest"}
           /\ (phase' = "save" => phase \in {"run", "save"})
  BY <1>1, <1>4 DEF VersionsHeld, PushesHeld, PlanFor
<1>5. CASE phase' \in {"idle", "listing"}
  BY <1>5 DEF PushesHeld
<1>6. CASE PlanPass
  <2>1. ASSUME NEW p \in Paths
        PROVE  work'[p] = "done" => PlanFor(p)'.op = "none"
    BY <1>6 DEF PlanPass
  <2> QED
    BY <2>1 DEF PushesHeld
<1>7. ASSUME NEW p \in Paths, NEW status, NEW version, Finish(p, status, version),
             status = "done" /\ PlanFor(p).op = "push_file"
               => version # None /\ Held(uploaded', p, version)
      PROVE  PushesHeld'
  <2>1. /\ UNCHANGED <<phase, seen>> /\ work' = [work EXCEPT ![p] = status]
        /\ got' = [got EXCEPT ![p] = version]
    BY <1>7 DEF Finish
  <2>2. \A q \in Paths : PlanFor(q)' = PlanFor(q)
    BY <2>1 DEF PlanFor
  <2>3. ASSUME NEW q \in Paths, phase \in {"run", "save"}, work'[q] = "done",
               PlanFor(q).op = "push_file"
        PROVE  got'[q] # None /\ Held(uploaded', q, got'[q])
    <3>1. CASE q = p
      BY <1>3, <1>7, <2>1, <2>3, <3>1
    <3>2. CASE q # p
      BY <1>1, <1>3, <2>1, <2>3, <3>2 DEF VersionsHeld, PushesHeld
    <3> QED
      BY <3>1, <3>2
  <2> QED
    BY <2>1, <2>2, <2>3 DEF PushesHeld
<1>8. ASSUME NEW p \in Paths, Transfer(p) \/ TransferFails(p)
      PROVE  PushesHeld'
  <2>1. CASE PushFile(p)
    <3>1. Finish(p, "done", remote'[p].stamp) \/ Finish(p, "stat", None)
      BY <2>1 DEF PushFile
    <3>2. IsFile(remote'[p])
      <4>1. remote' = Put(remote, p, local[p].data) /\ local[p].data \in Bytes
        BY <2>1 DEF PushFile, SetRemote, IsFile
      <4>2. remote'[p].data = local[p].data
        BY <4>1 DEF Put, MakeParents, Written
      <4> QED
        BY <4>1, <4>2 DEF IsFile
    <3>3. remote'[p].stamp # None /\ Held(uploaded', p, remote'[p].stamp)
      BY <1>2, <3>2
    <3> QED
      BY <1>7, <3>1, <3>3
  <2>2. CASE StatPushed(p)
    <3>1. /\ Finish(p, "done", remote[p].stamp) /\ PlanFor(p).op = "push_file"
          /\ Exists(remote[p]) /\ remote' = remote
      BY <2>2 DEF StatPushed, TypeOK, PassOK, trees
    <3>2. IsFile(remote[p])
      BY <3>1, PlanFacts, NodeFacts, ValueFacts DEF TypeOK, TreesOK, Exists
    <3>3. remote[p].stamp # None /\ Held(uploaded', p, remote[p].stamp)
      BY <1>2, <3>1, <3>2
    <3> QED
      BY <1>7, <3>1, <3>3
  <2>3. CASE \/ CreateLocalDir(p) \/ CreateRemoteDir(p) \/ PullFile(p)
             \/ DeleteLocal(p) \/ DeleteRemote(p)
    <3>1. PlanFor(p).op # "push_file" /\ \E version : Finish(p, "done", version)
      BY <2>3 DEF CreateLocalDir, CreateRemoteDir, PullFile, DeleteLocal, DeleteRemote, Ready
    <3> QED
      BY <1>7, <3>1
  <2>4. CASE SourceMissing(p) \/ TransferFails(p)
    <3>1. Finish(p, "failed", None)
      BY <2>4 DEF SourceMissing, TransferFails
    <3> QED
      BY <1>7, <3>1
  <2> QED
    BY <1>8, <2>1, <2>2, <2>3, <2>4 DEF Transfer
<1>9. ASSUME NEW p \in Paths, Persist(p)
      PROVE  PushesHeld'
  <2>1. UNCHANGED <<phase, seen, got>> /\ work' = [work EXCEPT ![p] = "saved"]
    BY <1>9 DEF Persist
  <2>2. \A q \in Paths : work'[q] = "done" => work[q] = "done"
    BY <1>3, <2>1
  <2> QED
    BY <1>1, <2>1, <2>2 DEF VersionsHeld, PushesHeld, PlanFor
<1>10. CASE UNCHANGED pass \/ RefreshCaches \/ SaveLocalCache
  BY <1>4, <1>10 DEF pass, RefreshCaches, SaveLocalCache, Finished
<1>11. CASE StartPass \/ EndPass
  BY <1>5, <1>11 DEF StartPass, EndPass
<1>12. \/ UNCHANGED pass \/ RefreshCaches \/ SaveLocalCache \/ StartPass \/ EndPass
       \/ PlanPass \/ \E p \in Paths : Transfer(p) \/ TransferFails(p) \/ Persist(p)
  <2>1. CASE UNCHANGED vars
    BY <2>1 DEF vars
  <2>2. CASE AbortPass \/ FailPass \/ SaveManifest \/ CrashBeforeEvent
    BY <2>2 DEF AbortPass, FailPass, SaveManifest, CrashBeforeEvent
  <2>3. CASE ResolveStep \/ ResolveFails
    BY <2>3 DEF ResolveStep, ApplyUseLocal, ApplyUseRemote, ResolveSave, ResolveMissing,
       ResolveFails, Applied
  <2>4. ASSUME NEW p \in Paths, EditLocal(p) \/ EditRemote(p)
        PROVE  UNCHANGED pass
    BY <2>4 DEF EditLocal, EditRemote, Edit
  <2>5. ASSUME NEW p \in Paths, NEW how, ResolveBegin(p, how)
        PROVE  UNCHANGED pass
    BY <2>5 DEF ResolveBegin
  <2> QED
    BY <2>1, <2>2, <2>3, <2>4, <2>5 DEF Next, PassStep
<1> QED
  BY <1>6, <1>8, <1>9, <1>10, <1>11, <1>12

LEMMA ResolveStaysHeld ==
  ASSUME HasTokens, TypeOK, VersionsHeld, [Next]_vars
  PROVE  ResolveHeld'
<1>1. \A p \in Paths : \A v : Held(uploaded, p, v) => Held(uploaded', p, v)
  BY HistoryGrows DEF VersionsHeld
<1>2. rsv.step # "idle" => rsv.path \in Paths
  BY DEF TypeOK, ResolveOK
<1>3. CASE UNCHANGED rsv
  BY <1>1, <1>2, <1>3 DEF VersionsHeld, ResolveHeld
<1>4. CASE rsv' = NoResolve
  BY <1>4 DEF ResolveHeld, NoResolve
<1>5. ASSUME NEW p \in Paths, NEW how, ResolveBegin(p, how)
      PROVE  ResolveHeld'
  <2>1. /\ rsv'.path = p /\ rsv'.remote = InspectRemote(p) /\ rsv'.row = NoRecord
    BY <1>5 DEF ResolveBegin
  <2>2. Held(uploaded, p, InspectRemote(p).version)
    BY SightHeld DEF VersionsHeld
  <2>3. Held(uploaded', p, NoRecord.base)
    BY DEF Held, NoRecord
  <2> QED
    BY <1>1, <2>1, <2>2, <2>3 DEF ResolveHeld
<1>6. ASSUME NEW row, rsv.step # "idle", Applied(row), Held(uploaded', rsv.path, row.base)
      PROVE  ResolveHeld'
  <2>1. rsv'.path = rsv.path /\ rsv'.remote = rsv.remote /\ rsv'.row = row
    BY <1>6 DEF Applied
  <2> QED
    BY <1>1, <1>2, <1>6, <2>1 DEF VersionsHeld, ResolveHeld
<1>7. Held(uploaded', rsv.path, ReadyAbsentRecord.base)
  BY DEF Held, ReadyAbsentRecord
<1>8. CASE ApplyUseLocal
  <2> DEFINE p == rsv.path
  <2>0. rsv.step # "idle" /\ p \in Paths
    BY <1>2, <1>8 DEF ApplyUseLocal, Applying
  <2>1. ASSUME IsFile(local[p]), SetRemote(Put(remote, p, local[p].data)),
               Applied(ReadyRecord("file", rsv.local.version,
                 IF HasTokens THEN remote'[p].stamp ELSE rsv.local.version))
        PROVE  ResolveHeld'
    <3>1. remote' = Put(remote, p, local[p].data) /\ local[p].data \in Bytes
      BY <2>1 DEF SetRemote, IsFile
    <3>2. IsFile(remote'[p])
      <4>1. remote'[p].data = local[p].data
        BY <2>0, <3>1 DEF Put, MakeParents, Written
      <4> QED
        BY <3>1, <4>1 DEF IsFile
    <3>3. RemoteHeld' /\ TypeOK'
      BY HistoryGrows, TypeStep DEF VersionsHeld
    <3>4. remote' \in Trees
      BY <3>3 DEF TypeOK, TreesOK
    <3>5. <<RemoteVersion(remote'[p]), remote'[p].data>> \in uploaded'[p]
      BY <2>0, <3>2, <3>3 DEF RemoteHeld, RemoteVersion
    <3>6. Held(uploaded', p, remote'[p].stamp)
      BY <2>0, <3>2, <3>4, <3>5, StampHeld
    <3>7. ReadyRecord("file", rsv.local.version,
            IF HasTokens THEN remote'[p].stamp ELSE rsv.local.version).base = remote'[p].stamp
      BY DEF ReadyRecord
    <3> QED
      BY <1>6, <2>0, <2>1, <3>6, <3>7
  <2>2. CASE Applied(ReadyAbsentRecord)
    BY <1>6, <1>7, <2>0, <2>2
  <2> QED
    BY <1>8, <2>1, <2>2 DEF ApplyUseLocal
<1>9. CASE ApplyUseRemote
  <2>0. rsv.step # "idle" /\ rsv.path \in Paths
    BY <1>2, <1>9 DEF ApplyUseRemote, Applying
  <2>1. ASSUME NEW v, Applied(ReadyRecord("file", v, rsv.remote.version))
        PROVE  ResolveHeld'
    <3>1. ReadyRecord("file", v, rsv.remote.version).base = rsv.remote.version
      BY DEF ReadyRecord
    <3>2. Held(uploaded', rsv.path, rsv.remote.version)
      BY <1>1, <2>0 DEF VersionsHeld, ResolveHeld
    <3> QED
      BY <1>6, <2>0, <2>1, <3>1, <3>2
  <2>2. CASE Applied(ReadyAbsentRecord)
    BY <1>6, <1>7, <2>0, <2>2
  <2> QED
    BY <1>9, <2>1, <2>2 DEF ApplyUseRemote
<1>10. \/ UNCHANGED rsv \/ rsv' = NoResolve \/ ApplyUseLocal \/ ApplyUseRemote
       \/ \E p \in Paths, how \in {"use_local", "use_remote"} : ResolveBegin(p, how)
  <2> USE DEF Finish, Edit
  <2>1. CASE UNCHANGED vars
    BY <2>1 DEF vars
  <2>2. ASSUME NEW p \in Paths, Transfer(p) \/ TransferFails(p) \/ Persist(p)
        PROVE  UNCHANGED rsv
    BY <2>2 DEF Transfer, CreateLocalDir, CreateRemoteDir, PullFile, PushFile, StatPushed,
       DeleteLocal, DeleteRemote, SourceMissing, TransferFails, Persist
  <2>3. ASSUME NEW p \in Paths, EditLocal(p) \/ EditRemote(p)
        PROVE  UNCHANGED rsv
    BY <2>3 DEF EditLocal, EditRemote
  <2>4. CASE ResolveSave \/ ResolveMissing \/ ResolveFails
    BY <2>4 DEF ResolveSave, ResolveMissing, ResolveFails
  <2>5. CASE StartPass \/ PlanPass \/ AbortPass \/ FailPass \/ CrashBeforeEvent
    BY <2>5 DEF StartPass, PlanPass, AbortPass, FailPass, CrashBeforeEvent
  <2>6. CASE RefreshCaches \/ SaveLocalCache \/ SaveManifest
    BY <2>6 DEF RefreshCaches, SaveLocalCache, SaveManifest
  <2> QED
    BY <2>1, <2>2, <2>3, <2>4, <2>5, <2>6 DEF Next, PassStep, ResolveStep
<1> QED
  BY <1>3, <1>4, <1>5, <1>8, <1>9, <1>10

(* On a backend with tokens no interleaving of passes, resolutions,        *)
(* failures and edits makes the store record, as a path's base, a version  *)
(* the remote path never had: the path could not then look changed for     *)
(* ever (ready_record and materialize_record with the token of the scan,   *)
(* of the writer's close, of the stat after it or of inspect_remote_entry).*)
THEOREM BaseHeld ==
  ASSUME HasTokens
  PROVE  Spec => []BaseWasHeld
<1> DEFINE IInv == TypeOK /\ VersionsHeld
<1>1. Init => IInv
  <2> SUFFICES ASSUME Init PROVE VersionsHeld
    BY InitTyped
  <2>1. \A p \in Paths : Held(uploaded, p, None)
    BY DEF Held
  <2>2. RemoteHeld
    BY ValueFacts DEF Init, Fresh, RemoteHeld, IsFile
  <2>3. \A p \in Paths : records[p].base = None
    BY DEF Init, NoRecord
  <2>4. \A p \in Paths : seen[p].prev.base = None /\ seen[p].remote.version = None
    BY DEF Init, NoInput, NoRecord, Nothing
  <2>5. RowsHeld /\ ScansHeld
    BY <2>1, <2>3, <2>4 DEF RowsHeld, ScansHeld
  <2>6. PushesHeld /\ ResolveHeld
    BY DEF Init, PushesHeld, ResolveHeld, NoResolve
  <2> QED
    BY <2>2, <2>5, <2>6 DEF VersionsHeld
<1>2. IInv /\ [Next]_vars => IInv'
  BY TypeStep, HistoryGrows, RowsStayHeld, ScansStayHeld, PushesStayHeld, ResolveStaysHeld
  DEF VersionsHeld
<1>3. IInv => BaseWasHeld
  BY ValueFacts DEF VersionsHeld, RowsHeld, Held, BaseWasHeld
<1> HIDE DEF IInv
<1> QED
  BY <1>1, <1>2, <1>3, PTL DEF Spec

-----------------------------------------------------------------------------
(***************************************************************************)
(* Commands one at a time, and nobody edits during a pass: the promises    *)
(* about bytes and caches that the code can only keep then.                *)
(***************************************************************************)
Undisturbed == Alone /\ "pass" \in Quiet

(* A pass and a resolution never overlap. *)
Apart == phase # "idle" => rsv.step = "idle"

(* What can happen while no pass runs, but for the start of one ... *)
Resolving ==
  \/ \E p \in Paths, how \in {"use_local", "use_remote"} : ResolveBegin(p, how)
  \/ ResolveStep \/ ResolveFails \/ (CrashBeforeEvent /\ rsv.step = "save")
Editing == \E p \in Paths : EditLocal(p) \/ EditRemote(p)
(* ... and how a pass ends. *)
Closing ==
  \/ FailPass \/ SaveManifest \/ AbortPass
  \/ CrashBeforeEvent /\ phase = "save"

LEMMA IdleSteps ==
  ASSUME TypeOK, phase = "idle", [Next]_vars
  PROVE  UNCHANGED vars \/ StartPass \/ Resolving \/ Editing
<1>1. ~PassStep /\ ~AbortPass /\ \A p \in Paths : ~TransferFails(p)
  BY DEF PassStep, PlanPass, Transfer, CreateLocalDir, CreateRemoteDir, PullFile, PushFile,
     StatPushed, DeleteLocal, DeleteRemote, SourceMissing, Persist, FailPass, RefreshCaches,
     SaveLocalCache, SaveManifest, AbortPass, TransferFails, Ready, Finished
<1>2. CrashBeforeEvent => rsv.step = "save"
  BY DEF CrashBeforeEvent
<1> QED
  BY <1>1, <1>2 DEF Next, Resolving, Editing

LEMMA BusySteps ==
  ASSUME TypeOK, Undisturbed, Apart, phase # "idle", [Next]_vars
  PROVE  \/ UNCHANGED vars \/ PlanPass \/ RefreshCaches \/ SaveLocalCache \/ Closing
         \/ \E p \in Paths : Transfer(p) \/ TransferFails(p) \/ Persist(p)
<1>1. rsv.step = "idle"
  BY DEF Apart
<1>2. ~StartPass
  BY DEF StartPass
<1>3. ASSUME NEW p \in Paths, NEW how
      PROVE  ~ResolveBegin(p, how)
  BY DEF ResolveBegin, CommandMayStart, Undisturbed
<1>4. ~ResolveStep /\ ~ResolveFails
  BY <1>1 DEF ResolveStep, ApplyUseLocal, ApplyUseRemote, ResolveSave, ResolveMissing,
     ResolveFails, Applying
<1>5. ASSUME NEW p \in Paths  PROVE ~EditLocal(p) /\ ~EditRemote(p)
  BY DEF EditLocal, EditRemote, Edit, Undisturbed
<1>6. CrashBeforeEvent => phase = "save"
  BY <1>1 DEF CrashBeforeEvent
<1> QED
  BY <1>2, <1>3, <1>4, <1>5, <1>6 DEF Next, PassStep, Closing

LEMMA IdleRests ==
  ASSUME phase = "idle", Resolving \/ Editing
  PROVE  UNCHANGED pass /\ UNCHANGED <<localCache, manifest>>
<1>1. ASSUME NEW p \in Paths, NEW how, ResolveBegin(p, how)
      PROVE  UNCHANGED pass /\ UNCHANGED <<localCache, manifest>>
  BY <1>1 DEF ResolveBegin, store
<1>2. CASE ResolveStep \/ ResolveFails
  BY <1>2 DEF ResolveStep, ApplyUseLocal, ApplyUseRemote, ResolveSave, ResolveMissing,
     ResolveFails, Applied, store
<1>3. CASE CrashBeforeEvent
  BY <1>3 DEF CrashBeforeEvent
<1>4. ASSUME NEW p \in Paths, EditLocal(p) \/ EditRemote(p)
      PROVE  UNCHANGED pass /\ UNCHANGED <<localCache, manifest>>
  BY <1>4 DEF EditLocal, EditRemote, Edit, store
<1> QED
  BY <1>1, <1>2, <1>3, <1>4 DEF Resolving, Editing

LEMMA ClosingEnds ==
  ASSUME Apart, phase # "idle", Closing
  PROVE  EndPass /\ UNCHANGED <<trees, rsv, edits>>
BY DEF Closing, FailPass, SaveManifest, AbortPass, CrashBeforeEvent, Apart

LEMMA ApartStep ==
  ASSUME TypeOK, Undisturbed, Apart, [Next]_vars
  PROVE  Apart'
<1>1. CASE phase = "idle"
  <2>1. StartPass => rsv.step = "idle" /\ UNCHANGED rsv
    BY DEF StartPass, CommandMayStart, Undisturbed
  <2>2. UNCHANGED vars \/ Resolving \/ Editing => phase' = "idle"
    BY <1>1, IdleRests DEF pass, vars
  <2> QED
    BY <1>1, <2>1, <2>2, IdleSteps DEF Apart
<1>2. CASE phase # "idle"
  <2>1. ASSUME NEW p \in Paths, Transfer(p) \/ TransferFails(p) \/ Persist(p)
        PROVE  UNCHANGED rsv
    BY <2>1 DEF Transfer, CreateLocalDir, CreateRemoteDir, PullFile, PushFile, StatPushed,
       DeleteLocal, DeleteRemote, SourceMissing, TransferFails, Persist, Finish
  <2>2. UNCHANGED rsv
    BY <1>2, <2>1, BusySteps, ClosingEnds DEF vars, PlanPass, RefreshCaches, SaveLocalCache
  <2> QED
    BY <1>2, <2>2 DEF Apart
<1> QED
  BY <1>1, <1>2

-----------------------------------------------------------------------------
(* What the operations on trees do at a file's path: nothing, unless they  *)
(* are about this file or remove it.                                       *)
LEMMA FileInTree ==
  ASSUME NEW tree \in Trees, NEW f \in FilePaths, NEW p \in Paths
  PROVE  /\ f \in Paths /\ f \notin Above[p]
         /\ MakeParents(tree, p)[f] = tree[f]
         /\ p # f => MakeDir(tree, p)[f] = tree[f]
         /\ \A bytes : Put(tree, p, bytes)[f] = IF p = f THEN Written(tree[f], bytes) ELSE tree[f]
         /\ \A gone : Drop(tree, gone)[f] = IF f \in gone THEN Gone(tree[f]) ELSE tree[f]
         /\ p \in FilePaths => Tree(p) = {p}
<1>1. f \in Paths /\ f \notin Above[p] /\ f \notin DirPaths
  BY ValueFacts, TreeAssumption
<1>2. MakeParents(tree, p) \in [Paths -> Node] /\ MakeParents(tree, p)[f] = tree[f]
  BY <1>1, MakeParentsTyped DEF MakeParents, Trees
<1>3. p # f => MakeDir(tree, p)[f] = tree[f]
  BY <1>1, <1>2 DEF MakeDir
<1>4. ASSUME NEW bytes
      PROVE  Put(tree, p, bytes)[f] = IF p = f THEN Written(tree[f], bytes) ELSE tree[f]
  BY <1>1, <1>2 DEF Put
<1>5. ASSUME NEW gone
      PROVE  Drop(tree, gone)[f] = IF f \in gone THEN Gone(tree[f]) ELSE tree[f]
  BY <1>1 DEF Drop
<1>6. p \in FilePaths => Tree(p) = {p}
  BY ValueFacts, TreeAssumption DEF Tree
<1> QED
  BY <1>1, <1>2, <1>3, <1>4, <1>5, <1>6

(* A node moves on: it stays, it is no file any more, or it was written.   *)
MovesOn(before, after) ==
  \/ after = before
  \/ ~IsFile(after) /\ after.stamp >= before.stamp
  \/ after.stamp > before.stamp

LEMMA NodesMoveOn ==
  ASSUME NEW tree \in Trees, NEW p \in Paths, NEW f \in FilePaths
  PROVE  /\ MovesOn(tree[f], MakeParents(tree, p)[f])
         /\ p \in DirPaths => MovesOn(tree[f], MakeDir(tree, p)[f])
         /\ \A bytes : MovesOn(tree[f], Put(tree, p, bytes)[f])
         /\ \A gone : MovesOn(tree[f], Drop(tree, gone)[f])
<1>1. f \in Paths /\ f \notin DirPaths /\ tree[f].stamp \in Nat
  BY ValueFacts, NodeFacts
<1>2. \A bytes : Written(tree[f], bytes).stamp > tree[f].stamp
  BY <1>1 DEF Written
<1>3. ~IsFile(Gone(tree[f])) /\ Gone(tree[f]).stamp >= tree[f].stamp
  BY <1>1, ValueFacts DEF Gone, IsFile
<1> QED
  BY <1>1, <1>2, <1>3, FileInTree DEF MovesOn

LEMMA TreesMoveOn ==
  ASSUME TypeOK, [Next]_vars, NEW f \in FilePaths
  PROVE  MovesOn(local[f], local'[f]) /\ MovesOn(remote[f], remote'[f])
<1> DEFINE Fine == MovesOn(local[f], local'[f]) /\ MovesOn(remote[f], remote'[f])
<1>1. local \in Trees /\ remote \in Trees /\ f \in Paths
  BY ValueFacts DEF TypeOK, TreesOK
<1>2. UNCHANGED trees => Fine
  BY DEF trees, MovesOn
<1>3. ASSUME NEW tree, SetLocal(tree), MovesOn(local[f], tree[f])  PROVE Fine
  BY <1>3 DEF SetLocal, MovesOn
<1>4. ASSUME NEW tree, SetRemote(tree), UNCHANGED local, MovesOn(remote[f], tree[f])  PROVE Fine
  BY <1>4 DEF SetRemote, MovesOn
<1>5. ASSUME NEW p \in Paths, \E bytes : SetLocal(Put(local, p, bytes))  PROVE Fine
  BY <1>1, <1>3, <1>5, NodesMoveOn
<1>6. ASSUME NEW p \in Paths, UNCHANGED local, \E bytes : SetRemote(Put(remote, p, bytes))
      PROVE  Fine
  BY <1>1, <1>4, <1>6, NodesMoveOn
<1>7. ASSUME \E gone : SetLocal(Drop(local, gone))  PROVE Fine
  BY <1>1, <1>3, <1>7, NodesMoveOn
<1>8. ASSUME UNCHANGED local, \E gone : SetRemote(Drop(remote, gone))  PROVE Fine
  BY <1>1, <1>4, <1>8, NodesMoveOn
<1>9. ASSUME NEW p \in DirPaths, SetLocal(MakeDir(local, p))  PROVE Fine
  BY <1>1, <1>3, <1>9, NodesMoveOn, ValueFacts
<1>10. ASSUME NEW p \in DirPaths, UNCHANGED local, SetRemote(MakeDir(remote, p))  PROVE Fine
  BY <1>1, <1>4, <1>10, NodesMoveOn, ValueFacts
<1>11. ASSUME NEW p \in Paths, SetLocal(MakeParents(local, p))  PROVE Fine
  BY <1>1, <1>3, <1>11, NodesMoveOn
<1> HIDE DEF Fine
<1>12. ASSUME NEW p \in Paths, Transfer(p)  PROVE Fine
  <2>1. CASE CreateLocalDir(p) \/ CreateRemoteDir(p)
    BY <1>9, <1>10, <2>1, PlanFacts DEF CreateLocalDir, CreateRemoteDir, Ready
  <2>2. CASE PullFile(p) \/ PushFile(p)
    BY <1>5, <1>6, <2>2 DEF PullFile, PushFile
  <2>3. CASE StatPushed(p)
    BY <1>2, <2>3 DEF StatPushed
  <2>4. CASE DeleteLocal(p) \/ DeleteRemote(p)
    BY <1>7, <1>8, <2>4 DEF DeleteLocal, DeleteRemote
  <2>5. CASE SourceMissing(p)
    BY <1>2, <1>5, <1>11, <2>5 DEF SourceMissing
  <2> QED
    BY <1>12, <2>1, <2>2, <2>3, <2>4, <2>5 DEF Transfer
<1>13. ASSUME NEW p \in Paths, TransferFails(p)  PROVE Fine
  BY <1>2, <1>5, <1>6, <1>8, <1>13 DEF TransferFails
<1>14. ASSUME NEW p \in Paths, EditLocal(p) \/ EditRemote(p)  PROVE Fine
  <2>1. CASE EditLocal(p)
    BY <1>5, <1>7, <1>9, <1>14, <2>1 DEF EditLocal
  <2>2. CASE EditRemote(p)
    BY <1>6, <1>8, <1>10, <1>14, <2>2 DEF EditRemote
  <2> QED
    BY <1>14, <2>1, <2>2
<1>15. ASSUME rsv.step # "idle", ResolveStep \/ ResolveFails  PROVE Fine
  <2>1. rsv.path \in Paths
    BY <1>15 DEF TypeOK, ResolveOK
  <2>2. SetRemote(remote) /\ UNCHANGED local => Fine
    BY <1>4 DEF MovesOn
  <2>3. CASE ApplyUseLocal
    <3>1. SetRemote(IF Seen(rsv.remote) THEN Drop(remote, Tree(rsv.path)) ELSE remote)
            => SetRemote(Drop(remote, Tree(rsv.path))) \/ SetRemote(remote)
      OBVIOUS
    <3> QED
      BY <1>6, <1>8, <2>1, <2>2, <2>3, <3>1 DEF ApplyUseLocal
  <2>4. CASE ApplyUseRemote
    BY <1>5, <1>7, <2>1, <2>4 DEF ApplyUseRemote
  <2>5. CASE ResolveSave \/ ResolveMissing
    BY <1>2, <2>5 DEF ResolveSave, ResolveMissing
  <2>6. CASE ResolveFails
    BY <1>2, <1>5, <1>6, <2>1, <2>6 DEF ResolveFails
  <2> QED
    BY <1>15, <2>3, <2>4, <2>5, <2>6 DEF ResolveStep
<1>16. ResolveStep \/ ResolveFails => rsv.step # "idle"
  BY DEF ResolveStep, ResolveFails, ApplyUseLocal, ApplyUseRemote, ResolveSave, ResolveMissing,
     Applying
<1>17. ASSUME NEW p \in Paths, NEW how, ResolveBegin(p, how)  PROVE Fine
  BY <1>2, <1>17 DEF ResolveBegin
<1>18. ASSUME NEW p \in Paths, Persist(p)  PROVE Fine
  BY <1>2, <1>18 DEF Persist
<1>19. CASE \/ StartPass \/ PlanPass \/ AbortPass \/ FailPass \/ CrashBeforeEvent
            \/ RefreshCaches \/ SaveLocalCache \/ SaveManifest \/ UNCHANGED vars
  <2>1. UNCHANGED trees
    BY <1>19 DEF StartPass, PlanPass, AbortPass, FailPass, CrashBeforeEvent, RefreshCaches,
       SaveLocalCache, SaveManifest, vars
  <2> QED
    BY <1>2, <2>1 DEF Fine
<1> QED
  BY <1>12, <1>13, <1>14, <1>15, <1>16, <1>17, <1>18, <1>19 DEF Next, PassStep, Fine

-----------------------------------------------------------------------------
(* Transfers, seen from the files: another file's transfer leaves a file   *)
(* as it is or takes it away; its own writes it only to pull or to push.   *)
LocalAfter(p, f) ==
  \/ local'[f] = local[f] \/ ~IsFile(local'[f])
  \/ /\ f = p /\ PlanFor(p).op = "pull_file" /\ work'[p] \in {"done", "failed"}
     /\ UNCHANGED remote
     /\ work'[p] = "done" => /\ IsFile(remote[p])
                             /\ got'[p] = remote[p].data /\ local'[p].data = remote[p].data
RemoteAfter(p, f) ==
  \/ remote'[f] = remote[f] \/ ~IsFile(remote'[f])
  \/ /\ f = p /\ PlanFor(p).op = "push_file" /\ work[p] = "todo"
     /\ work'[p] \in {"stat", "done", "failed"}
     /\ UNCHANGED local
     /\ work'[p] \in {"stat", "done"} => IsFile(local[p]) /\ remote'[p].data = local[p].data
(* What the transfer of p says of itself. *)
WorkAfter(p) ==
  /\ phase = "run" /\ work[p] \in {"todo", "stat"} /\ PlanFor(p).op # "none"
  /\ UNCHANGED <<store, watch, phase, seen, newCache, newManifest, rsv, edits>>
  /\ work'[p] \in {"stat", "done", "failed"}
  /\ \A f \in Paths : f # p => work'[f] = work[f] /\ got'[f] = got[f]
  /\ work'[p] = "stat" => PlanFor(p).op = "push_file" /\ got'[p] = None
  /\ work'[p] = "failed" => got'[p] = None
  /\ PlanFor(p).op = "push_file" =>
       /\ work'[p] = "done" => IsFile(remote'[p])
       /\ work'[p] = "done" => got'[p] = IF HasTokens THEN remote'[p].stamp ELSE None
       /\ work[p] = "stat" => remote' = remote /\ local' = local

LEMMA TransferWork ==
  ASSUME TypeOK, NEW p \in Paths, Transfer(p) \/ TransferFails(p)
  PROVE  WorkAfter(p)
<1>1. /\ work \in [Paths -> {"todo", "stat", "done", "failed", "saved"}]
      /\ got \in [Paths -> MaybeVersion]
      /\ phase = "run" /\ work[p] = "stat" => PlanFor(p).op = "push_file"
  BY DEF TypeOK, PassOK
<1>2. ASSUME NEW status \in {"stat", "done", "failed"}, NEW version, Finish(p, status, version),
             phase = "run", work[p] \in {"todo", "stat"}, PlanFor(p).op # "none",
             status \in {"stat", "failed"} => version = None,
             status = "stat" => PlanFor(p).op = "push_file",
             PlanFor(p).op = "push_file" =>
               /\ status = "done" => IsFile(remote'[p])
               /\ status = "done" => version = IF HasTokens THEN remote'[p].stamp ELSE None
               /\ work[p] = "stat" => remote' = remote /\ local' = local
      PROVE  WorkAfter(p)
  <2>1. /\ work' = [work EXCEPT ![p] = status] /\ got' = [got EXCEPT ![p] = version]
        /\ UNCHANGED <<store, watch, phase, seen, newCache, newManifest, rsv, edits>>
    BY <1>2 DEF Finish
  <2>2. work'[p] = status /\ got'[p] = version
    BY <1>1, <2>1
  <2>3. \A f \in Paths : f # p => work'[f] = work[f] /\ got'[f] = got[f]
    BY <1>1, <2>1
  <2> QED
    BY <1>2, <2>1, <2>2, <2>3 DEF WorkAfter
<1>3. CASE CreateLocalDir(p) \/ CreateRemoteDir(p)
  BY <1>2, <1>3 DEF CreateLocalDir, CreateRemoteDir, Ready
<1>4. CASE PullFile(p) \/ DeleteLocal(p) \/ DeleteRemote(p)
  BY <1>2, <1>4 DEF PullFile, DeleteLocal, DeleteRemote, Ready
<1>5. CASE PushFile(p)
  <2>1. /\ phase = "run" /\ work[p] = "todo" /\ PlanFor(p).op = "push_file"
        /\ \/ HasTokens /\ Finish(p, "done", remote'[p].stamp)
           \/ Finish(p, "stat", None)
    BY <1>5 DEF PushFile, Ready
  <2>2. IsFile(remote'[p])
    <3>1. remote' = Put(remote, p, local[p].data) /\ local[p].data \in Bytes
      BY <1>5 DEF PushFile, SetRemote, IsFile
    <3>2. remote'[p].data = local[p].data
      BY <3>1 DEF Put, MakeParents, Written
    <3> QED
      BY <3>1, <3>2 DEF IsFile
  <2> QED
    BY <1>2, <2>1, <2>2
<1>6. CASE StatPushed(p)
  <2>1. /\ phase = "run" /\ work[p] = "stat" /\ remote' = remote /\ local' = local
        /\ Finish(p, "done", IF HasTokens THEN remote[p].stamp ELSE None)
        /\ Exists(remote[p])
    BY <1>6 DEF StatPushed, trees
  <2>2. IsFile(remote[p])
    BY <1>1, <2>1, PlanFacts, NodeFacts, ValueFacts DEF TypeOK, TreesOK, Exists
  <2> QED
    BY <1>1, <1>2, <2>1, <2>2
<1>7. CASE SourceMissing(p)
  <2>1. Finish(p, "failed", None)
    BY <1>7 DEF SourceMissing
  <2>2. /\ phase = "run" /\ work[p] \in {"todo", "stat"} /\ PlanFor(p).op # "none"
        /\ PlanFor(p).op = "push_file" => UNCHANGED <<remote, local>>
    BY <1>1, <1>7 DEF SourceMissing, Ready, trees
  <2> QED
    BY <1>2, <2>1, <2>2
<1>8. CASE TransferFails(p)
  <2>1. Finish(p, "failed", None)
    BY <1>8 DEF TransferFails
  <2>2. /\ phase = "run" /\ work[p] \in {"todo", "stat"} /\ PlanFor(p).op # "none"
        /\ work[p] = "stat" => UNCHANGED <<remote, local>>
    BY <1>1, <1>8 DEF TransferFails, Ready, trees
  <2> QED
    BY <1>2, <2>1, <2>2
<1> QED
  BY <1>3, <1>4, <1>5, <1>6, <1>7, <1>8 DEF Transfer

LEMMA TransferLocal ==
  ASSUME TypeOK, NEW p \in Paths, Transfer(p) \/ TransferFails(p), NEW f \in FilePaths
  PROVE  LocalAfter(p, f)
<1>1. local \in Trees /\ f \in Paths /\ work' = [work EXCEPT ![p] = work'[p]]
      /\ got' = [got EXCEPT ![p] = got'[p]]
  <2>1. \E status, version : Finish(p, status, version)
    BY DEF Transfer, CreateLocalDir, CreateRemoteDir, PullFile, PushFile, StatPushed,
       DeleteLocal, DeleteRemote, SourceMissing, TransferFails
  <2> QED
    BY <2>1, ValueFacts DEF TypeOK, TreesOK, PassOK, Finish
<1>2. UNCHANGED local => LocalAfter(p, f)
  BY DEF LocalAfter
<1>3. ASSUME \E gone : SetLocal(Drop(local, gone))  PROVE LocalAfter(p, f)
  <2>1. PICK gone : local' = Drop(local, gone)
    BY <1>3 DEF SetLocal
  <2>2. ~IsFile(Gone(local[f]))
    BY ValueFacts DEF Gone, IsFile
  <2> QED
    BY <1>1, <2>1, <2>2, FileInTree DEF LocalAfter
<1>4. ASSUME NEW bytes, SetLocal(Put(local, p, bytes)), PlanFor(p).op = "pull_file",
             work'[p] = "failed" \/ (/\ work'[p] = "done" /\ bytes = remote[p].data
                                     /\ IsFile(remote[p]) /\ got'[p] = remote[p].data)
      PROVE  LocalAfter(p, f)
  <2>1. local' = Put(local, p, bytes) /\ UNCHANGED remote
    BY <1>4 DEF SetLocal
  <2>2. p # f => local'[f] = local[f]
    BY <1>1, <2>1, FileInTree
  <2>3. p = f => local'[f].data = bytes
    <3>1. p = f => local'[f] = Written(local[f], bytes)
      BY <1>1, <2>1, FileInTree
    <3> QED
      BY <3>1 DEF Written
  <2> QED
    BY <1>4, <2>1, <2>2, <2>3 DEF LocalAfter
<1>5. CASE CreateLocalDir(p)
  <2>1. p \in DirPaths /\ local' = MakeDir(local, p)
    BY <1>5, PlanFacts DEF CreateLocalDir, Ready, SetLocal
  <2> QED
    BY <1>1, <2>1, FileInTree, ValueFacts DEF LocalAfter
<1>6. CASE PullFile(p)
  <2>1. /\ PlanFor(p).op = "pull_file" /\ IsFile(remote[p])
        /\ SetLocal(Put(local, p, remote[p].data)) /\ Finish(p, "done", remote[p].data)
    BY <1>6 DEF PullFile, Ready
  <2>2. work'[p] = "done" /\ got'[p] = remote[p].data
    BY <2>1 DEF Finish, TypeOK, PassOK
  <2> QED
    BY <1>4, <2>1, <2>2
<1>7. CASE SourceMissing(p) \/ TransferFails(p)
  <2>1. work'[p] = "failed"
    BY <1>7 DEF SourceMissing, TransferFails, Finish, TypeOK, PassOK
  <2>2. MakeParents(local, p)[f] = local[f]
    BY <1>1, FileInTree
  <2>3. SetLocal(MakeParents(local, p)) => LocalAfter(p, f)
    BY <2>2 DEF SetLocal, LocalAfter
  <2>4. \/ UNCHANGED local \/ SetLocal(MakeParents(local, p))
        \/ PlanFor(p).op = "pull_file" /\ SetLocal(Put(local, p, Partial))
    BY <1>7 DEF SourceMissing, TransferFails, Ready, trees
  <2> QED
    BY <1>2, <1>4, <2>1, <2>3, <2>4
<1>8. CASE DeleteLocal(p)
  BY <1>3, <1>8 DEF DeleteLocal
<1>9. CASE CreateRemoteDir(p) \/ PushFile(p) \/ StatPushed(p) \/ DeleteRemote(p)
  BY <1>2, <1>9 DEF CreateRemoteDir, PushFile, StatPushed, DeleteRemote, trees
<1> QED
  BY <1>5, <1>6, <1>7, <1>8, <1>9 DEF Transfer

LEMMA TransferRemote ==
  ASSUME TypeOK, NEW p \in Paths, Transfer(p) \/ TransferFails(p), NEW f \in FilePaths
  PROVE  RemoteAfter(p, f)
<1>1. remote \in Trees /\ f \in Paths /\ WorkAfter(p)
  BY ValueFacts, TransferWork DEF TypeOK, TreesOK
<1>2. UNCHANGED remote => RemoteAfter(p, f)
  BY DEF RemoteAfter
<1>3. ASSUME \E gone : SetRemote(Drop(remote, gone))  PROVE RemoteAfter(p, f)
  <2>1. PICK gone : remote' = Drop(remote, gone)
    BY <1>3 DEF SetRemote
  <2>2. ~IsFile(Gone(remote[f]))
    BY ValueFacts DEF Gone, IsFile
  <2> QED
    BY <1>1, <2>1, <2>2, FileInTree DEF RemoteAfter
<1>4. ASSUME NEW bytes, SetRemote(Put(remote, p, bytes)), UNCHANGED local, Ready(p, "push_file"),
             work'[p] = "failed" \/ (bytes = local[p].data /\ IsFile(local[p]))
      PROVE  RemoteAfter(p, f)
  <2>1. remote' = Put(remote, p, bytes) /\ PlanFor(p).op = "push_file" /\ work[p] = "todo"
    BY <1>4 DEF SetRemote, Ready
  <2>2. p # f => remote'[f] = remote[f]
    BY <1>1, <2>1, FileInTree
  <2>3. p = f => remote'[f].data = bytes
    <3>1. p = f => remote'[f] = Written(remote[f], bytes)
      BY <1>1, <2>1, FileInTree
    <3> QED
      BY <3>1 DEF Written
  <2> QED
    BY <1>1, <1>4, <2>1, <2>2, <2>3 DEF RemoteAfter, WorkAfter
<1>5. CASE CreateRemoteDir(p)
  <2>1. p \in DirPaths /\ remote' = MakeDir(remote, p)
    BY <1>5, PlanFacts DEF CreateRemoteDir, Ready, SetRemote
  <2> QED
    BY <1>1, <2>1, FileInTree, ValueFacts DEF RemoteAfter
<1>6. CASE PushFile(p)
  BY <1>4, <1>6 DEF PushFile
<1>7. CASE TransferFails(p)
  <2>1. work'[p] = "failed"
    BY <1>7 DEF TransferFails, Finish, TypeOK, PassOK
  <2> QED
    BY <1>2, <1>3, <1>4, <1>7, <2>1 DEF TransferFails, SetLocal, trees
<1>8. CASE DeleteRemote(p)
  BY <1>3, <1>8 DEF DeleteRemote
<1>9. CASE CreateLocalDir(p) \/ PullFile(p) \/ StatPushed(p) \/ DeleteLocal(p) \/ SourceMissing(p)
  BY <1>2, <1>9 DEF CreateLocalDir, PullFile, StatPushed, DeleteLocal, SourceMissing, trees,
     SetLocal
<1> QED
  BY <1>5, <1>6, <1>7, <1>8, <1>9 DEF Transfer

-----------------------------------------------------------------------------
(* What the scans of the pass saw of a file is what is there, as long as   *)
(* the pass has not written the file itself; what it has written is what   *)
(* it will record.                                                         *)
LocalAsSeen(p) == IsFile(local[p]) => seen[p].local = File(local[p].data)
RemoteAsSeen(p) == IsFile(remote[p]) => seen[p].remote = File(RemoteVersion(remote[p]))
Sights(p) ==
  /\ phase = "listing" => LocalAsSeen(p)
  /\ phase = "run" =>
       /\ work[p] = "todo" \/ PlanFor(p).op # "pull_file" => LocalAsSeen(p)
       /\ work[p] = "todo" \/ PlanFor(p).op # "push_file" => RemoteAsSeen(p)
Transferred(p) ==
  phase = "run" =>
    /\ PlanFor(p).op = "pull_file" /\ work[p] = "done" /\ IsFile(local[p])
         => got[p] = local[p].data
    /\ PlanFor(p).op = "push_file" /\ work[p] \in {"stat", "done"}
         => /\ IsFile(remote[p]) => remote[p].data = seen[p].local.version
            /\ ~HasTokens => got[p] = None
SightsOK == \A p \in FilePaths : Sights(p) /\ Transferred(p)

(* A cache line is never ahead of the file, and one that is level with it  *)
(* has its version.  (A file that was ever written has a stamp above 0.)   *)
LineFits(line, node, version) ==
  line.kind = "file" => /\ line.stamp <= node.stamp
                        /\ line.stamp = node.stamp /\ IsFile(node) => line.version = version
LocalLines(p) ==
  /\ LineFits(localCache[p], local[p], local[p].data)
  /\ LineFits(newCache[p], local[p], local[p].data)
RemoteLines(p) ==
  /\ LineFits(manifest[p], remote[p], RemoteVersion(remote[p]))
  /\ LineFits(newManifest[p], remote[p], RemoteVersion(remote[p]))
  /\ IsFile(remote[p]) => remote[p].stamp > 0
LinesFit == \A p \in FilePaths : LocalLines(p) /\ RemoteLines(p)

CacheInv == TypeOK /\ Apart /\ SightsOK /\ LinesFit

(* A scan, whether or not it trusts its cache, sees what is there. *)
LEMMA ScansTrue ==
  ASSUME TypeOK, LinesFit, NEW p \in FilePaths
  PROVE  /\ IsFile(local[p]) => ScanLocal(p) = File(local[p].data)
         /\ IsFile(remote[p]) => ScanRemote(p) = File(RemoteVersion(remote[p]))
         /\ ScanLocal(p).kind = "file" <=> IsFile(local[p])
         /\ ScanRemote(p).kind = "file" <=> IsFile(remote[p])
<1>1. p \in Paths /\ local \in Trees /\ remote \in Trees
  BY ValueFacts DEF TypeOK, TreesOK
<1>2. IsFile(local[p]) => ScanLocal(p) = File(local[p].data)
  BY <1>1, NodeFacts DEF ScanLocal, Observe, Hit, LinesFit, LocalLines, LineFits
<1>3. IsFile(remote[p]) => ScanRemote(p) = File(RemoteVersion(remote[p]))
  BY <1>1, NodeFacts DEF ScanRemote, Observe, Hit, LinesFit, RemoteLines, LineFits
<1>4. /\ ~IsFile(local[p]) => ScanLocal(p) \in {Nothing, Dir}
      /\ ~IsFile(remote[p]) => ScanRemote(p) \in {Nothing, Dir}
  BY <1>1, NodeFacts DEF ScanLocal, ScanRemote, Observe
<1>5. Nothing.kind # "file" /\ Dir.kind # "file" /\ \A v : File(v).kind = "file"
  BY DEF Nothing, Dir, File
<1> QED
  BY <1>2, <1>3, <1>4, <1>5

LEMMA SightsStep ==
  ASSUME CacheInv, Undisturbed, [Next]_vars, NEW f \in FilePaths
  PROVE  Sights(f)' /\ Transferred(f)'
<1>0. TypeOK /\ Apart /\ Sights(f) /\ Transferred(f) /\ f \in Paths
  BY ValueFacts DEF CacheInv, SightsOK
<1>1. CASE phase' \notin {"listing", "run"}
  BY <1>1 DEF Sights, Transferred
<1>2. CASE UNCHANGED vars
  BY <1>0, <1>2 DEF vars, trees, pass, Sights, Transferred, LocalAsSeen, RemoteAsSeen, PlanFor
<1>3. CASE StartPass
  <2>1. phase' = "listing" /\ seen'[f].local = ScanLocal(f) /\ local' = local
    BY <1>0, <1>3 DEF StartPass, trees
  <2> QED
    BY <2>1, ScansTrue DEF CacheInv, Sights, Transferred, LocalAsSeen
<1>4. CASE PlanPass
  <2>1. /\ phase = "listing" /\ phase' = "run" /\ local' = local /\ remote' = remote
        /\ seen'[f].local = seen[f].local /\ seen'[f].remote = ScanRemote(f)
        /\ work'[f] = IF PlanFor(f)'.op # "none" THEN "todo" ELSE "done"
    BY <1>0, <1>4 DEF PlanPass, trees
  <2>2. LocalAsSeen(f)'
    BY <1>0, <2>1 DEF Sights, LocalAsSeen
  <2>3. RemoteAsSeen(f)'
    BY <2>1, ScansTrue DEF CacheInv, RemoteAsSeen, RemoteVersion
  <2> QED
    BY <2>1, <2>2, <2>3 DEF Sights, Transferred
<1>5. ASSUME NEW p \in Paths, Transfer(p) \/ TransferFails(p)
      PROVE  Sights(f)' /\ Transferred(f)'
  <2>1. WorkAfter(p) /\ LocalAfter(p, f) /\ RemoteAfter(p, f)
    BY <1>0, <1>5, TransferWork, TransferLocal, TransferRemote
  <2>2. phase = "run" /\ phase' = "run" /\ UNCHANGED seen /\ PlanFor(f)' = PlanFor(f)
    BY <2>1 DEF WorkAfter, PlanFor
  <2>3. CASE f # p
    <3>1. /\ work'[f] = work[f] /\ got'[f] = got[f]
          /\ local'[f] = local[f] \/ ~IsFile(local'[f])
          /\ remote'[f] = remote[f] \/ ~IsFile(remote'[f])
      BY <1>0, <2>1, <2>3 DEF WorkAfter, LocalAfter, RemoteAfter
    <3>2. LocalAsSeen(f) => LocalAsSeen(f)'
      BY <2>2, <3>1 DEF LocalAsSeen
    <3>3. RemoteAsSeen(f) => RemoteAsSeen(f)'
      BY <2>2, <3>1 DEF RemoteAsSeen, RemoteVersion
    <3>4. Sights(f)'
      BY <1>0, <2>2, <3>1, <3>2, <3>3 DEF Sights
    <3>5. Transferred(f)'
      BY <1>0, <2>2, <3>1 DEF Transferred
    <3> QED
      BY <3>4, <3>5
  <2>4. CASE f = p
    <3>1. /\ work[f] \in {"todo", "stat"} /\ work'[f] \in {"stat", "done", "failed"}
          /\ work[f] = "stat" => PlanFor(f).op = "push_file"
      BY <1>0, <2>1, <2>4, <2>2 DEF WorkAfter, TypeOK, PassOK
    <3>2. PlanFor(f).op # "pull_file" => LocalAsSeen(f)'
      BY <1>0, <2>1, <2>2, <2>4 DEF Sights, LocalAsSeen, LocalAfter
    <3>3. PlanFor(f).op # "push_file" => RemoteAsSeen(f)'
      <4>1. PlanFor(f).op # "push_file" => RemoteAsSeen(f)
        BY <1>0, <2>2 DEF Sights
      <4> QED
        BY <2>1, <2>2, <2>4, <4>1 DEF RemoteAsSeen, RemoteVersion, RemoteAfter
    <3>4. Sights(f)'
      BY <2>2, <3>1, <3>2, <3>3 DEF Sights
    <3>5. /\ PlanFor(f).op = "pull_file" /\ work'[f] = "done" /\ IsFile(local'[f])
               => got'[f] = local'[f].data
      <4>1. SUFFICES ASSUME PlanFor(f).op = "pull_file", work'[f] = "done", IsFile(local'[f])
                     PROVE  got'[f] = local'[f].data
        OBVIOUS
      <4>2. CASE PullFile(p)
        <5>1. /\ IsFile(remote[f]) /\ local' = Put(local, f, remote[f].data)
              /\ Finish(f, "done", remote[f].data)
          BY <2>4, <4>2 DEF PullFile, SetLocal
        <5>2. got'[f] = remote[f].data
          BY <1>0, <5>1 DEF Finish, TypeOK, PassOK
        <5>3. local'[f] = Written(local[f], remote[f].data)
          BY <1>0, <5>1, FileInTree DEF TypeOK, TreesOK
        <5> QED
          BY <5>2, <5>3 DEF Written
      <4>3. CASE ~PullFile(p)
        <5>1. work[f] = "todo"
          BY <3>1, <4>1
        <5>2. work'[f] = "failed"
          BY <1>0, <1>5, <2>4, <4>1, <4>3, <5>1 DEF Transfer, CreateLocalDir, CreateRemoteDir,
             PushFile, StatPushed, DeleteLocal, DeleteRemote, SourceMissing, TransferFails,
             Finish, Ready, TypeOK, PassOK
        <5> QED
          BY <4>1, <5>2
      <4> QED
        BY <4>2, <4>3
    <3>6. /\ PlanFor(f).op = "push_file" /\ work'[f] \in {"stat", "done"}
               => /\ IsFile(remote'[f]) => remote'[f].data = seen[f].local.version
                  /\ ~HasTokens => got'[f] = None
      <4>1. SUFFICES ASSUME PlanFor(f).op = "push_file", work'[f] \in {"stat", "done"}
                     PROVE  /\ IsFile(remote'[f]) => remote'[f].data = seen[f].local.version
                            /\ ~HasTokens => got'[f] = None
        OBVIOUS
      <4>2. ~HasTokens => got'[f] = None
        BY <2>1, <2>4, <4>1 DEF WorkAfter
      <4>3. CASE work[f] = "stat"
        <5>1. remote' = remote
          BY <2>1, <2>4, <4>1, <4>3 DEF WorkAfter
        <5> QED
          BY <1>0, <2>2, <4>1, <4>2, <4>3, <5>1 DEF Transferred
      <4>4. CASE work[f] = "todo"
        <5>1. LocalAsSeen(f)
          BY <1>0, <2>2, <4>4 DEF Sights
        <5>2. CASE remote'[f] = remote[f] \/ ~IsFile(remote'[f])
          <6>1. PushFile(f)
            BY <1>0, <1>5, <2>4, <4>1, <4>4 DEF Transfer, CreateLocalDir, CreateRemoteDir,
               PullFile, StatPushed, DeleteLocal, DeleteRemote, SourceMissing, TransferFails,
               Finish, Ready, TypeOK, PassOK
          <6>2. IsFile(local[f]) /\ remote' = Put(remote, f, local[f].data)
            BY <6>1 DEF PushFile, SetRemote
          <6>3. remote'[f] = Written(remote[f], local[f].data)
            BY <1>0, <6>2, FileInTree DEF TypeOK, TreesOK
          <6>4. remote'[f].data = local[f].data /\ seen[f].local.version = local[f].data
            BY <5>1, <6>2, <6>3 DEF LocalAsSeen, Written, File
          <6> QED
            BY <4>2, <6>4
        <5>3. CASE IsFile(local[f]) /\ remote'[f].data = local[f].data
          <6>1. seen[f].local.version = local[f].data
            BY <5>1, <5>3 DEF LocalAsSeen, File
          <6> QED
            BY <4>2, <5>3, <6>1
        <5> QED
          BY <2>1, <2>4, <4>1, <5>2, <5>3 DEF RemoteAfter
      <4> QED
        BY <3>1, <4>3, <4>4
    <3>7. Transferred(f)'
      BY <2>2, <3>5, <3>6 DEF Transferred
    <3> QED
      BY <3>4, <3>7
  <2> QED
    BY <2>3, <2>4
<1>6. phase = "idle" => UNCHANGED vars \/ StartPass \/ phase' = "idle"
  BY <1>0, IdleSteps, IdleRests DEF pass
<1>7. phase # "idle" =>
        \/ UNCHANGED vars \/ PlanPass \/ phase' \notin {"listing", "run"}
        \/ \E p \in Paths : Transfer(p) \/ TransferFails(p)
  BY <1>0, BusySteps, ClosingEnds DEF RefreshCaches, SaveLocalCache, Persist, EndPass
<1> QED
  BY <1>1, <1>2, <1>3, <1>4, <1>5, <1>6, <1>7

LEMMA LineMovesOn ==
  ASSUME NEW line, NEW before, NEW after, NEW v, NEW w, line.stamp \in Nat,
         before.stamp \in Nat, after.stamp \in Nat,
         LineFits(line, before, v), MovesOn(before, after), after = before => w = v
  PROVE  LineFits(line, after, w)
BY DEF LineFits, MovesOn

(* The line a scan makes fits. *)
LEMMA ScannedLinesFit ==
  ASSUME TypeOK, LinesFit, NEW p \in FilePaths
  PROVE  /\ LineFits(Line(ScanLocal(p), local[p].stamp), local[p], local[p].data)
         /\ LineFits(Line(ScanRemote(p), remote[p].stamp), remote[p], RemoteVersion(remote[p]))
<1>1. p \in Paths /\ local[p].stamp \in Nat /\ remote[p].stamp \in Nat
  BY ValueFacts, NodeFacts DEF TypeOK, TreesOK
<1>2. \A v : File(v).version = v
  BY DEF File
<1> QED
  BY <1>1, <1>2, ScansTrue DEF Line, LineFits

(* So do the lines refresh_cached_snapshots makes of what was transferred. *)
LEMMA RefreshedLinesFit ==
  ASSUME CacheInv, RefreshCaches, NEW p \in FilePaths
  PROVE  /\ LineFits(RefreshedLine(p), local[p], local[p].data)
         /\ LineFits(RefreshedManifestLine(p), remote[p], RemoteVersion(remote[p]))
<1>1. /\ p \in Paths /\ local[p].stamp \in Nat /\ remote[p].stamp \in Nat
      /\ local \in Trees /\ remote \in Trees
  BY ValueFacts, NodeFacts DEF CacheInv, TypeOK, TreesOK
<1>2. phase = "run" /\ work[p] = "done" /\ Transferred(p)
  BY <1>1 DEF RefreshCaches, Finished, CacheInv, SightsOK
<1>3. LocalLines(p) /\ RemoteLines(p)
  BY DEF CacheInv, LinesFit
<1>4. /\ \A node, v : LineFits(NoLine, node, v)
      /\ \A node, v : LineFits(Line(Dir, 0), node, v)
  BY DEF LineFits, NoLine, Line, Dir
<1>5. LineFits(RefreshedLine(p), local[p], local[p].data)
  <2>1. CASE PlanFor(p).op = "pull_file" /\ Exists(local[p])
    <3>1. got[p] = local[p].data
      <4>1. PlanFor(p).op = "pull_file"
        BY <2>1
      <4>2. p \in FilePaths /\ IsFile(local[p])
        BY <1>1, <2>1, NodeFacts, ValueFacts DEF Exists
      <4> QED
        BY <1>2, <4>1, <4>2 DEF Transferred
    <3>2. RefreshedLine(p) = Line(File(got[p]), local[p].stamp)
      BY <2>1 DEF RefreshedLine
    <3>3. LineFits(Line(File(got[p]), local[p].stamp), local[p], local[p].data)
      BY <1>1, <3>1 DEF LineFits, Line, File
    <3> QED
      BY <3>2, <3>3
  <2>2. CASE ~(PlanFor(p).op = "pull_file" /\ Exists(local[p]))
    <3>1. RefreshedLine(p) \in {NoLine, Line(Dir, 0), newCache[p]}
      BY <2>2 DEF RefreshedLine
    <3> QED
      BY <1>3, <1>4, <3>1 DEF LocalLines
  <2> QED
    BY <2>1, <2>2
<1>6. PlanFor(p).op = "push_file" => LineFits(PushedLine(p), remote[p], RemoteVersion(remote[p]))
  <2>1. SUFFICES ASSUME PlanFor(p).op = "push_file", IsFile(remote[p])
                 PROVE  LineFits(PushedLine(p), remote[p], RemoteVersion(remote[p]))
    <3>1. CASE ~IsFile(remote[p])
      <4>1. ~Exists(remote[p])
        BY <1>1, <3>1, NodeFacts, ValueFacts DEF Exists
      <4>2. PushedLine(p).stamp = 0
        BY <4>1 DEF PushedLine, Line
      <4> QED
        BY <1>1, <3>1, <4>2 DEF LineFits
    <3> QED
      BY <3>1
  <2>2. Exists(remote[p])
    BY <1>1, <2>1, ValueFacts DEF Exists, IsFile
  <2>3. remote[p].data = seen[p].local.version /\ (~HasTokens => got[p] = None)
    BY <1>2, <2>1 DEF Transferred
  <2>4. PushedLine(p) = Line(File(RemoteVersion(remote[p])), remote[p].stamp)
    BY <2>2, <2>3 DEF PushedLine, RemoteVersion
  <2>5. LineFits(Line(File(RemoteVersion(remote[p])), remote[p].stamp), remote[p],
                 RemoteVersion(remote[p]))
    BY <1>1 DEF LineFits, Line, File
  <2> QED
    BY <2>4, <2>5
<1>7. LineFits(RefreshedManifestLine(p), remote[p], RemoteVersion(remote[p]))
  <2>1. PlanFor(p).op # "push_file"
          => RefreshedManifestLine(p) \in {NoLine, Line(Dir, 0), newManifest[p]}
    BY DEF RefreshedManifestLine
  <2>2. PlanFor(p).op = "push_file" => RefreshedManifestLine(p) = PushedLine(p)
    BY DEF RefreshedManifestLine
  <2> QED
    BY <1>3, <1>4, <1>6, <2>1, <2>2 DEF RemoteLines
<1> QED
  BY <1>5, <1>7

(* Where the cache lines of a step come from. *)
LEMMA LineSources ==
  ASSUME CacheInv, Undisturbed, [Next]_vars, NEW p \in FilePaths
  PROVE  /\ localCache'[p] \in {localCache[p], newCache[p]}
         /\ manifest'[p] \in {manifest[p], newManifest[p]}
         /\ \/ newCache'[p] \in {newCache[p], NoLine}
            \/ /\ UNCHANGED trees
               /\ \/ newCache'[p] = Line(ScanLocal(p), local[p].stamp)
                  \/ RefreshCaches /\ newCache'[p] = RefreshedLine(p)
         /\ \/ newManifest'[p] \in {newManifest[p], manifest[p], NoLine}
            \/ /\ UNCHANGED trees
               /\ \/ newManifest'[p] = Line(ScanRemote(p), remote[p].stamp)
                  \/ RefreshCaches /\ newManifest'[p] = RefreshedManifestLine(p)
<1>0. TypeOK /\ Apart /\ p \in Paths
  BY ValueFacts DEF CacheInv
<1>1. CASE UNCHANGED <<localCache, manifest, newCache, newManifest>>
  BY <1>1
<1>2. CASE StartPass
  BY <1>0, <1>2 DEF StartPass, store
<1>3. CASE PlanPass
  BY <1>0, <1>3 DEF PlanPass, store
<1>4. CASE RefreshCaches
  BY <1>0, <1>4 DEF RefreshCaches, store
<1>5. CASE SaveLocalCache
  BY <1>5 DEF SaveLocalCache
<1>6. CASE Closing /\ phase # "idle"
  <2>1. EndPass
    BY <1>0, <1>6, ClosingEnds
  <2>2. localCache' = localCache /\ manifest' \in {manifest, newManifest}
    BY <1>6 DEF Closing, FailPass, SaveManifest, AbortPass, CrashBeforeEvent, store
  <2> QED
    BY <1>0, <2>1, <2>2 DEF EndPass
<1>7. ASSUME NEW q \in Paths, Transfer(q) \/ TransferFails(q) \/ Persist(q)
      PROVE  UNCHANGED <<localCache, manifest, newCache, newManifest>>
  <2>1. Transfer(q) \/ TransferFails(q) => WorkAfter(q)
    BY <1>0, TransferWork
  <2> QED
    BY <1>7, <2>1 DEF WorkAfter, Persist, store
<1>8. UNCHANGED vars \/ (phase = "idle" /\ (Resolving \/ Editing))
        => UNCHANGED <<localCache, manifest, newCache, newManifest>>
  BY IdleRests DEF vars, store, pass
<1> QED
  BY <1>0, <1>1, <1>2, <1>3, <1>4, <1>5, <1>6, <1>7, <1>8, IdleSteps, BusySteps

LEMMA LinesStep ==
  ASSUME CacheInv, Undisturbed, [Next]_vars, NEW p \in FilePaths
  PROVE  LocalLines(p)' /\ RemoteLines(p)'
<1>0. TypeOK /\ TypeOK' /\ p \in Paths /\ LocalLines(p) /\ RemoteLines(p)
  BY ValueFacts, TypeStep DEF CacheInv, LinesFit
<1>1. /\ local[p].stamp \in Nat /\ local'[p].stamp \in Nat
      /\ remote[p].stamp \in Nat /\ remote'[p].stamp \in Nat
  BY <1>0, NodeFacts DEF TypeOK, TreesOK
<1>2. MovesOn(local[p], local'[p]) /\ MovesOn(remote[p], remote'[p])
  BY <1>0, TreesMoveOn
<1>3. ASSUME NEW line, line.stamp \in Nat, LineFits(line, local[p], local[p].data)
      PROVE  LineFits(line, local'[p], local'[p].data)
  BY <1>1, <1>2, <1>3, LineMovesOn
<1>4. ASSUME NEW line, line.stamp \in Nat,
             LineFits(line, remote[p], RemoteVersion(remote[p]))
      PROVE  LineFits(line, remote'[p], RemoteVersion(remote'[p]))
  BY <1>1, <1>2, <1>4, LineMovesOn
<1>5. /\ localCache[p].stamp \in Nat /\ newCache[p].stamp \in Nat
      /\ manifest[p].stamp \in Nat /\ newManifest[p].stamp \in Nat
      /\ localCache'[p].stamp \in Nat /\ newCache'[p].stamp \in Nat
      /\ manifest'[p].stamp \in Nat /\ newManifest'[p].stamp \in Nat
  BY <1>0 DEF TypeOK, StoreOK, PassOK, CacheLine
<1>6. \A node, v : LineFits(NoLine, node, v)
  BY DEF LineFits, NoLine
<1>7. LineFits(localCache'[p], local'[p], local'[p].data)
  BY <1>0, <1>3, <1>5, LineSources DEF LocalLines
<1>8. LineFits(manifest'[p], remote'[p], RemoteVersion(remote'[p]))
  BY <1>0, <1>4, <1>5, LineSources DEF RemoteLines
<1>9. LineFits(newCache'[p], local'[p], local'[p].data)
  <2>1. CASE newCache'[p] \in {newCache[p], NoLine}
    BY <1>0, <1>3, <1>5, <1>6, <2>1 DEF LocalLines
  <2>2. CASE /\ UNCHANGED trees
             /\ \/ newCache'[p] = Line(ScanLocal(p), local[p].stamp)
                \/ RefreshCaches /\ newCache'[p] = RefreshedLine(p)
    BY <2>2, ScannedLinesFit, RefreshedLinesFit DEF CacheInv, trees
  <2> QED
    BY <2>1, <2>2, LineSources
<1>10. LineFits(newManifest'[p], remote'[p], RemoteVersion(remote'[p]))
  <2>1. CASE newManifest'[p] \in {newManifest[p], manifest[p], NoLine}
    BY <1>0, <1>4, <1>5, <1>6, <2>1 DEF RemoteLines
  <2>2. CASE /\ UNCHANGED trees
             /\ \/ newManifest'[p] = Line(ScanRemote(p), remote[p].stamp)
                \/ RefreshCaches /\ newManifest'[p] = RefreshedManifestLine(p)
    BY <2>2, ScannedLinesFit, RefreshedLinesFit DEF CacheInv, trees
  <2> QED
    BY <2>1, <2>2, LineSources
<1>11. IsFile(remote'[p]) => remote'[p].stamp > 0
  BY <1>0, <1>1, <1>2 DEF RemoteLines, MovesOn
<1> QED
  BY <1>7, <1>8, <1>9, <1>10, <1>11 DEF LocalLines, RemoteLines, RemoteVersion

LEMMA CachesInitially == Init => CacheInv
<1> SUFFICES ASSUME Init PROVE CacheInv
  OBVIOUS
<1>1. TypeOK /\ Apart
  BY InitTyped DEF Init, Apart
<1>2. phase = "idle" /\ \A p \in FilePaths : p \in Paths /\ ~IsFile(remote[p])
  BY ValueFacts DEF Init, Fresh, IsFile
<1>3. \A node, v : LineFits(NoLine, node, v)
  BY DEF LineFits, NoLine
<1>4. \A p \in Paths : /\ localCache[p] = NoLine /\ newCache[p] = NoLine
                       /\ manifest[p] = NoLine /\ newManifest[p] = NoLine
  BY DEF Init
<1> QED
  BY <1>1, <1>2, <1>3, <1>4 DEF CacheInv, SightsOK, Sights, Transferred, LinesFit, LocalLines,
     RemoteLines

LEMMA CachesStep ==
  ASSUME Undisturbed, CacheInv, [Next]_vars
  PROVE  CacheInv'
<1>1. TypeOK' /\ Apart'
  BY TypeStep, ApartStep DEF CacheInv
<1>2. \A p \in FilePaths : Sights(p)' /\ Transferred(p)' /\ LocalLines(p)' /\ RemoteLines(p)'
  BY SightsStep, LinesStep
<1> QED
  BY <1>1, <1>2 DEF CacheInv, SightsOK, LinesFit

LEMMA CachesInvariant == ASSUME Undisturbed PROVE Spec => []CacheInv
<1>1. CacheInv /\ [Next]_vars => CacheInv'
  BY CachesStep
<1> QED
  BY <1>1, CachesInitially, PTL DEF Spec

(* While commands come one at a time and nobody edits during a pass, a     *)
(* stored cache line whose stamp matches has the version of what is there, *)
(* whatever fails or dies in a pass and however the tree is edited between *)
(* passes or during a resolution.                                          *)
THEOREM CachesStayFaithful == ASSUME Undisturbed PROVE Spec => []CachesFaithful
<1>1. CacheInv => CachesFaithful
  <2> SUFFICES ASSUME CacheInv, NEW p \in Paths
               PROVE  /\ Hit(localCache[p], local[p]) /\ IsFile(local[p])
                           => localCache[p].version = local[p].data
                      /\ Hit(manifest[p], remote[p]) /\ IsFile(remote[p])
                           => manifest[p].version = RemoteVersion(remote[p])
    BY DEF CachesFaithful
  <2>1. IsFile(local[p]) \/ IsFile(remote[p]) => p \in FilePaths
    BY NodeFacts, ValueFacts DEF CacheInv, TypeOK, TreesOK
  <2> QED
    BY <2>1 DEF CacheInv, LinesFit, LocalLines, RemoteLines, LineFits, Hit
<1> QED
  BY <1>1, CachesInvariant, PTL

-----------------------------------------------------------------------------
(* Which transfers take a file's bytes away: the one that replaces or      *)
(* deletes it, and the deletion of a directory above it.                   *)
LEMMA BytesTaken ==
  ASSUME TypeOK, NEW p \in Paths, Transfer(p) \/ TransferFails(p), NEW f \in FilePaths
  PROVE  /\ local'[f] # local[f]
              => \/ f = p /\ Ready(p, "pull_file")
                 \/ f \in Tree(p) /\ Ready(p, "delete_local")
         /\ remote'[f] # remote[f]
              => \/ f = p /\ Ready(p, "push_file")
                 \/ f \in Tree(p) /\ Ready(p, "delete_remote")
<1>1. local \in Trees /\ remote \in Trees /\ f \in Paths
  BY ValueFacts DEF TypeOK, TreesOK
<1>2. /\ MakeParents(local, p)[f] = local[f]
      /\ \A bytes : p # f => /\ Put(local, p, bytes)[f] = local[f]
                             /\ Put(remote, p, bytes)[f] = remote[f]
      /\ \A gone : f \notin gone => Drop(local, gone)[f] = local[f] /\ Drop(remote, gone)[f] = remote[f]
      /\ p \in DirPaths => MakeDir(local, p)[f] = local[f] /\ MakeDir(remote, p)[f] = remote[f]
  BY <1>1, FileInTree, ValueFacts
<1>3. CASE CreateLocalDir(p) \/ CreateRemoteDir(p)
  BY <1>2, <1>3, PlanFacts DEF CreateLocalDir, CreateRemoteDir, Ready, SetLocal, SetRemote
<1>4. CASE PullFile(p) \/ PushFile(p)
  BY <1>2, <1>4 DEF PullFile, PushFile, SetLocal, SetRemote
<1>5. CASE DeleteLocal(p) \/ DeleteRemote(p)
  BY <1>2, <1>5 DEF DeleteLocal, DeleteRemote, SetLocal, SetRemote
<1>6. CASE StatPushed(p)
  BY <1>6 DEF StatPushed, trees
<1>7. CASE SourceMissing(p)
  BY <1>2, <1>7 DEF SourceMissing, SetLocal, trees
<1>8. CASE TransferFails(p)
  <2>1. ASSUME NEW gone \in SUBSET Tree(p), SetRemote(Drop(remote, gone)), UNCHANGED local,
               Ready(p, "delete_remote")
        PROVE  remote'[f] # remote[f] => f \in Tree(p) /\ Ready(p, "delete_remote")
    BY <1>2, <2>1 DEF SetRemote
  <2>2. ASSUME NEW bytes, SetRemote(Put(remote, p, bytes)), UNCHANGED local, Ready(p, "push_file")
        PROVE  remote'[f] # remote[f] => f = p /\ Ready(p, "push_file")
    BY <1>2, <2>2 DEF SetRemote
  <2>3. \/ UNCHANGED trees
        \/ Ready(p, "pull_file") /\ SetLocal(Put(local, p, Partial))
        \/ /\ UNCHANGED local /\ Ready(p, "push_file")
           /\ \E bytes : SetRemote(Put(remote, p, bytes))
        \/ /\ UNCHANGED local /\ Ready(p, "delete_remote")
           /\ \E gone \in SUBSET Tree(p) : SetRemote(Drop(remote, gone))
    BY <1>8 DEF TransferFails
  <2> QED
    BY <1>2, <2>1, <2>2, <2>3 DEF SetLocal, trees
<1> QED
  BY <1>3, <1>4, <1>5, <1>6, <1>7, <1>8 DEF Transfer

LEMMA TreesRest ==
  ASSUME TypeOK, Apart, Undisturbed, phase = "run", [Next]_vars
  PROVE  UNCHANGED trees \/ \E p \in Paths : Transfer(p) \/ TransferFails(p)
<1>1. \A p \in Paths : Persist(p) => UNCHANGED trees
  BY DEF Persist
<1> QED
  BY <1>1, BusySteps, ClosingEnds DEF vars, PlanPass, RefreshCaches, SaveLocalCache

(* Stale-overwrite protection at the moment of the write, on both kinds of *)
(* backend: whatever transfers run beside it or fail, a pass takes bytes   *)
(* away from the remote only at the version that is the base of the path's *)
(* row, or with the directory it deletes.                                  *)
THEOREM RemoteBytesKept == ASSUME Undisturbed PROVE Spec => RemoteBytesSurvive
<1> DEFINE Kept(p) == IsFile(remote[p]) /\ remote'[p].data # remote[p].data
                        => AtBase(p) \/ \E dir \in Above[p] : Ready(dir, "delete_remote")
<1>1. ASSUME CacheInv, [Next]_vars, phase = "run", NEW f \in Paths
      PROVE  Kept(f)
  <2>0. TypeOK /\ Apart
    BY <1>1 DEF CacheInv
  <2>1. SUFFICES ASSUME IsFile(remote[f]), remote'[f].data # remote[f].data
                 PROVE  AtBase(f) \/ \E dir \in Above[f] : Ready(dir, "delete_remote")
    OBVIOUS
  <2>2. f \in FilePaths
    BY <2>0, <2>1, NodeFacts, ValueFacts DEF TypeOK, TreesOK
  <2>3. PICK p \in Paths : Transfer(p) \/ TransferFails(p)
    BY <1>1, <2>0, <2>1, TreesRest DEF trees
  <2>4. \/ f = p /\ Ready(p, "push_file")
        \/ f \in Tree(p) /\ Ready(p, "delete_remote")
    BY <2>0, <2>1, <2>2, <2>3, BytesTaken
  <2>5. CASE f = p /\ (Ready(p, "push_file") \/ Ready(p, "delete_remote"))
    <3>1. work[f] = "todo" /\ PlanFor(f).op \in {"push_file", "delete_remote"}
      BY <2>5 DEF Ready
    <3>2. seen[f].remote = File(RemoteVersion(remote[f]))
      BY <1>1, <2>1, <2>2, <3>1 DEF CacheInv, SightsOK, Sights, RemoteAsSeen
    <3>3. /\ seen[f].prev \in Records(Version)
          /\ seen[f].local \in Observations(Version) /\ seen[f].remote \in Observations(Version)
      BY <2>0 DEF TypeOK, PassOK, Input, Record, Observation
    <3>4. Seen(seen[f].remote) /\ seen[f].remote.version = RemoteVersion(remote[f])
      BY <3>2 DEF Seen, Nothing, File
    <3>5. seen[f].remote.version = seen[f].prev.base
      BY <3>1, <3>3, <3>4, RemoteWriteNeedsBase DEF PlanFor
    <3> QED
      BY <3>4, <3>5 DEF AtBase
  <2>6. CASE f \in Tree(p) /\ f # p /\ Ready(p, "delete_remote")
    <3>1. p \in Above[f]
      BY <2>6 DEF Tree
    <3> QED
      BY <2>6, <3>1
  <2> QED
    BY <2>4, <2>5, <2>6
<1>2. CacheInv /\ [Next]_vars
        => [ByPass => \A p \in Paths :
              IsFile(remote[p]) /\ remote'[p].data # remote[p].data
                => AtBase(p) \/ \E dir \in Above[p] : Ready(dir, "delete_remote")]_vars
  BY <1>1 DEF ByPass
<1> QED
  BY <1>2, CachesInvariant, PTL DEF Spec, RemoteBytesSurvive

-----------------------------------------------------------------------------
(* Where rows come from: a row stored is that of the path's plan or that   *)
(* of a resolution, a row a pass starts from is one that is stored.        *)
LEMMA RowSources ==
  ASSUME TypeOK, [Next]_vars, NEW p \in Paths
  PROVE  /\ \/ records'[p] = records[p]
            \/ phase = "save" /\ work[p] = "done" /\ records'[p] = RowAfter(p)
            \/ rsv.step = "save" /\ rsv.path = p /\ records'[p] = rsv.row
         /\ seen'[p].prev \in {seen[p].prev, records[p], NoRecord}
         /\ rsv'.step = "save" => rsv' = rsv \/ ApplyUseLocal \/ ApplyUseRemote
<1>1. records \in [Paths -> Record]
  BY DEF TypeOK, StoreOK
<1> DEFINE Recorded == \/ records'[p] = records[p]
                       \/ phase = "save" /\ work[p] = "done" /\ records'[p] = RowAfter(p)
                       \/ rsv.step = "save" /\ rsv.path = p /\ records'[p] = rsv.row
           Started == seen'[p].prev \in {seen[p].prev, records[p], NoRecord}
           Resolved == rsv'.step = "save" => rsv' = rsv \/ ApplyUseLocal \/ ApplyUseRemote
<1>2. EndPass => Started
  BY DEF EndPass, NoInput
<1>3. NoResolve.step # "save"
  BY DEF NoResolve
<1>4. CASE UNCHANGED vars
  BY <1>4 DEF vars, store, pass
<1>5. CASE StartPass
  BY <1>5 DEF StartPass, store
<1>6. CASE PlanPass
  BY <1>6 DEF PlanPass, store
<1>7. CASE RefreshCaches \/ SaveLocalCache
  BY <1>7 DEF RefreshCaches, SaveLocalCache, store
<1>8. CASE FailPass \/ AbortPass \/ SaveManifest
  BY <1>2, <1>8 DEF FailPass, AbortPass, SaveManifest, store
<1>9. CASE CrashBeforeEvent
  <2>1. CASE /\ \E q \in Paths : /\ phase = "save" /\ work[q] = "done"
                                 /\ records' = [records EXCEPT ![q] = RowAfter(q)]
             /\ EndPass /\ UNCHANGED rsv
    BY <1>1, <1>2, <2>1
  <2>2. CASE /\ rsv.step = "save"
             /\ records' = [records EXCEPT ![rsv.path] = rsv.row]
             /\ rsv' = NoResolve /\ UNCHANGED pass
    BY <1>1, <1>3, <2>2 DEF pass
  <2> QED
    BY <1>9, <2>1, <2>2 DEF CrashBeforeEvent
<1>10. ASSUME NEW q \in Paths, Transfer(q) \/ TransferFails(q)
       PROVE  Recorded /\ Started /\ Resolved
  BY <1>10, TransferWork DEF WorkAfter, store
<1>11. ASSUME NEW q \in Paths, Persist(q)
       PROVE  Recorded /\ Started /\ Resolved
  BY <1>1, <1>11 DEF Persist
<1>12. ASSUME NEW q \in Paths, NEW how, ResolveBegin(q, how)
       PROVE  Recorded /\ Started /\ Resolved
  BY <1>12 DEF ResolveBegin, store, pass
<1>13. CASE ResolveSave
  BY <1>1, <1>3, <1>13 DEF ResolveSave, pass
<1>14. CASE ResolveMissing \/ ResolveFails
  BY <1>3, <1>14 DEF ResolveMissing, ResolveFails, store, pass
<1>15. CASE ApplyUseLocal \/ ApplyUseRemote
  BY <1>15 DEF ApplyUseLocal, ApplyUseRemote, Applied, store, pass
<1>16. ASSUME NEW q \in Paths, EditLocal(q) \/ EditRemote(q)
       PROVE  Recorded /\ Started /\ Resolved
  BY <1>16 DEF EditLocal, EditRemote, Edit, store, pass
<1> QED
  BY <1>4, <1>5, <1>6, <1>7, <1>8, <1>9, <1>10, <1>11, <1>12, <1>13, <1>14, <1>15, <1>16
  DEF Next, PassStep, ResolveStep

(* A directory has no version, and its row no base. *)
DirRow(p) ==
  /\ records[p].base = None /\ seen[p].prev.base = None
  /\ rsv.step = "save" /\ rsv.path = p => rsv.row.base = None
DirRowsOK == \A p \in DirPaths : DirRow(p)

LEMMA DirRowsStep ==
  ASSUME TypeOK, DirRowsOK, [Next]_vars
  PROVE  DirRowsOK'
<1> SUFFICES ASSUME NEW p \in DirPaths PROVE DirRow(p)'
  BY DEF DirRowsOK
<1>1. p \in Paths /\ DirRow(p)
  BY ValueFacts DEF DirRowsOK
<1>2. RowAfter(p).base = None
  <2>1. /\ seen[p].prev \in Records(Version) /\ seen[p].remote \in Observations(Version)
        /\ KindFits(p, seen[p].remote)
    BY <1>1 DEF TypeOK, PassOK, Input, Record, Observation
  <2>2. seen[p].remote.version = None
    BY <2>1, ObservationFacts DEF KindFits, Kinds
  <2>3. PlanFor(p).op # "push_file"
    BY <1>1, PlanFacts, ValueFacts
  <2> QED
    BY <1>1, <2>1, <2>2, <2>3, BaseOfRow DEF RowAfter, PlanFor, DirRow
<1>3. NoRecord.base = None /\ ReadyAbsentRecord.base = None
  BY DEF NoRecord, ReadyAbsentRecord
<1>4. records'[p].base = None /\ seen'[p].prev.base = None
  BY <1>1, <1>2, <1>3, RowSources DEF DirRow
<1>5. ASSUME rsv'.step = "save", rsv'.path = p
      PROVE  rsv'.row.base = None
  <2>1. CASE rsv' = rsv
    BY <1>1, <1>5, <2>1 DEF DirRow
  <2>2. ASSUME NEW row, Applied(row)  PROVE rsv'.row = row /\ rsv.path = p
    BY <1>5, <2>2 DEF Applied
  <2>3. ASSUME rsv.step # "idle", rsv.path = p
        PROVE  rsv.local.kind # "file" /\ rsv.remote.kind # "file"
    <3>1. /\ rsv.local \in Observations(Version) /\ rsv.remote \in Observations(Version)
          /\ KindFits(p, rsv.local) /\ KindFits(p, rsv.remote)
      BY <2>3 DEF TypeOK, ResolveOK, Observation
    <3> QED
      BY <3>1, ObservationFacts DEF KindFits, Kinds
  <2>4. CASE ApplyUseLocal \/ ApplyUseRemote
    <3>1. Applied(ReadyAbsentRecord)
      BY <2>2, <2>3, <2>4 DEF ApplyUseLocal, ApplyUseRemote, Applying
    <3> QED
      BY <1>3, <2>2, <3>1
  <2> QED
    BY <1>1, <1>5, <2>1, <2>4, RowSources
<1> QED
  BY <1>4, <1>5 DEF DirRow

LEMMA DirRowsInitially == Init => DirRowsOK
BY ValueFacts DEF Init, DirRowsOK, DirRow, NoRecord, NoInput, NoResolve

-----------------------------------------------------------------------------
(***************************************************************************)
(* A backend with tokens, and nobody edits during a resolution either.     *)
(*                                                                         *)
(* A row fits its path when a ready one names a pair the remote has held,  *)
(* and a base lies in the past of the remote: strictly, where the row is   *)
(* in conflict and there is a remote file.  Else the remote could come     *)
(* back to the base, and the next pass would record as ready a local file  *)
(* that was never uploaded; without tokens that happens.                   *)
(***************************************************************************)
Tracked == Undisturbed /\ HasTokens /\ "resolve" \in Quiet

SaneRow(history, node, row) ==
  /\ row.state = "untracked" => ~row.present
  /\ row.base # None => row.base \in Nat /\ row.base <= node.stamp
  /\ row.state = "ready" /\ row.present => <<row.base, row.last>> \in history
  /\ row.state = "conflict" /\ row.base # None /\ IsFile(node) => row.base < node.stamp

Sane(p, row) == SaneRow(uploaded[p], remote[p], row)
RowsSane(p) ==
  /\ Sane(p, records[p]) /\ Sane(p, seen[p].prev)
  /\ phase \in {"run", "save"} /\ work[p] = "done" => Sane(p, RowAfter(p))
  /\ rsv.step = "save" /\ rsv.path = p => Sane(p, rsv.row)
Inspected(p) ==
  rsv.step = "apply" /\ rsv.path = p
    => /\ IsFile(local[p]) => rsv.local = File(local[p].data)
       /\ IsFile(remote[p]) => rsv.remote = File(RemoteVersion(remote[p]))

RowInv ==
  /\ CacheInv /\ DirRowsOK /\ RemoteHeld
  /\ \A p \in FilePaths : RowsSane(p) /\ Inspected(p)

LEMMA SaneMovesOn ==
  ASSUME NEW history, NEW later, history \subseteq later,
         NEW before, NEW after, before.stamp \in Nat, after.stamp \in Nat, MovesOn(before, after),
         NEW row, SaneRow(history, before, row)
  PROVE  SaneRow(later, after, row)
<1>1. row.base # None => row.base \in Nat /\ row.base <= after.stamp
  BY DEF SaneRow, MovesOn
<1>2. row.state = "conflict" /\ row.base # None /\ IsFile(after) => row.base < after.stamp
  BY DEF SaneRow, MovesOn
<1> QED
  BY <1>1, <1>2 DEF SaneRow

(* The rows with nothing in them. *)
LEMMA EmptyRowsSane ==
  ASSUME NEW history, NEW node
  PROVE  SaneRow(history, node, NoRecord) /\ SaneRow(history, node, ReadyAbsentRecord)
BY DEF SaneRow, NoRecord, ReadyAbsentRecord

LEMMA ReadyRowSane ==
  ASSUME NEW history, NEW node, NEW last, NEW base \in Nat, base <= node.stamp,
         <<base, last>> \in history
  PROVE  SaneRow(history, node, ReadyRecord("file", last, base))
BY DEF SaneRow, ReadyRecord

(* Without a transfer a pass keeps a row sane. *)
LEMMA KeptRowSane ==
  ASSUME HasTokens, NEW history, NEW node, node.stamp \in Nat,
         NEW prev \in Records(Version), NEW mine, NEW theirs, NEW pulled,
         Seen(mine) => mine.kind = "file", Seen(theirs) => theirs.kind = "file",
         Seen(theirs) <=> IsFile(node), Seen(theirs) => theirs.version = node.stamp,
         SaneRow(history, node, prev), Plan(prev, mine, theirs).op = "none"
  PROVE  SaneRow(history, node, Materialize(Plan(prev, mine, theirs), mine, theirs, pulled))
<1> DEFINE plan == Plan(prev, mine, theirs)
           row == Materialize(plan, mine, theirs, pulled)
<1>1. PlanOutcome(plan, prev, mine, theirs)
  BY PlanCases
<1>2. prev.state \in {"untracked", "ready", "conflict"} /\ prev.present \in BOOLEAN
  BY DEF Records
<1>3. node.stamp # None
  BY ValuesAssumption
<1>4. CASE plan = NoPlan
  <2>1. row = NoRecord
    BY <1>4 DEF Materialize, NoPlan, PlanOf
  <2> QED
    BY <2>1, EmptyRowsSane
<1>5. ASSUME NEW r, plan = Conflict(r) \/ plan = Keep(r)
      PROVE  row = r
  BY <1>5 DEF Materialize, Conflict, Keep, PlanOf
<1>6. ASSUME NEW r, row = r, r.state = "conflict", r.base = prev.base,
             IsFile(node) => RemoteChanged(prev, theirs)
      PROVE  SaneRow(history, node, row)
  <2>1. prev.base # None => prev.base \in Nat /\ prev.base <= node.stamp
    BY DEF SaneRow
  <2>2. IsFile(node) => prev.base # node.stamp
    BY <1>6 DEF RemoteChanged
  <2> HIDE DEF row
  <2> QED
    BY <1>6, <2>1, <2>2 DEF SaneRow
<1>7. CASE plan = Conflict(ConflictRecord(prev, mine, theirs)) /\ RemoteChanged(prev, theirs)
  <2>1. /\ ConflictRecord(prev, mine, theirs).state = "conflict"
        /\ ConflictRecord(prev, mine, theirs).base = prev.base
    BY DEF ConflictRecord
  <2> QED
    BY <1>5, <1>6, <1>7, <2>1
<1>8. ASSUME NEW kind, NEW here, NEW v, plan = Conflict(AbsentConflictRecord(prev, kind, here, v)),
             IsFile(node) => RemoteChanged(prev, theirs)
      PROVE  SaneRow(history, node, row)
  <2>1. /\ AbsentConflictRecord(prev, kind, here, v).state = "conflict"
        /\ AbsentConflictRecord(prev, kind, here, v).base = prev.base
    BY DEF AbsentConflictRecord
  <2> QED
    BY <1>5, <1>6, <1>8, <2>1
<1>9. CASE /\ plan = Keep(ReadyRecord(mine.kind, mine.version, theirs.version))
           /\ Seen(mine) /\ Seen(theirs) /\ ~LocalChanged(prev, mine)
           /\ ~RemoteChanged(prev, theirs)
  <2>1. prev.present /\ prev.last = mine.version /\ prev.base = node.stamp
        /\ theirs.version = node.stamp /\ mine.kind = "file" /\ IsFile(node)
    BY <1>2, <1>9 DEF LocalChanged, RemoteChanged
  <2>2. prev.state = "ready"
    BY <1>2, <1>3, <2>1 DEF SaneRow
  <2>3. <<node.stamp, mine.version>> \in history
    BY <2>1, <2>2 DEF SaneRow
  <2>4. row = ReadyRecord("file", mine.version, node.stamp)
    BY <1>5, <1>9, <2>1
  <2> HIDE DEF row
  <2>5. node.stamp <= node.stamp
    OBVIOUS
  <2>6. SaneRow(history, node, ReadyRecord("file", mine.version, node.stamp))
    BY <2>3, <2>5, ReadyRowSane
  <2> QED
    BY <2>4, <2>6 DEF row
<1>10. plan # Push(mine) /\ plan # Pull(theirs) /\ \A op \in {"delete_local", "delete_remote"} : plan # Delete(op)
  BY OpsOfPlans
<1> HIDE DEF plan, row
<1> QED
  BY <1>1, <1>4, <1>7, <1>8, <1>9, <1>10 DEF PlanOutcome, plan, row

(* The row of each transfer. *)
LEMMA RowOfTransfer ==
  ASSUME NEW V, NEW prev \in Records(V), NEW mine, NEW theirs, NEW pulled
  PROVE  LET plan == Plan(prev, mine, theirs)
             row == Materialize(plan, mine, theirs, pulled)
         IN  /\ plan.op = "pull_file" => row = ReadyRecord("file", pulled, theirs.version)
             /\ plan.op = "push_file" /\ pulled # None
                  => row = ReadyRecord("file", mine.version, pulled)
             /\ plan.op \in {"delete_local", "delete_remote"} => row = NoRecord
<1> DEFINE plan == Plan(prev, mine, theirs)
           row == Materialize(plan, mine, theirs, pulled)
<1>1. PlanOutcome(plan, prev, mine, theirs)
  BY PlanCases
<1>2. CASE plan = NoPlan \/ (\E r : plan = Keep(r) \/ plan = Conflict(r))
  <2>1. plan.op = "none"
    BY <1>2, OpsOfPlans
  <2> QED
    BY <2>1
<1>3. CASE plan = Push(mine)
  BY <1>3 DEF Push, PlanOf, Materialize
<1>4. CASE plan = Pull(theirs)
  BY <1>4 DEF Pull, PlanOf, Materialize
<1>5. CASE \E op \in {"delete_local", "delete_remote"} : plan = Delete(op)
  BY <1>5 DEF Delete, PlanOf, Materialize
<1> HIDE DEF plan, row
<1> QED
  BY <1>1, <1>2, <1>3, <1>4, <1>5 DEF PlanOutcome, plan, row

(* What the pass knows of a file's path when it starts to transfer. *)
LEMMA SightsTyped ==
  ASSUME TypeOK, NEW p \in FilePaths
  PROVE  /\ p \in Paths
         /\ seen[p].prev \in Records(Version)
         /\ seen[p].local \in Observations(Version) /\ seen[p].remote \in Observations(Version)
         /\ Seen(seen[p].local) => seen[p].local.kind = "file"
         /\ Seen(seen[p].remote) => seen[p].remote.kind = "file"
<1>1. p \in Paths /\ p \notin DirPaths
  BY ValueFacts
<1>2. /\ seen[p].prev \in Records(Version)
      /\ seen[p].local \in Observations(Version) /\ seen[p].remote \in Observations(Version)
      /\ KindFits(p, seen[p].local) /\ KindFits(p, seen[p].remote)
  BY <1>1 DEF TypeOK, PassOK, Input, Record, Observation
<1> QED
  BY <1>1, <1>2, ObservationFacts DEF KindFits, Kinds

(* The row a pass is going to store is sane once its transfer is done.     *)
LEMMA DueRowsStep ==
  ASSUME RowInv, Tracked, [Next]_vars, NEW f \in FilePaths,
         phase' \in {"run", "save"}, work'[f] = "done"
  PROVE  SaneRow(uploaded'[f], remote'[f], RowAfter(f)')
<1>0. /\ TypeOK /\ TypeOK' /\ Apart /\ RowsSane(f) /\ Sights(f) /\ Transferred(f)
      /\ Transferred(f)' /\ RemoteHeld /\ RemoteHeld' /\ f \in Paths /\ CacheInv
  BY ValueFacts, TypeStep, SightsStep, HistoryGrows DEF RowInv, CacheInv, SightsOK, Tracked
<1>1. /\ remote[f].stamp \in Nat /\ remote'[f].stamp \in Nat
      /\ uploaded[f] \subseteq uploaded'[f] /\ MovesOn(remote[f], remote'[f])
  BY <1>0, NodeFacts, HistoryGrows, TreesMoveOn DEF TypeOK, TreesOK
<1>2. ASSUME NEW row, Sane(f, row)  PROVE SaneRow(uploaded'[f], remote'[f], row)
  BY <1>1, <1>2, SaneMovesOn DEF Sane
<1>3. ASSUME UNCHANGED <<seen, got>>  PROVE RowAfter(f)' = RowAfter(f)
  BY <1>3 DEF RowAfter, PlanFor
<1>4. ASSUME phase \in {"run", "save"}, work[f] = "done", RowAfter(f)' = RowAfter(f)
      PROVE  SaneRow(uploaded'[f], remote'[f], RowAfter(f)')
  BY <1>0, <1>2, <1>4 DEF RowsSane
<1>5. CASE UNCHANGED vars
  BY <1>3, <1>4, <1>5 DEF vars, pass
<1>6. CASE RefreshCaches
  BY <1>3, <1>4, <1>6 DEF RefreshCaches, Finished
<1>7. ASSUME NEW p \in Paths, Persist(p)  PROVE SaneRow(uploaded'[f], remote'[f], RowAfter(f)')
  <2>1. UNCHANGED <<phase, seen, got>> /\ work' = [work EXCEPT ![p] = "saved"]
    BY <1>7 DEF Persist
  <2>2. work[f] = "done"
    BY <1>0, <2>1 DEF TypeOK, PassOK
  <2> QED
    BY <1>3, <1>4, <2>1, <2>2
<1>8. CASE PlanPass
  <2>1. /\ uploaded' = uploaded /\ remote' = remote /\ PlanFor(f)'.op = "none"
        /\ seen'[f].prev = seen[f].prev /\ seen'[f].local = seen[f].local
        /\ seen'[f].remote = ScanRemote(f)
    BY <1>0, <1>8 DEF PlanPass, trees
  <2>2. /\ seen'[f].prev \in Records(Version)
        /\ Seen(seen'[f].local) => seen'[f].local.kind = "file"
        /\ seen'[f].remote \in Observations(Version)
    BY <1>0, <2>1, SightsTyped, ScansTyped DEF Observation
  <2>3. /\ IsFile(remote[f]) => ScanRemote(f) = File(remote[f].stamp)
        /\ ScanRemote(f).kind = "file" <=> IsFile(remote[f])
    BY <1>0, ScansTrue DEF CacheInv, RemoteVersion, Tracked
  <2>4. /\ Seen(seen'[f].remote) <=> IsFile(remote[f])
        /\ Seen(seen'[f].remote) => seen'[f].remote.version = remote[f].stamp
        /\ Seen(seen'[f].remote) => seen'[f].remote.kind = "file"
    <3>1. KindFits(f, ScanRemote(f)) /\ f \notin DirPaths
      BY <1>0, ScansTyped, ValueFacts
    <3>2. Seen(seen'[f].remote) <=> seen'[f].remote.kind = "file"
      BY <2>1, <2>2, <3>1, ObservationFacts DEF KindFits, Kinds
    <3> QED
      BY <2>1, <2>3, <3>2 DEF File
  <2>5. SaneRow(uploaded[f], remote[f], seen'[f].prev)
    BY <1>0, <2>1 DEF RowsSane, Sane
  <2>6. Plan(seen'[f].prev, seen'[f].local, seen'[f].remote).op = "none"
    BY <2>1 DEF PlanFor
  <2>7. SaneRow(uploaded[f], remote[f],
          Materialize(Plan(seen'[f].prev, seen'[f].local, seen'[f].remote),
                      seen'[f].local, seen'[f].remote, got'[f]))
    BY <1>1, <2>2, <2>4, <2>5, <2>6, KeptRowSane DEF Tracked
  <2> QED
    BY <2>1, <2>7 DEF RowAfter, PlanFor
<1>9. ASSUME NEW p \in Paths, Transfer(p) \/ TransferFails(p)
      PROVE  SaneRow(uploaded'[f], remote'[f], RowAfter(f)')
  <2>1. WorkAfter(p) /\ LocalAfter(p, f) /\ RemoteAfter(p, f)
    BY <1>0, <1>9, TransferWork, TransferLocal, TransferRemote
  <2>2. phase = "run" /\ phase' = "run" /\ UNCHANGED seen /\ PlanFor(f)' = PlanFor(f)
    BY <2>1 DEF WorkAfter, PlanFor
  <2>3. CASE f # p
    <3>1. work[f] = "done" /\ got'[f] = got[f]
      BY <1>0, <2>1, <2>3 DEF WorkAfter
    <3>2. RowAfter(f)' = RowAfter(f)
      BY <2>2, <3>1 DEF RowAfter
    <3> QED
      BY <1>4, <2>2, <3>1, <3>2
  <2>4. CASE f = p
    <3> DEFINE op == PlanFor(f).op
    <3>0. /\ seen[f].prev \in Records(Version)
          /\ RowAfter(f)' = Materialize(PlanFor(f), seen[f].local, seen[f].remote, got'[f])
      BY <1>0, <2>2, SightsTyped DEF RowAfter
    <3>1. op \in {"pull_file", "push_file", "delete_local", "delete_remote"}
      <4>1. op \in Ops /\ op # "none" /\ op \notin {"create_local_dir", "create_remote_dir"}
        BY <1>0, <2>1, <2>4, PlanFacts, ValueFacts DEF WorkAfter, Plans
      <4> QED
        BY <4>1 DEF Ops
    <3>2. CASE op = "pull_file"
      <4>1. /\ PullFile(p)
        BY <1>0, <1>9, <2>4, <3>2 DEF Transfer, CreateLocalDir, CreateRemoteDir, PushFile,
           StatPushed, DeleteLocal, DeleteRemote, SourceMissing, TransferFails, Finish, Ready,
           TypeOK, PassOK
      <4>2. /\ IsFile(remote[f]) /\ work[f] = "todo" /\ Finish(f, "done", remote[f].data)
            /\ remote' = remote /\ uploaded' = uploaded
        BY <2>4, <4>1 DEF PullFile, Ready, SetLocal
      <4>3. got'[f] = remote[f].data
        BY <1>0, <4>2 DEF Finish, TypeOK, PassOK
      <4>4. seen[f].remote.version = remote[f].stamp
        BY <1>0, <2>2, <4>2 DEF Sights, RemoteAsSeen, File, RemoteVersion, Tracked
      <4>5. <<remote[f].stamp, remote[f].data>> \in uploaded'[f]
        BY <1>0, <4>2 DEF RemoteHeld, RemoteVersion, Tracked
      <4>6. RowAfter(f)' = ReadyRecord("file", remote[f].data, remote[f].stamp)
        BY <3>0, <3>2, <4>3, <4>4, RowOfTransfer DEF PlanFor
      <4>7. SaneRow(uploaded'[f], remote'[f], ReadyRecord("file", remote[f].data, remote[f].stamp))
        <5>1. remote[f].stamp <= remote'[f].stamp
          BY <1>1, <4>2
        <5> QED
          BY <1>1, <4>5, <5>1, ReadyRowSane
      <4> QED
        BY <4>6, <4>7
    <3>3. CASE op = "push_file"
      <4>1. IsFile(remote'[f]) /\ got'[f] = remote'[f].stamp
        BY <2>1, <2>4, <3>3 DEF WorkAfter, Tracked
      <4>2. remote'[f].data = seen[f].local.version
        BY <1>0, <2>2, <3>3, <4>1 DEF Transferred
      <4>3. <<remote'[f].stamp, remote'[f].data>> \in uploaded'[f]
        BY <1>0, <4>1 DEF RemoteHeld, RemoteVersion, Tracked
      <4>4. got'[f] # None
        BY <1>1, <4>1, ValuesAssumption
      <4>5. RowAfter(f)' = ReadyRecord("file", seen[f].local.version, got'[f])
        BY <3>0, <3>3, <4>4, RowOfTransfer DEF PlanFor
      <4>6. SaneRow(uploaded'[f], remote'[f],
                    ReadyRecord("file", seen[f].local.version, remote'[f].stamp))
        <5>1. remote'[f].stamp <= remote'[f].stamp
          BY <1>1
        <5> QED
          BY <1>1, <4>2, <4>3, <5>1, ReadyRowSane
      <4> QED
        BY <4>1, <4>5, <4>6
    <3>4. CASE op \in {"delete_local", "delete_remote"}
      <4>1. RowAfter(f)' = NoRecord
        BY <3>0, <3>4, RowOfTransfer DEF PlanFor
      <4> QED
        BY <4>1, EmptyRowsSane
    <3> QED
      BY <3>1, <3>2, <3>3, <3>4
  <2> QED
    BY <2>3, <2>4
<1>10. phase = "idle" => UNCHANGED vars
  BY <1>0, IdleSteps, IdleRests DEF pass, StartPass
<1>11. phase # "idle" =>
         \/ UNCHANGED vars \/ PlanPass \/ RefreshCaches
         \/ \E p \in Paths : Transfer(p) \/ TransferFails(p) \/ Persist(p)
  BY <1>0, BusySteps, ClosingEnds DEF SaveLocalCache, EndPass, Tracked
<1> QED
  BY <1>5, <1>6, <1>7, <1>8, <1>9, <1>10, <1>11

(* What a resolution is going to store, and what it saw of the file.       *)
LEMMA ResolvedRowStep ==
  ASSUME RowInv, Tracked, [Next]_vars, NEW f \in FilePaths,
         rsv'.step = "save", rsv'.path = f
  PROVE  SaneRow(uploaded'[f], remote'[f], rsv'.row)
<1>0. /\ TypeOK /\ TypeOK' /\ RowsSane(f) /\ Inspected(f)
      /\ RemoteHeld /\ RemoteHeld' /\ f \in Paths
  BY ValueFacts, TypeStep, HistoryGrows DEF RowInv, CacheInv
<1>1. /\ remote[f].stamp \in Nat /\ remote'[f].stamp \in Nat
      /\ uploaded[f] \subseteq uploaded'[f] /\ MovesOn(remote[f], remote'[f])
      /\ local \in Trees /\ remote \in Trees
  BY <1>0, NodeFacts, HistoryGrows, TreesMoveOn DEF TypeOK, TreesOK
<1>2. CASE rsv' = rsv
  BY <1>0, <1>1, <1>2, SaneMovesOn DEF RowsSane, Sane
<1>3. ASSUME NEW row, Applied(row)  PROVE rsv'.row = row /\ rsv.path = f
  BY <1>3 DEF Applied
<1>4. CASE Applied(ReadyAbsentRecord)
  BY <1>3, <1>4, EmptyRowsSane
<1>5. CASE ApplyUseLocal /\ ~Applied(ReadyAbsentRecord)
  <2>1. /\ rsv.step = "apply" /\ IsFile(local[f]) /\ remote' = Put(remote, f, local[f].data)
        /\ Applied(ReadyRecord("file", rsv.local.version, remote'[f].stamp))
    BY <1>3, <1>5 DEF ApplyUseLocal, Applying, SetRemote, Tracked, Applied
  <2>2. rsv.path = f
    BY <1>3, <2>1
  <2>3. rsv.local.version = local[f].data
    BY <1>0, <2>1, <2>2 DEF Inspected, File
  <2>4. remote'[f] = Written(remote[f], local[f].data)
    BY <1>0, <1>1, <2>1, FileInTree
  <2>5. remote'[f].data = local[f].data
    BY <2>4 DEF Written
  <2>6. <<remote'[f].stamp, local[f].data>> \in uploaded'[f]
    BY <1>0, <2>1, <2>5 DEF RemoteHeld, RemoteVersion, IsFile, Tracked
  <2>7. remote'[f].stamp <= remote'[f].stamp
    BY <1>1
  <2>8. SaneRow(uploaded'[f], remote'[f], ReadyRecord("file", local[f].data, remote'[f].stamp))
    BY <1>1, <2>6, <2>7, ReadyRowSane
  <2> QED
    BY <1>3, <2>1, <2>3, <2>8
<1>6. CASE ApplyUseRemote /\ ~Applied(ReadyAbsentRecord)
  <2>1. /\ rsv.step = "apply" /\ IsFile(remote[f]) /\ remote' = remote /\ uploaded' = uploaded
        /\ Applied(ReadyRecord("file", remote[f].data, rsv.remote.version))
    BY <1>3, <1>6 DEF ApplyUseRemote, Applying, SetLocal, Applied
  <2>2. rsv.remote.version = remote[f].stamp
    BY <1>0, <1>3, <2>1 DEF Inspected, File, RemoteVersion, Tracked
  <2>3. <<remote[f].stamp, remote[f].data>> \in uploaded'[f]
    BY <1>0, <2>1 DEF RemoteHeld, RemoteVersion, Tracked
  <2>4. remote[f].stamp <= remote'[f].stamp
    BY <1>1, <2>1
  <2>5. SaneRow(uploaded'[f], remote'[f], ReadyRecord("file", remote[f].data, remote[f].stamp))
    BY <1>1, <2>3, <2>4, ReadyRowSane
  <2> QED
    BY <1>3, <2>1, <2>2, <2>5
<1> QED
  BY <1>0, <1>2, <1>4, <1>5, <1>6, RowSources

LEMMA InspectedStep ==
  ASSUME RowInv, Tracked, [Next]_vars, NEW f \in FilePaths
  PROVE  Inspected(f)'
<1> SUFFICES ASSUME rsv'.step = "apply", rsv'.path = f
             PROVE  /\ IsFile(local'[f]) => rsv'.local = File(local'[f].data)
                    /\ IsFile(remote'[f]) => rsv'.remote = File(RemoteVersion(remote'[f]))
  BY DEF Inspected, RemoteVersion
<1>0. TypeOK /\ Apart /\ Apart' /\ Inspected(f) /\ f \in Paths /\ local \in Trees /\ remote \in Trees
  BY ValueFacts, ApartStep DEF RowInv, CacheInv, TypeOK, TreesOK, Tracked
<1>1. phase' = "idle"
  BY <1>0 DEF Apart
<1>2. CASE UNCHANGED <<rsv, local, remote>>
  BY <1>0, <1>2 DEF Inspected, RemoteVersion
<1>3. ASSUME NEW p \in Paths, NEW how, ResolveBegin(p, how)
      PROVE  /\ IsFile(local'[f]) => rsv'.local = File(local'[f].data)
             /\ IsFile(remote'[f]) => rsv'.remote = File(RemoteVersion(remote'[f]))
  <2>1. /\ p = f /\ rsv'.local = InspectLocal(f) /\ rsv'.remote = InspectRemote(f)
        /\ local' = local /\ remote' = remote
    BY <1>3 DEF ResolveBegin, trees
  <2> QED
    BY <1>0, <2>1, NodeFacts DEF InspectLocal, InspectRemote, Observe
<1>4. CASE phase = "idle" /\ ~UNCHANGED vars
  <2>1. ~StartPass
    BY <1>1 DEF StartPass
  <2>2. ~(ResolveStep \/ ResolveFails \/ CrashBeforeEvent)
    <3>1. NoResolve.step = "idle"
      BY DEF NoResolve
    <3>2. CrashBeforeEvent => rsv' = NoResolve
      BY <1>4 DEF CrashBeforeEvent
    <3> QED
      BY <3>1, <3>2 DEF ResolveStep, ApplyUseLocal, ApplyUseRemote, ResolveSave, ResolveMissing,
         ResolveFails, Applied
  <2>3. ~Editing
    <3>1. Editing => rsv.step = "idle" /\ rsv' = rsv
      BY DEF Editing, EditLocal, EditRemote, Edit, Tracked
    <3> QED
      BY <3>1
  <2> QED
    BY <1>0, <1>3, <1>4, <2>1, <2>2, <2>3, IdleSteps DEF Resolving
<1>5. CASE phase # "idle"
  <2>1. UNCHANGED rsv
    <3>1. ASSUME NEW p \in Paths, Transfer(p) \/ TransferFails(p) \/ Persist(p)
          PROVE  UNCHANGED rsv
      BY <1>0, <3>1, TransferWork DEF WorkAfter, Persist
    <3> QED
      BY <1>0, <1>5, <3>1, BusySteps, ClosingEnds DEF vars, PlanPass, RefreshCaches,
         SaveLocalCache, Tracked
  <2> QED
    BY <1>0, <1>5, <2>1 DEF Apart
<1> QED
  BY <1>2, <1>4, <1>5 DEF vars, trees

LEMMA RowsStep ==
  ASSUME Tracked, RowInv, [Next]_vars
  PROVE  RowInv'
<1>0. TypeOK /\ CacheInv /\ Undisturbed /\ DirRowsOK /\ RemoteHeld
  BY DEF RowInv, CacheInv, Tracked
<1>1. CacheInv' /\ DirRowsOK' /\ RemoteHeld'
  BY <1>0, CachesStep, DirRowsStep, HistoryGrows
<1>2. ASSUME NEW f \in FilePaths  PROVE RowsSane(f)'
  <2>0. f \in Paths /\ RowsSane(f) /\ TypeOK'
    BY <1>1, ValueFacts DEF RowInv, CacheInv
  <2>1. /\ remote[f].stamp \in Nat /\ remote'[f].stamp \in Nat
        /\ uploaded[f] \subseteq uploaded'[f] /\ MovesOn(remote[f], remote'[f])
    BY <1>0, <2>0, NodeFacts, HistoryGrows, TreesMoveOn DEF TypeOK, TreesOK
  <2>2. ASSUME NEW row, SaneRow(uploaded[f], remote[f], row)
        PROVE  SaneRow(uploaded'[f], remote'[f], row)
    BY <2>1, <2>2, SaneMovesOn
  <2>3. SaneRow(uploaded'[f], remote'[f], records'[f])
    BY <1>0, <2>0, <2>2, RowSources DEF RowsSane, Sane
  <2>4. SaneRow(uploaded'[f], remote'[f], seen'[f].prev)
    BY <1>0, <2>0, <2>2, RowSources, EmptyRowsSane DEF RowsSane, Sane
  <2>5. phase' \in {"run", "save"} /\ work'[f] = "done"
          => SaneRow(uploaded'[f], remote'[f], RowAfter(f)')
    BY DueRowsStep
  <2>6. rsv'.step = "save" /\ rsv'.path = f => SaneRow(uploaded'[f], remote'[f], rsv'.row)
    BY ResolvedRowStep
  <2> QED
    BY <2>3, <2>4, <2>5, <2>6 DEF RowsSane, Sane
<1>3. \A f \in FilePaths : Inspected(f)'
  BY InspectedStep
<1> QED
  BY <1>1, <1>2, <1>3 DEF RowInv

LEMMA RowsInitially == Init => RowInv
<1> SUFFICES ASSUME Init PROVE RowInv
  OBVIOUS
<1>1. CacheInv /\ DirRowsOK
  BY CachesInitially, DirRowsInitially
<1>2. RemoteHeld
  BY ValueFacts DEF Init, Fresh, RemoteHeld, IsFile
<1>3. ASSUME NEW f \in FilePaths  PROVE RowsSane(f) /\ Inspected(f)
  <2>1. /\ records[f] = NoRecord /\ seen[f].prev = NoRecord /\ phase = "idle"
        /\ rsv.step = "idle"
    BY ValueFacts DEF Init, NoInput, NoResolve
  <2> QED
    BY <2>1, EmptyRowsSane DEF RowsSane, Inspected, Sane
<1> QED
  BY <1>1, <1>2, <1>3 DEF RowInv

LEMMA RowsInvariant == ASSUME Tracked PROVE Spec => []RowInv
<1>1. RowInv /\ [Next]_vars => RowInv'
  BY RowsStep
<1> QED
  BY <1>1, RowsInitially, PTL DEF Spec

(* On a backend with tokens, and while nobody edits during a command, a    *)
(* row that says a file is ready names two versions of one content,        *)
(* whatever was transferred, failed, died or was resolved before           *)
(* (ready_record, materialize_record).                                     *)
THEOREM ReadyRowsAgree == ASSUME Tracked PROVE Spec => []ReadyRecordsAgree
<1>1. RowInv => ReadyRecordsAgree
  BY DEF RowInv, RowsSane, Sane, SaneRow, ReadyRecordsAgree
<1> QED
  BY <1>1, RowsInvariant, PTL

(* Then a pass takes local bytes away only when they are those the row     *)
(* recorded as uploaded, or when the row was in conflict.                  *)
THEOREM LocalBytesKept == ASSUME Tracked PROVE Spec => LocalBytesSurvive
<1> DEFINE Known(p) == \/ <<seen[p].prev.base, local[p].data>> \in uploaded[p]
                       \/ seen[p].prev.state = "conflict"
           Kept == \A p \in Paths :
                     local[p].data \in Content /\ local'[p].data # local[p].data => Known(p)
<1>1. ASSUME RowInv, [Next]_vars, phase = "run", NEW f \in Paths,
             local[f].data \in Content, local'[f].data # local[f].data
      PROVE  Known(f)
  <2>0. TypeOK /\ Apart /\ Undisturbed /\ IsFile(local[f])
    BY <1>1, ValueFacts DEF RowInv, CacheInv, IsFile, Tracked
  <2>2. f \in FilePaths
    BY <2>0, NodeFacts, ValueFacts DEF TypeOK, TreesOK
  <2>3. PICK p \in Paths : Transfer(p) \/ TransferFails(p)
    BY <1>1, <2>0, TreesRest DEF trees
  <2>4. \/ f = p /\ Ready(p, "pull_file")
        \/ f \in Tree(p) /\ Ready(p, "delete_local")
    BY <1>1, <2>0, <2>2, <2>3, BytesTaken
  <2>5. Ready(p, "delete_local") => p \in FilePaths
    <3>1. SUFFICES ASSUME Ready(p, "delete_local"), p \in DirPaths  PROVE FALSE
      BY <2>3, ValueFacts
    <3>2. seen[p].prev \in Records(Version) /\ seen[p].prev.base = None
      BY <1>1, <2>0, <2>3, <3>1 DEF RowInv, DirRowsOK, DirRow, TypeOK, PassOK, Input, Record
    <3>3. PlanOutcome(PlanFor(p), seen[p].prev, seen[p].local, seen[p].remote)
      BY <3>2, PlanCases DEF PlanFor
    <3>4. PlanFor(p).op # "delete_local"
      BY <3>2, <3>3, OpsOfPlans DEF PlanOutcome
    <3> QED
      BY <3>1, <3>4 DEF Ready
  <2>6. f = p /\ (Ready(f, "pull_file") \/ Ready(f, "delete_local"))
    BY <2>0, <2>2, <2>3, <2>4, <2>5, FileInTree DEF TypeOK, TreesOK
  <2>7. work[f] = "todo" /\ PlanFor(f).op \in {"pull_file", "delete_local"}
    BY <2>6 DEF Ready
  <2>8. seen[f].local = File(local[f].data)
    BY <1>1, <2>0, <2>2, <2>7 DEF RowInv, CacheInv, SightsOK, Sights, LocalAsSeen
  <2>9. Seen(seen[f].local) /\ seen[f].local.version = local[f].data
    BY <2>8 DEF Seen, Nothing, File
  <2>10. /\ seen[f].prev \in Records(Version)
         /\ seen[f].local \in Observations(Version) /\ seen[f].remote \in Observations(Version)
    BY <2>0, <2>2, SightsTyped
  <2>11. seen[f].prev.present /\ seen[f].prev.last = local[f].data
    BY <2>7, <2>9, <2>10, LocalWriteNeedsLast DEF PlanFor
  <2>12. seen[f].prev.state \in {"untracked", "ready", "conflict"}
    BY <2>10 DEF Records
  <2>13. SaneRow(uploaded[f], remote[f], seen[f].prev)
    BY <1>1, <2>2 DEF RowInv, RowsSane, Sane
  <2> QED
    BY <2>11, <2>12, <2>13 DEF SaneRow
<1>2. RowInv /\ [Next]_vars => [ByPass => Kept]_vars
  BY <1>1 DEF ByPass
<1> QED
  BY <1>2, RowsInvariant, PTL DEF Spec, LocalBytesSurvive

-----------------------------------------------------------------------------
(***************************************************************************)
(* Events of a flat source: no transfer touches the file of another, so    *)
(* none finds its source gone, and as long as nothing is made to fail      *)
(* every pass that starts announces what it has stored.                    *)
(***************************************************************************)
Flat == Undisturbed /\ DirPaths = {}

HonestAt(p) ==
  watch[p] # "syncing" /\ (records[p].state = "conflict" => watch[p] = "conflict")

Told(p) ==
  /\ phase \in {"idle", "listing", "manifest"} => HonestAt(p)
  /\ phase = "listing" => (seen[p].local.kind = "file" => IsFile(local[p]))
  /\ phase = "run" =>
       /\ work[p] \notin {"failed", "saved"}
       /\ work[p] = "todo" /\ PlanFor(p).op = "push_file" => IsFile(local[p])
       /\ work[p] = "todo" /\ PlanFor(p).op = "pull_file" => IsFile(remote[p])
       /\ work[p] = "stat" => Exists(remote[p])
  /\ phase \in {"run", "save"} =>
       IF work[p] = "saved" THEN HonestAt(p)
                            ELSE PlanFor(p).op = "none" => watch[p] # "syncing"
WatchInv ==
  /\ CacheInv /\ (rsv.step = "save" => rsv.row.state = "ready")
  /\ faults = 0 => \A p \in Paths : Told(p)

(* The event a plan has and the row it leaves say the same of a conflict,  *)
(* and a plan with a transfer has an event.                                *)
LEMMA EventOfPlan ==
  ASSUME NEW V, NEW prev \in Records(V), NEW mine, NEW theirs, NEW pulled
  PROVE  LET plan == Plan(prev, mine, theirs)
             row == Materialize(plan, mine, theirs, pulled)
         IN  /\ plan.announce \in {"none", "ready", "conflict"}
             /\ row.state = "conflict" => plan.announce = "conflict"
             /\ plan.announce = "none" => plan.op = "none"
<1> DEFINE plan == Plan(prev, mine, theirs)
           row == Materialize(plan, mine, theirs, pulled)
<1>1. PlanOutcome(plan, prev, mine, theirs)
  BY PlanCases
<1>2. NoRecord.state # "conflict" /\ \A k, l, r : ReadyRecord(k, l, r).state # "conflict"
  BY DEF NoRecord, ReadyRecord
<1>3. CASE plan = NoPlan
  BY <1>2, <1>3 DEF NoPlan, PlanOf, Materialize
<1>4. CASE \E r : plan = Conflict(r)
  BY <1>4 DEF Conflict, PlanOf
<1>5. CASE \E k, l, r : plan = Keep(ReadyRecord(k, l, r))
  <2>1. PICK k, l, r : plan = Keep(ReadyRecord(k, l, r))
    BY <1>5
  <2>2. row = ReadyRecord(k, l, r) /\ plan.announce = "none" /\ plan.op = "none"
    BY <2>1 DEF Keep, PlanOf, Materialize
  <2> HIDE DEF plan, row
  <2>3. row.state # "conflict"
    BY <1>2, <2>2
  <2> QED
    BY <2>2, <2>3 DEF plan, row
<1>6. CASE plan = Push(mine)
  <2>1. plan.announce = "ready"
    BY <1>6 DEF Push, PlanOf
  <2>2. row.state # "conflict"
    BY <1>2, <1>6 DEF Push, PlanOf, Materialize
  <2> QED
    BY <2>1, <2>2
<1>7. CASE plan = Pull(theirs)
  <2>1. plan.announce = "ready"
    BY <1>7 DEF Pull, PlanOf
  <2>2. row.state # "conflict"
    BY <1>2, <1>7 DEF Pull, PlanOf, Materialize
  <2> QED
    BY <2>1, <2>2
<1>8. CASE \E op : plan = Delete(op)
  BY <1>2, <1>8 DEF Delete, PlanOf, Materialize
<1> HIDE DEF plan, row
<1> QED
  BY <1>1, <1>3, <1>4, <1>5, <1>6, <1>7, <1>8 DEF PlanOutcome, plan, row

(* What counts as a failure that was injected. *)
LEMMA FaultsCounted ==
  ASSUME TypeOK, [Next]_vars, faults' = 0
  PROVE  /\ faults = 0 /\ ~AbortPass /\ ~CrashBeforeEvent /\ ~ResolveFails
         /\ \A p \in Paths : ~TransferFails(p)
<1>1. faults \in Nat
  BY SettingsAssumption DEF TypeOK, CountersOK
<1>2. ~Fault
  BY <1>1 DEF Fault
<1>3. ~AbortPass /\ ~CrashBeforeEvent /\ ~ResolveFails /\ \A p \in Paths : ~TransferFails(p)
  BY <1>2 DEF AbortPass, CrashBeforeEvent, ResolveFails, TransferFails
<1>4. faults' = faults
  <2>1. ASSUME NEW p \in Paths, Transfer(p) \/ Persist(p)  PROVE UNCHANGED faults
    BY <2>1 DEF Transfer, CreateLocalDir, CreateRemoteDir, PullFile, PushFile, StatPushed,
       DeleteLocal, DeleteRemote, SourceMissing, Persist
  <2>2. ASSUME NEW p \in Paths, EditLocal(p) \/ EditRemote(p)  PROVE UNCHANGED faults
    BY <2>2 DEF EditLocal, EditRemote, Edit
  <2>3. ASSUME NEW p \in Paths, NEW how, ResolveBegin(p, how)  PROVE UNCHANGED faults
    BY <2>3 DEF ResolveBegin
  <2>4. CASE ResolveStep
    BY <2>4 DEF ResolveStep, ApplyUseLocal, ApplyUseRemote, ResolveSave, ResolveMissing, Applied
  <2>5. CASE StartPass \/ PlanPass \/ FailPass \/ UNCHANGED vars
    BY <2>5 DEF StartPass, PlanPass, FailPass, vars
  <2>6. CASE RefreshCaches \/ SaveLocalCache \/ SaveManifest
    BY <2>6 DEF RefreshCaches, SaveLocalCache, SaveManifest
  <2> QED
    BY <1>3, <2>1, <2>2, <2>3, <2>4, <2>5, <2>6 DEF Next, PassStep
<1> QED
  BY <1>3, <1>4

LEMMA ToldStep ==
  ASSUME WatchInv, Flat, [Next]_vars, faults' = 0, NEW f \in Paths
  PROVE  Told(f)'
<1>0. TypeOK /\ Apart /\ LinesFit /\ CacheInv /\ faults = 0 /\ (\A p \in Paths : Told(p)) /\ Undisturbed
  BY FaultsCounted DEF WatchInv, CacheInv, Flat
<1>1. /\ f \in FilePaths /\ Told(f) /\ records \in [Paths -> Record]
      /\ watch \in [Paths -> {"none", "syncing", "ready", "conflict", "error"}]
      /\ work \in [Paths -> {"todo", "stat", "done", "failed", "saved"}]
  BY <1>0, ValueFacts DEF Flat, TypeOK, StoreOK, PassOK
<1>2. CASE UNCHANGED vars
  BY <1>1, <1>2 DEF vars, trees, store, pass, Told, HonestAt, PlanFor
<1>3. CASE StartPass
  <2>1. /\ phase = "idle" /\ phase' = "listing" /\ watch' = watch /\ records' = records
        /\ seen'[f].local = ScanLocal(f) /\ local' = local
    BY <1>3 DEF StartPass, trees, store
  <2>2. ScanLocal(f).kind = "file" <=> IsFile(local[f])
    BY <1>0, <1>1, ScansTrue
  <2> QED
    BY <1>1, <2>1, <2>2 DEF Told, HonestAt
<1>4. ASSUME phase' = "idle", HonestAt(f)'  PROVE Told(f)'
  BY <1>4 DEF Told
<1>5. CASE phase = "idle" /\ (Resolving \/ Editing)
  <2>0. phase' = "idle"
    BY <1>5, IdleRests DEF pass
  <2>1. CASE ResolveSave
    <3>1. /\ records' = [records EXCEPT ![rsv.path] = rsv.row]
          /\ watch' = [watch EXCEPT ![rsv.path] = "ready"] /\ rsv.row.state = "ready"
      BY <2>1 DEF ResolveSave, WatchInv
    <3>2. HonestAt(f)'
      BY <1>1, <1>5, <3>1 DEF Told, HonestAt
    <3> QED
      BY <1>4, <2>0, <3>2
  <2>2. CASE UNCHANGED <<watch, records>>
    BY <1>1, <1>4, <1>5, <2>0, <2>2 DEF Told, HonestAt
  <2>3. ResolveSave \/ UNCHANGED <<watch, records>>
    <3>1. ASSUME NEW p \in Paths, NEW how, ResolveBegin(p, how)
          PROVE  UNCHANGED <<watch, records>>
      BY <3>1 DEF ResolveBegin, store
    <3>2. ASSUME NEW p \in Paths, EditLocal(p) \/ EditRemote(p)
          PROVE  UNCHANGED <<watch, records>>
      BY <3>2 DEF EditLocal, EditRemote, Edit, store
    <3>3. ApplyUseLocal \/ ApplyUseRemote \/ ResolveMissing => UNCHANGED <<watch, records>>
      BY DEF ApplyUseLocal, ApplyUseRemote, ResolveMissing, Applied, store
    <3> QED
      BY <1>0, <1>5, <3>1, <3>2, <3>3, FaultsCounted DEF Resolving, Editing, ResolveStep
  <2> QED
    BY <2>1, <2>2, <2>3
<1>6. CASE PlanPass
  <2>1. /\ phase = "listing" /\ phase' = "run" /\ local' = local /\ remote' = remote
        /\ seen'[f].local = seen[f].local /\ seen'[f].remote = ScanRemote(f)
        /\ seen'[f].prev = seen[f].prev
        /\ IF PlanFor(f)'.op # "none" THEN work'[f] = "todo"
                                      ELSE work'[f] = "done" /\ watch'[f] = watch[f]
    BY <1>6 DEF PlanPass, trees
  <2>2. ScanRemote(f).kind = "file" <=> IsFile(remote[f])
    BY <1>0, <1>1, ScansTrue
  <2>3. /\ seen[f].prev \in Records(Version) /\ (Seen(seen[f].local) => seen[f].local.kind = "file")
        /\ KindFits(f, ScanRemote(f)) /\ ScanRemote(f) \in Observations(Version) /\ f \notin DirPaths
    BY <1>0, <1>1, SightsTyped, ScansTyped, ValueFacts DEF Observation
  <2>4. Seen(ScanRemote(f)) => ScanRemote(f).kind = "file"
    BY <2>3, ObservationFacts DEF KindFits, Kinds
  <2>5. PlanFor(f)' = Plan(seen[f].prev, seen[f].local, ScanRemote(f))
    BY <2>1 DEF PlanFor
  <2>6. /\ PlanFor(f)'.op = "push_file" => IsFile(local[f])
        /\ PlanFor(f)'.op = "pull_file" => IsFile(remote[f])
    BY <1>1, <2>1, <2>2, <2>3, <2>4, <2>5, TransferSource DEF Told
  <2>7. watch[f] # "syncing"
    BY <1>1, <2>1 DEF Told, HonestAt
  <2> QED
    BY <2>1, <2>6, <2>7 DEF Told
<1>7. ASSUME NEW p \in Paths, Transfer(p)  PROVE Told(f)'
  <2>1. WorkAfter(p) /\ p \in FilePaths /\ Tree(p) = {p} /\ Told(p)
    BY <1>0, <1>1, <1>7, TransferWork, FileInTree, ValueFacts DEF Flat, TypeOK, TreesOK
  <2>2. /\ phase = "run" /\ phase' = "run" /\ UNCHANGED <<seen, watch, records>>
        /\ PlanFor(f)' = PlanFor(f)
    BY <2>1 DEF WorkAfter, PlanFor, store
  <2>3. CASE f # p
    <3>1. work'[f] = work[f] /\ local'[f] = local[f] /\ remote'[f] = remote[f]
      BY <1>0, <1>1, <1>7, <2>1, <2>3, BytesTaken DEF WorkAfter
    <3> QED
      BY <1>1, <2>2, <3>1 DEF Told, HonestAt
  <2>4. CASE f = p
    <3>1. /\ work'[f] \in {"stat", "done", "failed"} /\ PlanFor(f).op # "none"
      BY <2>1, <2>4 DEF WorkAfter
    <3>2. work'[f] # "failed"
      <4>1. ~SourceMissing(p)
        BY <2>1 DEF Told, SourceMissing, Ready
      <4> QED
        BY <1>1, <1>7, <2>4, <4>1 DEF Transfer, CreateLocalDir, CreateRemoteDir, PullFile,
           PushFile, StatPushed, DeleteLocal, DeleteRemote, Finish
    <3>3. work'[f] = "stat" => Exists(remote'[f])
      <4>1. SUFFICES ASSUME work'[f] = "stat"  PROVE Exists(remote'[f])
        OBVIOUS
      <4>2. PushFile(f)
        BY <1>1, <1>7, <2>4, <4>1 DEF Transfer, CreateLocalDir, CreateRemoteDir, PullFile,
           StatPushed, DeleteLocal, DeleteRemote, SourceMissing, Finish
      <4>3. local[f].data \in Bytes /\ remote'[f] = Written(remote[f], local[f].data)
        BY <1>0, <1>1, <4>2, FileInTree DEF PushFile, SetRemote, IsFile, TypeOK, TreesOK
      <4>4. remote'[f].data = local[f].data
        BY <4>3 DEF Written
      <4> QED
        BY <4>3, <4>4, ValueFacts DEF Exists
    <3> QED
      BY <2>2, <3>1, <3>2, <3>3 DEF Told
  <2> QED
    BY <2>3, <2>4
<1>8. ~FailPass
  BY <1>0 DEF FailPass, Finished, Told
<1>9. CASE RefreshCaches
  <2>1. /\ phase = "run" /\ phase' = "save" /\ UNCHANGED <<watch, records, work, seen>>
    BY <1>9 DEF RefreshCaches, Finished, store
  <2> QED
    BY <1>1, <2>1 DEF Told, HonestAt, PlanFor
<1>10. ASSUME NEW p \in Paths, Persist(p)  PROVE Told(f)'
  <2>1. /\ phase = "save" /\ phase' = "save" /\ UNCHANGED seen /\ work[p] = "done"
        /\ records' = [records EXCEPT ![p] = RowAfter(p)]
        /\ watch' = [watch EXCEPT ![p] = IF PlanFor(p).announce = "none"
                                         THEN watch[p] ELSE PlanFor(p).announce]
        /\ work' = [work EXCEPT ![p] = "saved"]
    BY <1>10 DEF Persist
  <2>2. CASE f # p
    BY <1>1, <2>1, <2>2 DEF Told, HonestAt, PlanFor
  <2>3. CASE f = p
    <3>1. seen[f].prev \in Records(Version)
      BY <1>0, <1>1, SightsTyped
    <3>2. /\ PlanFor(f).announce \in {"none", "ready", "conflict"}
          /\ RowAfter(f).state = "conflict" => PlanFor(f).announce = "conflict"
          /\ PlanFor(f).announce = "none" => PlanFor(f).op = "none"
      BY <3>1, EventOfPlan DEF PlanFor, RowAfter
    <3>3. /\ records'[f] = RowAfter(f) /\ work'[f] = "saved"
          /\ watch'[f] = IF PlanFor(f).announce = "none" THEN watch[f] ELSE PlanFor(f).announce
      BY <1>1, <2>1, <2>3
    <3>4. PlanFor(f).op = "none" => watch[f] # "syncing"
      BY <1>1, <2>1, <2>3 DEF Told
    <3>5. HonestAt(f)'
      BY <3>2, <3>3, <3>4 DEF HonestAt
    <3> QED
      BY <2>1, <3>3, <3>5 DEF Told
  <2> QED
    BY <2>2, <2>3
<1>11. CASE SaveLocalCache
  BY <1>1, <1>11 DEF SaveLocalCache, Told, HonestAt
<1>12. CASE SaveManifest
  <2>1. phase = "manifest" /\ phase' = "idle" /\ UNCHANGED <<watch, records>>
    BY <1>12 DEF SaveManifest, EndPass
  <2> QED
    BY <1>1, <2>1 DEF Told, HonestAt
<1> QED
  BY <1>0, <1>2, <1>3, <1>5, <1>6, <1>7, <1>8, <1>9, <1>10, <1>11, <1>12, IdleSteps,
     BusySteps, FaultsCounted DEF Closing

LEMMA ResolvedReady ==
  ASSUME TypeOK, [Next]_vars, rsv.step = "save" => rsv.row.state = "ready", rsv'.step = "save"
  PROVE  rsv'.row.state = "ready"
<1>1. /\ ReadyAbsentRecord.state = "ready"
      /\ \A k, l, r : ReadyRecord(k, l, r).state = "ready"
  BY DEF ReadyRecord, ReadyAbsentRecord
<1>2. ASSUME NEW row, Applied(row)  PROVE rsv'.row = row
  BY <1>2 DEF Applied
<1>3. CASE ApplyUseLocal \/ ApplyUseRemote
  <2>1. Applied(ReadyAbsentRecord) \/ \E k, l, r : Applied(ReadyRecord(k, l, r))
    BY <1>3 DEF ApplyUseLocal, ApplyUseRemote
  <2> QED
    BY <1>1, <1>2, <2>1
<1>4. CASE rsv' = rsv
  BY <1>4
<1>5. CASE Paths = {}
  <2>1. rsv.step = "idle"
    BY <1>5 DEF TypeOK, ResolveOK
  <2>2. UNCHANGED rsv \/ rsv' = NoResolve
    BY <1>5, <2>1 DEF Next, PassStep, ResolveStep, StartPass, PlanPass, AbortPass, FailPass,
       RefreshCaches, SaveLocalCache, SaveManifest, ResolveFails, CrashBeforeEvent, vars,
       ApplyUseLocal, ApplyUseRemote, ResolveSave, ResolveMissing, Applying
  <2> QED
    BY <2>1, <2>2 DEF NoResolve
<1>6. CASE Paths # {}
  <2>1. PICK p \in Paths : TRUE
    BY <1>6
  <2> QED
    BY <1>3, <1>4, <2>1, RowSources
<1> QED
  BY <1>5, <1>6

LEMMA WatchInvariant == ASSUME Flat PROVE Spec => []WatchInv
<1>1. Init => WatchInv
  <2> SUFFICES ASSUME Init PROVE WatchInv
    OBVIOUS
  <2>1. CacheInv /\ rsv.step = "idle"
    BY CachesInitially DEF Init, NoResolve
  <2>2. ASSUME NEW p \in Paths  PROVE Told(p)
    BY DEF Init, Told, HonestAt, NoRecord
  <2> QED
    BY <2>1, <2>2 DEF WatchInv
<1>2. WatchInv /\ [Next]_vars => WatchInv'
  <2> SUFFICES ASSUME WatchInv, [Next]_vars PROVE WatchInv'
    OBVIOUS
  <2>1. CacheInv' /\ TypeOK
    BY CachesStep DEF WatchInv, CacheInv, Flat
  <2>2. rsv'.step = "save" => rsv'.row.state = "ready"
    BY <2>1, ResolvedReady DEF WatchInv
  <2>3. faults' = 0 => \A p \in Paths : Told(p)'
    BY ToldStep
  <2> QED
    BY <2>1, <2>2, <2>3 DEF WatchInv
<1> QED
  BY <1>1, <1>2, PTL DEF Spec

(* In a source without directories the last event of a path is right       *)
(* between commands, as long as none was made to fail: no path is left     *)
(* announced as syncing, and a conflict is announced.                      *)
THEOREM WatchTold == ASSUME Flat PROVE Spec => []WatchHonest
<1>1. WatchInv => WatchHonest
  BY DEF WatchInv, Told, HonestAt, WatchHonest
<1> QED
  BY <1>1, WatchInvariant, PTL
=============================================================================
