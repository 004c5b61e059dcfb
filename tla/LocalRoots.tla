------------------------------ MODULE LocalRoots ------------------------------
(***************************************************************************)
(* Sources, the local directories bound to them, and what marks them.      *)
(*                                                                         *)
(* crates/sectiond/src/control_plane.rs: `source add, remove, bind,        *)
(* unbind, sync` and `fs attach`; section-provider/src/store.rs for the    *)
(* rows they keep.  The store, the marker file in the local root and the   *)
(* sync rows are written one after the other and without a lock, so a      *)
(* command is a sequence of steps, and it may die, or stop with an error   *)
(* that undoes nothing, between any two of them.  Sources of the           *)
(* configuration file, which no command changes, are left out.             *)
(***************************************************************************)
EXTENDS Naturals, FiniteSets

CONSTANTS
  None, Free,
  Sources,
  Filesystems,   \* names under which the control service lists filesystems
  Buckets,       \* what a user may add as a source
  Shared,        \* where a filesystem lives
  Roots,         \* local directories
  Near,          \* the directories equal to, above or below a directory
  Commands,      \* commands that may be under way at a time
  DiesAt,        \* the steps before which a command may die
  AddsNew,       \* whether only names that are not taken are added
  MaxDeaths      \* bound on the commands that die

Steps == {"accept", "check", "set", "clear", "mark", "reset", "pass", "mount",
          "forget", "unmark", "undo mark", "undo set", "undo clear"}

ASSUME SourcesAssumption ==
  /\ Filesystems \subseteq Sources /\ Shared \notin Buckets
  /\ None \notin Buckets \cup {Shared} \cup Roots \cup Sources
MaybeRoot == Roots \cup {None}
(* a command under way: prev is the root its source had before *)
Command ==
  [op : {"bind", "unbind", "remove", "sync", "attach"}, source : Sources,
   root : MaybeRoot, prev : MaybeRoot, step : Steps]

ASSUME FreeAssumption == Free \notin Command
ASSUME RootsAssumption ==
  /\ Near \in [Roots -> SUBSET Roots]
  /\ \A r \in Roots : r \in Near[r] /\ \A q \in Near[r] : r \in Near[q]
ASSUME SettingsAssumption ==
  DiesAt \subseteq Steps /\ AddsNew \in BOOLEAN /\ MaxDeaths \in Nat

VARIABLES
  backing,   \* sources: where a source lives
  accepted,  \* agentfs_accepted_filesystems
  root,      \* source_local_roots
  mount,     \* agentfs_mounts: the root of a mounted filesystem
  rows,      \* path_sync_state and the scan caches: of which root and place
  marker,    \* .section/root.json of a directory: the source it names
  cmd,       \* commands under way
  torn,      \* history: sources whose last command was left unfinished
  deaths     \* the bound's counter

vars == <<backing, accepted, root, mount, rows, marker, cmd, torn, deaths>>
store == <<backing, accepted, root, mount, rows>>

Init ==
  /\ backing = [s \in Sources |-> None] /\ accepted = [s \in Sources |-> FALSE]
  /\ root = [s \in Sources |-> None] /\ mount = [s \in Sources |-> None]
  /\ rows = [s \in Sources |-> None]
  /\ marker = [r \in Roots |-> None]
  /\ cmd = [c \in Commands |-> Free]
  /\ torn = {} /\ deaths = 0

-----------------------------------------------------------------------------
(***************************************************************************)
(* Guards.                                                                 *)
(***************************************************************************)
(* is_agentfs_source *)
Managed(s) == accepted[s] \/ mount[s] # None
(* wrong: filesystems are not told from other sources *)
Exists(s) == backing[s] # None
(* ensure_public_source_exists *)
Public(s) == backing[s] # None /\ ~Managed(s)

(* wrong: only the same directory counts *)
SameRootOnly(s, r) == \A o \in Sources : root[o] = r => o = s
(* ensure_local_root_does_not_overlap_existing: a source may be bound again *)
(* to the root it has                                                       *)
Apart(s, r) ==
  \A o \in Sources : root[o] # None /\ r \in Near[root[o]] => o = s /\ root[o] = r
(* set_source_local_root refuses the root of another source *)
TakenBy(s, r) == \E o \in Sources \ {s} : root[o] = r

At(c, step) == cmd[c] # Free /\ cmd[c].step = step
Started(op, s, r, step) ==
  [op |-> op, source |-> s, root |-> r, prev |-> root[s], step |-> step]
Goto(c, step) == cmd' = [cmd EXCEPT ![c].step = step]
(* the command is over; what it had to do is done *)
Done(c) ==
  cmd' = [cmd EXCEPT ![c] = Free] /\ torn' = torn \ {cmd[c].source}
(* the command ends with an error, and leaves things as they are *)
Fails(c) == cmd' = [cmd EXCEPT ![c] = Free] /\ UNCHANGED torn

-----------------------------------------------------------------------------
(***************************************************************************)
(* How commands begin.                                                     *)
(***************************************************************************)
(* ProviderStore::add_source: the row of that name is replaced *)
Stored(s, place) == backing' = [backing EXCEPT ![s] = place]

(* source_add replaces the row of a source of that name and nothing else *)
Add(s, b) ==
  /\ ~Managed(s) /\ backing[s] # b
  /\ AddsNew => backing[s] = None
  /\ Stored(s, b)
  /\ UNCHANGED <<accepted, root, mount, rows, marker, cmd, torn, deaths>>

(* source_bind_local_root *)
Bind(c, s, r) ==
  /\ cmd[c] = Free /\ Public(s) /\ Apart(s, r)
  /\ cmd' = [cmd EXCEPT ![c] = Started("bind", s, r, "set")]
  /\ UNCHANGED <<store, marker, torn, deaths>>

(* source_unbind_local_root; the sync rows stay *)
Unbind(c, s) ==
  /\ cmd[c] = Free /\ Public(s) /\ root[s] # None
  /\ root' = [root EXCEPT ![s] = None] /\ mount' = [mount EXCEPT ![s] = None]
  /\ cmd' = [cmd EXCEPT ![c] = Started("unbind", s, None, "unmark")]
  /\ UNCHANGED <<backing, accepted, rows, marker, torn, deaths>>

(* source_remove: the row of the source, then those of its root and its *)
(* paths                                                                *)
RemoveSource(c, s) ==
  /\ cmd[c] = Free /\ ~Managed(s)
  /\ backing' = [backing EXCEPT ![s] = None]
  /\ cmd' = [cmd EXCEPT ![c] = Started("remove", s, None, "forget")]
  /\ UNCHANGED <<accepted, root, mount, rows, marker, torn, deaths>>
Forget(c) ==
  LET s == cmd[c].source IN
  /\ At(c, "forget")
  /\ root' = [root EXCEPT ![s] = None] /\ mount' = [mount EXCEPT ![s] = None]
  /\ rows' = [rows EXCEPT ![s] = None]
  /\ Goto(c, "unmark")
  /\ UNCHANGED <<backing, accepted, marker, torn, deaths>>

(* source_sync: the root is read before the pass *)
Sync(c, s) ==
  /\ cmd[c] = Free /\ Public(s) /\ root[s] # None
  /\ cmd' = [cmd EXCEPT ![c] = Started("sync", s, root[s], "pass")]
  /\ UNCHANGED <<store, marker, torn, deaths>>

(* find_agentfs, fs_create and fs_accept put the filesystem's source into  *)
(* the store, over a source of that name, and then record it as accepted;  *)
(* fs_attach goes on from there, other commands do not (r = None)          *)
Adopt(c, s, r) ==
  /\ cmd[c] = Free /\ s \in Filesystems
  /\ Stored(s, Shared)
  /\ cmd' = [cmd EXCEPT ![c] = Started("attach", s, r, "accept")]
  /\ UNCHANGED <<accepted, root, mount, rows, marker, torn, deaths>>
Accept(c) ==
  /\ At(c, "accept")
  /\ accepted' = [accepted EXCEPT ![cmd[c].source] = TRUE]
  /\ IF cmd[c].root = None THEN Fails(c) ELSE Goto(c, "check") /\ UNCHANGED torn
  /\ UNCHANGED <<backing, root, mount, rows, marker, deaths>>

(* fs_attach: the directory must be apart from all others, and empty, as a *)
(* user can always make it                                                 *)
AttachCheck(c) ==
  /\ At(c, "check")
  /\ IF Apart(cmd[c].source, cmd[c].root)
     THEN cmd' = [cmd EXCEPT ![c].step = "set", ![c].prev = root[cmd[c].source]]
          /\ UNCHANGED torn
     ELSE Fails(c)
  /\ UNCHANGED <<store, marker, deaths>>

-----------------------------------------------------------------------------
(***************************************************************************)
(* The steps of bind and attach.                                           *)
(***************************************************************************)
(* wrong: a source that had no root keeps its rows *)
AfterSetUnlessUnbound(k) ==
  IF k.op = "bind" /\ k.prev \notin {None, k.root} THEN "clear" ELSE "mark"
(* bind clears the rows when the root is another, and writes the marker;    *)
(* attach writes the marker and then clears the rows in any case            *)
AfterSet(k) == IF k.op = "bind" /\ k.prev # k.root THEN "clear" ELSE "mark"

SetRoot(c) ==
  LET s == cmd[c].source  r == cmd[c].root IN
  /\ At(c, "set")
  /\ IF TakenBy(s, r) THEN Fails(c) /\ UNCHANGED root
     ELSE /\ root' = [root EXCEPT ![s] = r]
          /\ Goto(c, AfterSet(cmd[c])) /\ UNCHANGED torn
  /\ UNCHANGED <<backing, accepted, mount, rows, marker, deaths>>

ClearRows(c) ==
  /\ \/ At(c, "clear") /\ Goto(c, "mark")
     \/ At(c, "reset") /\ Goto(c, "pass")
  /\ rows' = [rows EXCEPT ![cmd[c].source] = None]
  /\ UNCHANGED <<backing, accepted, root, mount, marker, torn, deaths>>

Mark(c) ==
  /\ At(c, "mark")
  /\ marker' = [marker EXCEPT ![cmd[c].root] = cmd[c].source]
  /\ Goto(c, IF cmd[c].op = "bind" THEN "unmark" ELSE "reset")
  /\ UNCHANGED <<store, torn, deaths>>

(* the pass of sync, or of attach over the source's root: what it leaves in *)
(* the rows is of that root and of where the source lives                   *)
PassedOver(c) ==
  LET s == cmd[c].source
      r == IF cmd[c].op = "sync" THEN cmd[c].root ELSE root[s]
  IN  [root |-> r, place |-> backing[s]]
Pass(c) ==
  LET s == cmd[c].source IN
  /\ At(c, "pass")
  /\ \/ /\ cmd[c].op = "sync" /\ Fails(c)
        /\ rows' = [rows EXCEPT ![s] = PassedOver(c)]
     \/ /\ cmd[c].op = "attach" /\ Goto(c, "mount") /\ UNCHANGED torn
        /\ rows' = [rows EXCEPT ![s] = PassedOver(c)]
     \* a conflict, an error, or a tree that is not what the source holds
     \/ /\ cmd[c].op = "attach" /\ Goto(c, "undo mark") /\ UNCHANGED torn
        /\ rows' \in {rows, [rows EXCEPT ![s] = PassedOver(c)]}
  /\ UNCHANGED <<backing, accepted, root, mount, marker, deaths>>

(* upsert_agentfs_mount: a root belongs to one mount *)
Mount(c) ==
  LET s == cmd[c].source  r == cmd[c].root IN
  /\ At(c, "mount")
  /\ IF \E o \in Sources \ {s} : mount[o] = r
     THEN cmd' = [cmd EXCEPT ![c] = Free] /\ torn' = torn \cup {s} /\ UNCHANGED mount
     ELSE mount' = [mount EXCEPT ![s] = r] /\ Goto(c, "unmark") /\ UNCHANGED torn
  /\ UNCHANGED <<backing, accepted, root, rows, marker, deaths>>

(* wrong: also when it is the root just marked *)
LeftRootAlways(k) == {k.prev} \ {None}
(* the root that is left, if any *)
LeftRoot(k) == {k.prev} \ {None, k.root}
Unmark(c) ==
  /\ At(c, "unmark")
  /\ marker' = [r \in Roots |-> IF r \in LeftRoot(cmd[c]) THEN None ELSE marker[r]]
  /\ Done(c)
  /\ UNCHANGED <<store, deaths>>

(* rollback_failed_attach *)
UndoMark(c) ==
  /\ At(c, "undo mark")
  /\ marker' = [marker EXCEPT ![cmd[c].root] = None]
  /\ Goto(c, "undo set")
  /\ UNCHANGED <<store, torn, deaths>>
UndoSet(c) ==
  LET s == cmd[c].source  former == cmd[c].prev IN
  /\ At(c, "undo set")
  /\ IF former # None /\ TakenBy(s, former) THEN Fails(c) /\ UNCHANGED root
     ELSE /\ root' = [root EXCEPT ![s] = former]
          /\ Goto(c, "undo clear")
          \* back at the root whose marker was just removed
          /\ torn' = IF former = cmd[c].root THEN torn \cup {s} ELSE torn
  /\ UNCHANGED <<backing, accepted, mount, rows, marker, deaths>>
UndoClear(c) ==
  /\ At(c, "undo clear")
  /\ rows' = [rows EXCEPT ![cmd[c].source] = None]
  /\ Fails(c)
  /\ UNCHANGED <<backing, accepted, root, mount, marker, deaths>>

Die(c) ==
  /\ cmd[c] # Free /\ cmd[c].step \in DiesAt
  /\ deaths < MaxDeaths /\ deaths' = deaths + 1
  /\ cmd' = [cmd EXCEPT ![c] = Free] /\ torn' = torn \cup {cmd[c].source}
  /\ UNCHANGED <<store, marker>>

Begin(c) ==
  \E s \in Sources :
    \/ Unbind(c, s) \/ RemoveSource(c, s) \/ Sync(c, s)
    \/ \E r \in Roots : Bind(c, s, r)
    \/ \E r \in MaybeRoot : Adopt(c, s, r)
Continue(c) ==
  \/ Forget(c) \/ Accept(c) \/ AttachCheck(c)
  \/ SetRoot(c) \/ ClearRows(c) \/ Mark(c) \/ Pass(c) \/ Mount(c) \/ Unmark(c)
  \/ UndoMark(c) \/ UndoSet(c) \/ UndoClear(c)

Next ==
  \/ \E s \in Sources, b \in Buckets : Add(s, b)
  \/ \E c \in Commands : Begin(c) \/ Continue(c) \/ Die(c)

Spec == Init /\ [][Next]_vars

-----------------------------------------------------------------------------
Busy == {cmd[c].source : c \in {d \in Commands : cmd[d] # Free}}

(***************************************************************************)
(* A pass compares the two sides with what the rows say of them.  Rows of  *)
(* another root or another place would make it take files that were never  *)
(* there for deleted ones, and delete the other side's                     *)
(* (control_plane.rs:1473, 327).                                           *)
(***************************************************************************)
PassesOnOwnRows ==
  [][\A c \in Commands : At(c, "pass") /\ Pass(c) =>
       rows[cmd[c].source] \in {None, PassedOver(c)}]_vars

(* No root is equal to, above or below another, whatever died, was rolled  *)
(* back or was moved: the files of one source are never taken for those of *)
(* another (control_plane.rs:2263, docs/AGENTFS_TEST_PLAN.md:588).         *)
RootsApart ==
  \A s, o \in Sources : s # o /\ root[s] # None /\ root[o] # None
    => root[o] \notin Near[root[s]]

(* Between commands the three records of a root agree: the directory bound *)
(* to a source carries a marker that names it, and a mounted filesystem is *)
(* mounted there; also after an attach elsewhere was rolled back, and as   *)
(* soon as a command for a source completes after one that died            *)
(* (control_plane.rs:1461, 299, 1924).                                     *)
RecordsAgree ==
  \A s \in Sources \ (torn \cup Busy) :
    /\ root[s] # None => marker[root[s]] = s
    /\ mount[s] \in {None, root[s]}

(* Where a filesystem lives, the low-level sync never runs: files reach it *)
(* through commits only (control_plane.rs:1717, 1651).                     *)
SharedIsGoverned ==
  \A c \in Commands : At(c, "pass") /\ cmd[c].op = "sync"
    => backing[cmd[c].source] # Shared
=============================================================================
