---------------------------- MODULE ControlService ----------------------------
(***************************************************************************)
(* The Section control service: agents, filesystems, grants and shares,    *)
(* and the authority a commit takes from them.                             *)
(*                                                                         *)
(* crates/sectiond/src/control_service.rs and control_service_http.rs, the *)
(* clients in control_plane.rs.  The service's tables are sets of rows.  A *)
(* call is one transaction, except where the code reads before it begins   *)
(* one.  A refused call changes nothing and is no action here.             *)
(***************************************************************************)
EXTENDS Naturals, Sequences, FiniteSets, SequencesExt

CONSTANTS
  Machines,    \* installations of the command line, each with a store
  Names,       \* agent names; the id of an agent is as good as its name
  None,        \* no identity, no command
  Profiles,    \* source profiles, each with a backing source
  MayCreate,   \* the policy of the profiles: <<profile, agent name>>
  Labels,      \* names of filesystems
  Paths,
  Local,       \* machines that open the service's database by themselves;
               \* the others call the HTTP server, which takes calls in turn
  CreatesApart,    \* a create is over before the next begins
  MaxFs, MaxGrants, MaxShares, MaxCommits, MaxFaults   \* bounds

ASSUME PolicyAssumption ==
  /\ MayCreate \subseteq Profiles \X Names
  /\ Local \subseteq Machines /\ CreatesApart \in BOOLEAN
ASSUME BoundsAssumption ==
  /\ MaxFs \in Nat /\ MaxGrants \in Nat /\ MaxShares \in Nat
  /\ MaxCommits \in Nat /\ MaxFaults \in Nat

VARIABLES
  agents,       \* registered names
  installs,     \* <<machine, name>>: the installations of an agent
  identity,     \* the agent a machine's store holds the token of
  filesystems, grants, shares,   \* the tables
  log,          \* service events of each filesystem
  creating,     \* a create that has found its source empty
  source,       \* AgentFS metadata in each backing source
  pending,      \* a commit between its authorization and its record
  commits,      \* commit records, with authorized_by
  fsCount, grantCount, shareCount, faults   \* ids given out; failures so far

people == <<agents, installs, identity>>
tables == <<filesystems, grants, shares, log, grantCount, shareCount>>
places == <<creating, source, fsCount>>
work   == <<pending, commits>>
vars   == <<people, tables, places, work, faults>>

-------------------------------------------------------------------------------
(* Rows and types *)

Roles == {"owner", "reader", "writer", "manager", "contributor"}
Kinds == {"read", "commit", "manage", "propose"}

Capabilities(role) ==
  IF role = "owner" THEN Kinds
  ELSE {"read"} \cup (IF role = "writer" THEN {"commit"} ELSE {})
                \cup (IF role = "manager" THEN {"manage"} ELSE {})
                \cup (IF role = "contributor" THEN {"propose"} ELSE {})

(* authorized_by: the owner's own authority, or a grant. *)
Ownership == 0

FsIds    == 1..MaxFs
GrantIds == 1..MaxGrants

Filesystem == [id : FsIds, label : Labels, owner : Names, profile : Profiles]
(* scopes: the paths the scopes of the grant match; all without scopes. *)
Grant == [id : GrantIds, fs : FsIds, agent : Names, role : Roles,
          scopes : SUBSET Paths, by : Names, active : BOOLEAN]
Share == [id : 1..MaxShares, fs : FsIds, target : Names, grant : GrantIds,
          accepted : BOOLEAN]
Event == [kind : {"fs.created", "grant.created", "grant.revoked"}, subject : Nat]
Commit == [fs : FsIds, agent : Names, by : GrantIds \cup {Ownership},
           paths : SUBSET Paths]
Creation == [profile : Profiles, label : Labels]
(* dirs: anything at all is there; fs, head: whose fs.json and head.json *)
Metadata == [dirs : BOOLEAN, fs : 0..MaxFs, head : 0..MaxFs]

Empty    == [dirs |-> FALSE, fs |-> 0, head |-> 0]
Ready(i) == [dirs |-> TRUE, fs |-> i, head |-> i]

(* Written in this order: the event log, fs.json, head.json, then the rest. *)
Unfinished(s, i) ==
  {[s EXCEPT !.dirs = TRUE],
   [s EXCEPT !.dirs = TRUE, !.fs = i],
   Ready(i)}

ASSUME NoneAssumption == None \notin Names \cup Creation \cup Commit

TypeOK ==
  /\ agents \subseteq Names
  /\ installs \subseteq Machines \X Names
  /\ identity \in [Machines -> Names \cup {None}]
  /\ filesystems \subseteq Filesystem
  /\ grants \subseteq Grant
  /\ shares \subseteq Share
  /\ log \in [FsIds -> Seq(Event)]
  /\ creating \in [Machines -> Creation \cup {None}]
  /\ source \in [Profiles -> Metadata]
  /\ pending \in [Machines -> Commit \cup {None}]
  /\ commits \subseteq Commit
  /\ fsCount \in 0..MaxFs /\ grantCount \in 0..MaxGrants
  /\ shareCount \in 0..MaxShares /\ faults \in 0..MaxFaults

Init ==
  /\ agents = {} /\ installs = {}
  /\ identity = [m \in Machines |-> None]
  /\ filesystems = {} /\ grants = {} /\ shares = {}
  /\ log = [f \in FsIds |-> <<>>]
  /\ creating = [m \in Machines |-> None]
  /\ source = [p \in Profiles |-> Empty]
  /\ pending = [m \in Machines |-> None]
  /\ commits = {}
  /\ fsCount = 0 /\ grantCount = 0 /\ shareCount = 0 /\ faults = 0

-------------------------------------------------------------------------------
(* Who may do what *)

(* authenticate_agent; with the database at hand an identity is enough. *)
Signed(m) ==
  /\ identity[m] # None
  /\ m \notin Local => identity[m] \in agents /\ <<m, identity[m]>> \in installs

ActiveGrants(f, n) == {g \in grants : g.fs = f.id /\ g.agent = n /\ g.active}

(* authorize_paths: what may be named as authorized_by. *)
Authorities(f, n, capability, paths) ==
  IF f.owner = n THEN {Ownership}
  ELSE {g.id : g \in {h \in ActiveGrants(f, n) :
                        /\ capability \in Capabilities(h.role)
                        /\ paths \subseteq h.scopes}}

(* authorize_capability looks at no paths. *)
May(f, n, capability) == Authorities(f, n, capability, {}) # {}

-------------------------------------------------------------------------------
(* agent login *)

(* wrong: the name alone identifies an agent that exists already. *)
NameSuffices(m, n) == TRUE

(* A new name is free; a known one takes its token, which the store of a   *)
(* machine holds for the name it last logged in with, and no other.        *)
Admits(m, n) == n \in agents => identity[m] = n

Register(m, n) ==
  /\ Admits(m, n)
  /\ agents' = agents \cup {n}
  /\ installs' = installs \cup {<<m, n>>}

Login(m, n) ==
  /\ Register(m, n)
  /\ identity' = [identity EXCEPT ![m] = n]
  /\ UNCHANGED <<tables, places, work, faults>>

(* The service has answered; the store has not been written.  For a name    *)
(* known before nothing has changed.                                       *)
LoginLost(m, n) ==
  /\ faults < MaxFaults /\ n \notin agents
  /\ Register(m, n)
  /\ faults' = faults + 1
  /\ UNCHANGED <<identity, tables, places, work>>

-------------------------------------------------------------------------------
(* fs create *)

(* wrong: nobody looks into the backing source. *)
VacantUnchecked(p) == TRUE

Vacant(p) == source[p] = Empty

OthersCreate(m) == \E k \in Machines \ {m} : creating[k] # None

(* create_filesystem up to its transaction, in a process of its own. *)
CreateBegin(m, p, l) ==
  /\ m \in Local /\ Signed(m) /\ creating[m] = None
  /\ CreatesApart => ~OthersCreate(m)
  /\ Vacant(p)
  /\ creating' = [creating EXCEPT ![m] = [profile |-> p, label |-> l]]
  /\ UNCHANGED <<people, tables, work, source, fsCount, faults>>

(* Who is at the transaction of a create of l from p: a local process that *)
(* has looked before, or the server, which looks now.                      *)
AtCreate(m, p, l) ==
  /\ Signed(m)
  /\ CreatesApart => ~OthersCreate(m)
  /\ IF m \in Local
       THEN creating[m] = [profile |-> p, label |-> l]
       ELSE <<p, identity[m]>> \in MayCreate /\ Vacant(p)
  /\ fsCount < MaxFs
  /\ creating' = [creating EXCEPT ![m] = None]

(* wrong: counts grants from zero. *)
OwnerGrantFromZero(id, f, n) ==
  [id |-> id - 1, fs |-> f, agent |-> n, role |-> "owner", scopes |-> Paths,
   by |-> n, active |-> TRUE]

OwnerGrant(id, f, n) ==
  [id |-> id, fs |-> f, agent |-> n, role |-> "owner", scopes |-> Paths,
   by |-> n, active |-> TRUE]

(* The rows and the metadata in the source, committed together. *)
Create(m, p, l) ==
  LET f == fsCount + 1 IN
  /\ AtCreate(m, p, l)
  /\ grantCount < MaxGrants
  /\ \A x \in filesystems : x.label # l
  /\ filesystems' = filesystems \cup
       {[id |-> f, label |-> l, owner |-> identity[m], profile |-> p]}
  /\ grants' = grants \cup {OwnerGrant(grantCount + 1, f, identity[m])}
  /\ log' = [log EXCEPT ![f] = Append(@, [kind |-> "fs.created", subject |-> f])]
  /\ source' = [source EXCEPT ![p] = Ready(f)]
  /\ fsCount' = f /\ grantCount' = grantCount + 1
  /\ UNCHANGED <<people, work, shares, shareCount, faults>>

(* The name is taken, or the process dies. *)
CreateDropped(m) ==
  /\ creating[m] # None
  /\ creating' = [creating EXCEPT ![m] = None]
  /\ UNCHANGED <<people, tables, work, source, fsCount, faults>>

(* A write to the source fails, or the process dies at one: the rows are   *)
(* rolled back; the metadata is removed, or stays as far as it got.        *)
CreateFails(m, p, l) ==
  /\ faults < MaxFaults
  /\ AtCreate(m, p, l)
  /\ \A x \in filesystems : x.label # l
  /\ \E s \in Unfinished(source[p], fsCount + 1) \cup {Empty} :
       source' = [source EXCEPT ![p] = s]
  /\ fsCount' = fsCount + 1
  /\ faults' = faults + 1
  /\ UNCHANGED <<people, tables, work>>

(* wrong: the shares of the filesystem are forgotten. *)
SharesLeftBehind(f) == shares

RemainingShares(f) == {s \in shares : s.fs # f.id}

(* rollback_created_filesystem, a call of the server only *)
Rollback(m, f) ==
  /\ m \notin Local /\ Signed(m) /\ May(f, identity[m], "manage")
  /\ filesystems' = filesystems \ {f}
  /\ grants' = {g \in grants : g.fs # f.id}
  /\ shares' = RemainingShares(f)
  /\ log' = [log EXCEPT ![f.id] = <<>>]
  /\ UNCHANGED <<people, places, work, grantCount, shareCount, faults>>

-------------------------------------------------------------------------------
(* fs grant, fs revoke *)

(* wrong: a manager may raise itself. *)
MayGrantAnything(f, n, target, role) ==
  /\ May(f, n, "manage")
  /\ role # "owner"
  /\ target \in agents /\ target # f.owner

MayGrant(f, n, target, role) ==
  /\ May(f, n, "manage")
  /\ role # "owner"
  /\ target \in agents /\ target # f.owner
  /\ n = target /\ "commit" \in Capabilities(role) => May(f, n, "commit")

(* wrong: only a grant of the same role makes room. *)
SupersededSameRole(f, target, role) ==
  {g \in ActiveGrants(f, target) : g.role = role}

Superseded(f, target, role) == ActiveGrants(f, target)

(* wrong: the row of a grant that ends is deleted. *)
EndedDeleted(rows) == {}

Ended(rows) == {[g EXCEPT !.active = FALSE] : g \in rows}

RevokedEvents(rows) ==
  [i \in 1..Cardinality(rows) |->
     [kind |-> "grant.revoked", subject |-> SetToSeq(rows)[i].id]]

(* wrong: the end of a replaced grant is not told. *)
GrantEventsOfNew(rows, id) == <<[kind |-> "grant.created", subject |-> id]>>

GrantEvents(rows, id) ==
  Append(RevokedEvents(rows), [kind |-> "grant.created", subject |-> id])

FsGrant(m, f, target, role, scopes) ==
  LET old == Superseded(f, target, role)
      id  == grantCount + 1
  IN
  /\ Signed(m) /\ MayGrant(f, identity[m], target, role)
  /\ grantCount < MaxGrants
  /\ grants' = (grants \ old) \cup Ended(old) \cup
       {[id |-> id, fs |-> f.id, agent |-> target, role |-> role,
         scopes |-> scopes, by |-> identity[m], active |-> TRUE]}
  /\ log' = [log EXCEPT ![f.id] = @ \o GrantEvents(old, id)]
  /\ grantCount' = id
  /\ UNCHANGED <<people, places, work, filesystems, shares, shareCount, faults>>

FsRevoke(m, f, target) ==
  LET old == ActiveGrants(f, target) IN
  /\ Signed(m) /\ May(f, identity[m], "manage")
  /\ target # f.owner /\ old # {}
  /\ grants' = (grants \ old) \cup Ended(old)
  /\ log' = [log EXCEPT ![f.id] = @ \o RevokedEvents(old)]
  /\ UNCHANGED <<people, places, work, filesystems, shares, grantCount,
                 shareCount, faults>>

-------------------------------------------------------------------------------
(* fs share, fs available, fs accept *)

FsShare(m, f, target) ==
  /\ Signed(m) /\ May(f, identity[m], "manage")
  /\ shareCount < MaxShares
  /\ \E g \in ActiveGrants(f, target) :
       /\ "read" \in Capabilities(g.role)
       /\ shares' = shares \cup
            {[id |-> shareCount + 1, fs |-> f.id, target |-> target,
              grant |-> g.id, accepted |-> FALSE]}
  /\ shareCount' = shareCount + 1
  /\ UNCHANGED <<people, places, work, filesystems, grants, log, grantCount, faults>>

(* accept_share: the very grant the share was made for must be active. *)
CanAccept(s, n) ==
  /\ s.target = n
  /\ \E f \in filesystems :
       /\ f.id = s.fs /\ May(f, n, "read")
       /\ \E g \in grants : g.id = s.grant /\ g.active /\ g.fs = f.id
                            /\ "read" \in Capabilities(g.role)

AcceptShare(m, s) ==
  /\ Signed(m) /\ CanAccept(s, identity[m])
  /\ shares' = (shares \ {s}) \cup {[s EXCEPT !.accepted = TRUE]}
  /\ UNCHANGED <<people, places, work, filesystems, grants, log, grantCount,
                 shareCount, faults>>

-------------------------------------------------------------------------------
(* The authority of a commit: asked for, then written into the record.     *)

AuthorizeCommit(m, f, paths) ==
  /\ Signed(m) /\ pending[m] = None
  /\ \E by \in Authorities(f, identity[m], "commit", paths) :
       pending' = [pending EXCEPT ![m] =
         [fs |-> f.id, agent |-> identity[m], by |-> by, paths |-> paths]]
  /\ UNCHANGED <<people, tables, places, commits, faults>>

AcceptCommit(m) ==
  /\ pending[m] # None /\ Cardinality(commits) < MaxCommits
  /\ commits' = commits \cup {pending[m]}
  /\ pending' = [pending EXCEPT ![m] = None]
  /\ UNCHANGED <<people, tables, places, faults>>

(* Stale, refused by the lock, or dead. *)
DropCommit(m) ==
  /\ pending[m] # None
  /\ pending' = [pending EXCEPT ![m] = None]
  /\ UNCHANGED <<people, tables, places, commits, faults>>

Next ==
  \/ \E m \in Machines, n \in Names : Login(m, n) \/ LoginLost(m, n)
  \/ \E m \in Machines, p \in Profiles, l \in Labels :
       CreateBegin(m, p, l) \/ Create(m, p, l) \/ CreateFails(m, p, l)
  \/ \E m \in Machines, f \in filesystems :
       \/ Rollback(m, f)
       \/ \E target \in Names, role \in Roles, scopes \in SUBSET Paths :
            FsGrant(m, f, target, role, scopes)
       \/ \E target \in Names : FsRevoke(m, f, target) \/ FsShare(m, f, target)
       \/ \E paths \in SUBSET Paths \ {{}} : AuthorizeCommit(m, f, paths)
  \/ \E m \in Machines, s \in shares : AcceptShare(m, s)
  \/ \E m \in Machines : AcceptCommit(m) \/ DropCommit(m) \/ CreateDropped(m)

Spec == Init /\ [][Next]_vars

-------------------------------------------------------------------------------
(* Safety *)

(* An agent has at most one grant in force for a filesystem, however calls *)
(* that grant, replace and revoke are ordered: fs_grant and fs_revoke end  *)
(* what they find.  What authorize_paths and fs_share pick is then unique. *)
OneActiveGrant ==
  \A g, h \in grants :
    g.active /\ h.active /\ g.fs = h.fs /\ g.agent = h.agent => g = h

(* Except for owners, who manages does not commit, and nobody has made     *)
(* the grant that lets it commit: a manager cannot raise itself by any     *)
(* sequence of its own grants and revocations.                             *)
SeparationOfDuty ==
  \A f \in filesystems : \A n \in Names \ {f.owner} :
    /\ ~(May(f, n, "commit") /\ May(f, n, "manage"))
    /\ \A g \in ActiveGrants(f, n) : "commit" \in Capabilities(g.role) => g.by # n

(* What the service's events say is what holds: the grants created and not *)
(* revoked since are the active ones.                                      *)
EventsReplay ==
  \A f \in filesystems :
    {g.id : g \in {h \in grants : h.fs = f.id /\ h.active /\ h.role # "owner"}}
      = {e.subject : e \in {log[f.id][i] : i \in
           {j \in DOMAIN log[f.id] :
              /\ log[f.id][j].kind = "grant.created"
              /\ \A k \in (j + 1)..Len(log[f.id]) :
                   log[f.id][k] # [kind |-> "grant.revoked",
                                   subject |-> log[f.id][j].subject]}}}

(* A share points at a filesystem and at a grant of it to its target, both *)
(* still on record; a grant points at its filesystem.                      *)
NoDanglingRows ==
  /\ \A s \in shares : \E g \in grants :
       g.id = s.grant /\ g.fs = s.fs /\ g.agent = s.target
  /\ \A g \in grants : \E f \in filesystems : f.id = g.fs

(* As long as a filesystem exists, every commit to it and every commit on  *)
(* its way can be traced to its owner or to a grant on record that gave    *)
(* its author these paths, revoked, replaced or not.                       *)
AuditExplains ==
  \A c \in (commits \cup {pending[m] : m \in Machines}) \ {None} :
    \A f \in filesystems :
      f.id = c.fs =>
        \/ c.by = Ownership /\ f.owner = c.agent
        \/ \E g \in grants :
             /\ g.id = c.by /\ g.fs = c.fs /\ g.agent = c.agent
             /\ "commit" \in Capabilities(g.role) /\ c.paths \subseteq g.scopes

(* A filesystem finds its own metadata in its backing source: no two share *)
(* one, and none was created by halves.                                    *)
SourceOwned == \A f \in filesystems : source[f.profile] = Ready(f.id)

(* No two machines act as one agent, and the identity in a machine's store *)
(* is one the service accepts.                                             *)
IdentitiesHold ==
  /\ \A m, k \in Machines : identity[m] = identity[k] /\ identity[m] # None => m = k
  /\ \A m \in Machines :
       identity[m] # None => identity[m] \in agents /\ <<m, identity[m]>> \in installs
===============================================================================
