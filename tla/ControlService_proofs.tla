------------------------ MODULE ControlService_proofs ------------------------
(***************************************************************************)
(* Theorems about ControlService, for any sets of machines, names,         *)
(* profiles and paths and any bounds.                                      *)
(***************************************************************************)
EXTENDS ControlService, FiniteSetTheorems, TLAPS

(* Commits recorded or on their way. *)
Claims == (commits \cup {pending[m] : m \in Machines}) \ {None}

(* No id is used twice: what refers to a filesystem never means a later one. *)
IdsFresh ==
  /\ \A f \in filesystems : f.id <= fsCount
  /\ \A g \in grants : g.fs <= fsCount
  /\ \A c \in Claims : c.fs <= fsCount
  /\ \A f, h \in filesystems : f.id = h.id => f = h

(* Only owners have the role of an owner. *)
OwnersOwn ==
  \A g \in grants, f \in filesystems :
    g.fs = f.id /\ g.role = "owner" => g.agent = f.owner

(* The half of SeparationOfDuty that does not follow from the rest. *)
NotByOneself ==
  \A g \in grants, f \in filesystems :
    /\ g.fs = f.id /\ g.active /\ g.agent # f.owner
    /\ "commit" \in Capabilities(g.role)
    => g.by # g.agent

(* What makes the properties of rights and of the audit inductive. *)
IInv ==
  /\ TypeOK /\ IdsFresh /\ OwnersOwn
  /\ OneActiveGrant /\ NotByOneself /\ AuditExplains

-------------------------------------------------------------------------------
(* Rights *)

LEMMA Rights ==
  ASSUME NEW f, NEW n, NEW c, n # f.owner
  PROVE  May(f, n, c) <=> \E g \in ActiveGrants(f, n) : c \in Capabilities(g.role)
<1> DEFINE able == {h \in ActiveGrants(f, n) :
                      c \in Capabilities(h.role) /\ {} \subseteq h.scopes}
<1>1. May(f, n, c) <=> {g.id : g \in able} # {}
  BY DEF May, Authorities
<1>2. {g.id : g \in able} # {} <=> \E g \in able : TRUE
  OBVIOUS
<1> QED
  BY <1>1, <1>2

(* No role but the owner's both commits and manages. *)
LEMMA RolesApart ==
  \A role \in Roles :
    "commit" \in Capabilities(role) /\ "manage" \in Capabilities(role) => role = "owner"
BY DEF Roles, Capabilities, Kinds

(* Who is not the owner does not both commit and manage. *)
LEMMA DutiesApart ==
  ASSUME TypeOK, OwnersOwn, OneActiveGrant,
         NEW f \in filesystems, NEW n \in Names \ {f.owner}
  PROVE  ~(May(f, n, "commit") /\ May(f, n, "manage"))
<1> SUFFICES ASSUME May(f, n, "commit"), May(f, n, "manage")  PROVE FALSE
  OBVIOUS
<1>1. PICK g \in ActiveGrants(f, n) : "commit" \in Capabilities(g.role)
  BY Rights
<1>2. PICK h \in ActiveGrants(f, n) : "manage" \in Capabilities(h.role)
  BY Rights
<1>3. g = h
  BY DEF ActiveGrants, OneActiveGrant
<1>4. g.role \in Roles
  BY DEF ActiveGrants, TypeOK, Grant
<1>5. g.role = "owner"
  BY <1>1, <1>2, <1>3, <1>4, RolesApart
<1> QED
  BY <1>5 DEF ActiveGrants, OwnersOwn

LEMMA Separation ==
  ASSUME TypeOK, OwnersOwn, OneActiveGrant, NotByOneself
  PROVE  SeparationOfDuty
BY DutiesApart DEF SeparationOfDuty, NotByOneself, ActiveGrants

(* A grant that ends keeps everything but being in force. *)
LEMMA EndedFacts ==
  ASSUME NEW rows \in SUBSET Grant
  PROVE  /\ Ended(rows) \subseteq Grant
         /\ \A e \in Ended(rows) : ~e.active
         /\ \A e \in Ended(rows) : \E g \in rows :
              /\ e.id = g.id /\ e.fs = g.fs /\ e.agent = g.agent /\ e.role = g.role
              /\ e.scopes = g.scopes /\ e.by = g.by
         /\ \A g \in rows : \E e \in Ended(rows) :
              /\ e.id = g.id /\ e.fs = g.fs /\ e.agent = g.agent /\ e.role = g.role
              /\ e.scopes = g.scopes /\ e.by = g.by
<1>1. \A g \in rows :
        LET e == [g EXCEPT !.active = FALSE] IN
        /\ e \in Grant /\ ~e.active
        /\ e.id = g.id /\ e.fs = g.fs /\ e.agent = g.agent /\ e.role = g.role
        /\ e.scopes = g.scopes /\ e.by = g.by
  BY DEF Grant
<1> QED
  BY <1>1 DEF Ended

(* The events of at most one grant that ends. *)
LEMMA RevokedEventsTyped ==
  ASSUME NEW rows \in SUBSET Grant, \A g, h \in rows : g = h
  PROVE  RevokedEvents(rows) \in Seq(Event)
<1>1. IsFiniteSet(rows)
  <2>1. CASE rows = {}
    BY <2>1, FS_EmptySet
  <2>2. CASE rows # {}
    <3>1. PICK g : rows = {g}
      BY <2>2
    <3> QED
      BY <3>1, FS_Singleton
  <2> QED
    BY <2>1, <2>2
<1> DEFINE n == Cardinality(rows)
<1>2. n \in Nat /\ \E f \in [1..n -> rows] : IsInjective(f)
  BY <1>1, FS_CardinalityType DEF ExistsBijection, Bijection, Injection, IsInjective
<1>3. SetToSeq(rows) \in [1..n -> rows]
  BY <1>2 DEF SetToSeq
<1>4. \A i \in 1..n :
        [kind |-> "grant.revoked", subject |-> SetToSeq(rows)[i].id] \in Event
  BY <1>3 DEF Event, Grant, GrantIds
<1> QED
  BY <1>2, <1>4 DEF RevokedEvents

LEMMA Initially == Init => IInv
<1> SUFFICES ASSUME Init PROVE IInv
  OBVIOUS
<1>1. TypeOK
  BY BoundsAssumption DEF Init, TypeOK, Metadata, Empty
<1>2. Claims = {}
  BY DEF Init, Claims
<1> QED
  BY <1>1, <1>2 DEF Init, IInv, IdsFresh, OwnersOwn, OneActiveGrant, NotByOneself,
     AuditExplains, Claims

-------------------------------------------------------------------------------
(* Steps *)

(* A claim stays explained while filesystems are only added with fresh ids *)
(* and the grants of those that remain stay on record.                     *)
LEMMA StaysExplained ==
  ASSUME AuditExplains, Claims' \subseteq Claims,
         \A f \in filesystems' : f \in filesystems \/ \A c \in Claims : f.id # c.fs,
         \A g \in grants : (\E f \in filesystems' : f.id = g.fs) =>
           \E h \in grants' :
             /\ h.id = g.id /\ h.fs = g.fs /\ h.agent = g.agent /\ h.role = g.role
             /\ h.scopes = g.scopes
  PROVE  AuditExplains'
<1> SUFFICES ASSUME NEW c \in Claims', NEW f \in filesystems', f.id = c.fs
             PROVE  \/ c.by = Ownership /\ f.owner = c.agent
                    \/ \E g \in grants' :
                         /\ g.id = c.by /\ g.fs = c.fs /\ g.agent = c.agent
                         /\ "commit" \in Capabilities(g.role)
                         /\ c.paths \subseteq g.scopes
  BY DEF AuditExplains, Claims
<1>1. c \in Claims /\ f \in filesystems
  OBVIOUS
<1>2. CASE c.by = Ownership /\ f.owner = c.agent
  BY <1>2
<1>3. CASE \E g \in grants :
             /\ g.id = c.by /\ g.fs = c.fs /\ g.agent = c.agent
             /\ "commit" \in Capabilities(g.role) /\ c.paths \subseteq g.scopes
  <2>1. PICK g \in grants :
           /\ g.id = c.by /\ g.fs = c.fs /\ g.agent = c.agent
           /\ "commit" \in Capabilities(g.role) /\ c.paths \subseteq g.scopes
    BY <1>3
  <2>2. PICK h \in grants' :
           /\ h.id = g.id /\ h.fs = g.fs /\ h.agent = g.agent /\ h.role = g.role
           /\ h.scopes = g.scopes
    BY <2>1
  <2> QED
    BY <2>1, <2>2
<1> QED
  BY <1>1, <1>2, <1>3 DEF AuditExplains, Claims

LEMMA Ids ==
  ASSUME IInv
  PROVE  /\ fsCount \in Nat
         /\ \A f \in filesystems : f.id \in Nat /\ f.id <= fsCount
         /\ \A g \in grants : g.fs \in Nat /\ g.fs <= fsCount
         /\ \A c \in Claims : c.fs \in Nat /\ c.fs <= fsCount
<1>1. fsCount \in Nat
  BY BoundsAssumption DEF IInv, TypeOK
<1>2. \A f \in filesystems : f.id \in Nat
  BY BoundsAssumption DEF IInv, TypeOK, Filesystem, FsIds
<1>3. \A g \in grants : g.fs \in Nat
  BY BoundsAssumption DEF IInv, TypeOK, Grant, FsIds
<1>4. \A c \in Claims : c.fs \in Nat
  BY BoundsAssumption DEF IInv, TypeOK, Claims, Commit, FsIds
<1> QED
  BY <1>1, <1>2, <1>3, <1>4 DEF IInv, IdsFresh

(* What changes neither filesystems nor grants nor claims. *)
LEMMA Elsewhere ==
  ASSUME IInv, TypeOK', Claims' \subseteq Claims, fsCount' \in Nat, fsCount <= fsCount',
         filesystems' = filesystems, grants' = grants
  PROVE  IInv'
<1>5. IdsFresh'
  BY Ids DEF IInv, IdsFresh
<1>6. AuditExplains'
  BY StaysExplained DEF IInv
<1> QED
  BY <1>5, <1>6 DEF IInv, OwnersOwn, OneActiveGrant, NotByOneself

LEMMA SignedName ==
  ASSUME TypeOK, NEW m \in Machines, Signed(m)
  PROVE  identity[m] \in Names
BY DEF TypeOK, Signed

LEMMA LoginStep ==
  ASSUME IInv, NEW m \in Machines, NEW n \in Names, Login(m, n) \/ LoginLost(m, n)
  PROVE  IInv'
<1>1. /\ UNCHANGED <<tables, places, work>>
      /\ agents' = agents \cup {n} /\ installs' = installs \cup {<<m, n>>}
  BY DEF Login, LoginLost, Register
<1>2. /\ identity' \in [Machines -> Names \cup {None}]
      /\ faults' \in 0..MaxFaults
  BY BoundsAssumption DEF Login, LoginLost, IInv, TypeOK
<1>3. TypeOK' /\ fsCount \in Nat
  BY <1>1, <1>2, BoundsAssumption DEF IInv, TypeOK, tables, places, work
<1> QED
  BY <1>1, <1>3, Elsewhere DEF tables, places, work, Claims

LEMMA CreateElsewhere ==
  ASSUME IInv, NEW m \in Machines, NEW p \in Profiles, NEW l \in Labels,
         CreateBegin(m, p, l) \/ CreateFails(m, p, l)
  PROVE  IInv'
<1>1. UNCHANGED <<people, tables, work>>
  BY DEF CreateBegin, CreateFails
<1>2. /\ creating' \in [Machines -> Creation \cup {None}]
      /\ fsCount' \in 0..MaxFs /\ fsCount <= fsCount'
      /\ faults' \in 0..MaxFaults
  BY BoundsAssumption
  DEF CreateBegin, CreateFails, AtCreate, IInv, TypeOK, Creation
<1>3. source' \in [Profiles -> Metadata]
  <2>1. CASE CreateFails(m, p, l)
    <3>1. PICK s \in Unfinished(source[p], fsCount + 1) \cup {Empty} :
             source' = [source EXCEPT ![p] = s]
      BY <2>1 DEF CreateFails
    <3>2. fsCount + 1 \in 0..MaxFs /\ source[p] \in Metadata
      BY <2>1, BoundsAssumption DEF CreateFails, AtCreate, IInv, TypeOK
    <3>3. s \in Metadata
      <4>1. Empty \in Metadata /\ Ready(fsCount + 1) \in Metadata
        BY <3>2, BoundsAssumption DEF Ready, Empty, Metadata
      <4>2. /\ [source[p] EXCEPT !.dirs = TRUE] \in Metadata
            /\ [source[p] EXCEPT !.dirs = TRUE, !.fs = fsCount + 1] \in Metadata
        BY <3>2 DEF Metadata
      <4> QED
        BY <4>1, <4>2 DEF Unfinished
    <3> QED
      BY <3>1, <3>3 DEF IInv, TypeOK
  <2>2. CASE CreateBegin(m, p, l)
    BY <2>2 DEF CreateBegin, IInv, TypeOK
  <2> QED
    BY <2>1, <2>2
<1>4. TypeOK'
  BY <1>1, <1>2, <1>3 DEF IInv, TypeOK, people, tables, work
<1> QED
  BY <1>1, <1>2, <1>4, Elsewhere, BoundsAssumption DEF tables, work, Claims

(* A new filesystem has a new id, which no grant and no claim refers to. *)
LEMMA CreateStep ==
  ASSUME IInv, NEW m \in Machines, NEW p \in Profiles, NEW l \in Labels, Create(m, p, l)
  PROVE  IInv'
<1> DEFINE id == fsCount + 1
           f  == [id |-> id, label |-> l, owner |-> identity[m], profile |-> p]
           g  == OwnerGrant(grantCount + 1, id, identity[m])
           e  == [kind |-> "fs.created", subject |-> id]
<1>1. /\ filesystems' = filesystems \cup {f} /\ grants' = grants \cup {g}
      /\ log' = [log EXCEPT ![id] = Append(@, e)]
      /\ source' = [source EXCEPT ![p] = Ready(id)]
      /\ fsCount' = id /\ grantCount' = grantCount + 1
      /\ UNCHANGED <<people, work, shares, shareCount, faults>>
      /\ AtCreate(m, p, l) /\ grantCount < MaxGrants
  BY DEF Create
<1>2. identity[m] \in Names
  BY <1>1, SignedName DEF AtCreate, IInv
<1>3. id \in FsIds /\ id \in 0..MaxFs /\ grantCount + 1 \in GrantIds
  BY <1>1, BoundsAssumption DEF AtCreate, IInv, TypeOK, FsIds, GrantIds
<1>4. f \in Filesystem /\ g \in Grant /\ e \in Event
  BY <1>2, <1>3, BoundsAssumption
  DEF Filesystem, Grant, Event, OwnerGrant, Roles, FsIds, GrantIds
<1>5. g.fs = id /\ g.agent = identity[m] /\ g.role = "owner"
  BY DEF OwnerGrant
<1>6. TypeOK'
  <2>1. log' \in [FsIds -> Seq(Event)]
    <3>1. log[id] \in Seq(Event)
      BY <1>3 DEF IInv, TypeOK
    <3>2. Append(log[id], e) \in Seq(Event)
      BY <1>4, <3>1
    <3> QED
      BY <1>1, <3>2 DEF IInv, TypeOK
  <2>2. source' \in [Profiles -> Metadata]
    BY <1>1, <1>3 DEF IInv, TypeOK, Metadata, Ready
  <2>3. creating' \in [Machines -> Creation \cup {None}]
    BY <1>1 DEF AtCreate, IInv, TypeOK
  <2>4. grantCount' \in 0..MaxGrants
    BY <1>1, BoundsAssumption DEF IInv, TypeOK
  <2> QED
    BY <1>1, <1>3, <1>4, <2>1, <2>2, <2>3, <2>4 DEF IInv, TypeOK, people, work
<1>7. /\ \A h \in filesystems : h.id \in Nat /\ h.id < id
      /\ \A h \in grants : h.fs \in Nat /\ h.fs < id
      /\ \A c \in Claims : c.fs \in Nat /\ c.fs < id
      /\ id \in Nat
  BY Ids
<1>8. Claims' = Claims
  BY <1>1 DEF Claims, work
<1>9. IdsFresh'
  BY <1>1, <1>5, <1>7, <1>8 DEF IInv, IdsFresh
<1>10. OwnersOwn'
  BY <1>1, <1>5, <1>7 DEF IInv, OwnersOwn
<1>11. OneActiveGrant'
  BY <1>1, <1>5, <1>7 DEF IInv, OneActiveGrant
<1>12. NotByOneself'
  BY <1>1, <1>5, <1>7 DEF IInv, NotByOneself
<1>13. AuditExplains'
  <2>1. \A h \in filesystems' : h \in filesystems \/ \A c \in Claims : h.id # c.fs
    BY <1>1, <1>7
  <2> QED
    BY <1>1, <1>8, <2>1, StaysExplained DEF IInv
<1> QED
  BY <1>6, <1>9, <1>10, <1>11, <1>12, <1>13 DEF IInv

LEMMA DroppedStep ==
  ASSUME IInv, NEW m \in Machines, CreateDropped(m)
  PROVE  IInv'
<1>1. /\ UNCHANGED <<people, tables, work, source, fsCount, faults>>
      /\ creating' \in [Machines -> Creation \cup {None}]
  BY DEF CreateDropped, IInv, TypeOK
<1>2. TypeOK'
  BY <1>1 DEF IInv, TypeOK, people, tables, work
<1> QED
  BY <1>1, <1>2, Ids, Elsewhere DEF tables, work, Claims

LEMMA RollbackStep ==
  ASSUME IInv, NEW m \in Machines, NEW f \in filesystems, Rollback(m, f)
  PROVE  IInv'
<1>1. /\ filesystems' = filesystems \ {f}
      /\ grants' = {g \in grants : g.fs # f.id}
      /\ shares' \subseteq shares
      /\ log' = [log EXCEPT ![f.id] = <<>>]
      /\ UNCHANGED <<people, places, work, grantCount, shareCount, faults>>
  BY DEF Rollback, RemainingShares
<1>2. TypeOK'
  <2>1. log' \in [FsIds -> Seq(Event)]
    <3>1. <<>> \in Seq(Event) /\ log \in [FsIds -> Seq(Event)]
      BY DEF IInv, TypeOK
    <3> QED
      BY <1>1, <3>1
  <2>2. filesystems' \subseteq Filesystem /\ grants' \subseteq Grant /\ shares' \subseteq Share
    BY <1>1 DEF IInv, TypeOK
  <2> QED
    BY <1>1, <2>1, <2>2 DEF IInv, TypeOK, people, places, work
<1>3. Claims' = Claims /\ fsCount' = fsCount
  BY <1>1 DEF Claims, work, places
<1>4. IdsFresh' /\ OwnersOwn' /\ OneActiveGrant' /\ NotByOneself'
  BY <1>1, <1>3 DEF IInv, IdsFresh, OwnersOwn, OneActiveGrant, NotByOneself
<1>5. \A g \in grants : (\E h \in filesystems' : h.id = g.fs) => g \in grants'
  BY <1>1 DEF IInv, IdsFresh
<1>6. AuditExplains'
  BY <1>1, <1>3, <1>5, StaysExplained DEF IInv
<1> QED
  BY <1>2, <1>4, <1>6 DEF IInv

(* At most one grant ends, and it stays on record; a grant that is added is *)
(* the only one in force for its agent, who has not given itself a right    *)
(* to commit.                                                               *)
LEMMA GrantsStep ==
  ASSUME IInv, TypeOK', NEW f \in filesystems, NEW n \in Names, NEW new \in SUBSET Grant,
         n # f.owner,
         grants' = (grants \ ActiveGrants(f, n)) \cup Ended(ActiveGrants(f, n)) \cup new,
         \A g, h \in new : g = h,
         \A g \in new :
           /\ g.fs = f.id /\ g.agent = n /\ g.role # "owner"
           /\ "commit" \in Capabilities(g.role) => g.by # n,
         UNCHANGED <<filesystems, fsCount, pending, commits>>
  PROVE  IInv'
<1> DEFINE old == ActiveGrants(f, n)
           Like(h, g) == /\ h.id = g.id /\ h.fs = g.fs /\ h.agent = g.agent
                         /\ h.role = g.role /\ h.scopes = g.scopes /\ h.by = g.by
<1>1. old \in SUBSET Grant /\ old \subseteq grants
  BY DEF ActiveGrants, IInv, TypeOK
<1>2. /\ \A e \in Ended(old) : ~e.active /\ \E g \in old : Like(e, g)
      /\ \A g \in old : \E e \in Ended(old) : Like(e, g)
  BY <1>1, EndedFacts
<1>3. Claims' = Claims
  BY DEF Claims
<1>4. \A h \in grants' : \/ h \in grants \ old
                         \/ ~h.active /\ \E g \in old : Like(h, g)
                         \/ h \in new
  BY <1>2
<1>5. IdsFresh'
  BY <1>1, <1>3, <1>4 DEF IInv, IdsFresh
<1>6. OwnersOwn'
  BY <1>1, <1>4 DEF IInv, OwnersOwn
<1>7. OneActiveGrant'
  <2> SUFFICES ASSUME NEW g \in grants', NEW h \in grants', g.active, h.active,
                      g.fs = h.fs, g.agent = h.agent
               PROVE  g = h
    BY DEF OneActiveGrant
  <2>1. g \in grants \ old \/ g \in new
    BY <1>4
  <2>2. h \in grants \ old \/ h \in new
    BY <1>4
  <2>3. \A x \in grants \ old : x.active => ~(x.fs = f.id /\ x.agent = n)
    BY DEF ActiveGrants
  <2> QED
    BY <2>1, <2>2, <2>3 DEF IInv, OneActiveGrant
<1>8. NotByOneself'
  BY <1>4 DEF IInv, NotByOneself
<1>9. AuditExplains'
  <2>1. \A g \in grants : \E h \in grants' : Like(h, g)
    BY <1>2
  <2> QED
    BY <1>3, <2>1, StaysExplained DEF IInv
<1> QED
  BY <1>5, <1>6, <1>7, <1>8, <1>9 DEF IInv

(* The events of the grants of one agent that end. *)
LEMMA EndedEvents ==
  ASSUME IInv, NEW f, NEW n
  PROVE  RevokedEvents(ActiveGrants(f, n)) \in Seq(Event)
BY RevokedEventsTyped DEF ActiveGrants, IInv, OneActiveGrant, TypeOK

LEMMA LogTyped ==
  ASSUME IInv, NEW f \in filesystems, NEW more \in Seq(Event),
         log' = [log EXCEPT ![f.id] = @ \o more]
  PROVE  log' \in [FsIds -> Seq(Event)]
BY DEF IInv, TypeOK, Filesystem

LEMMA GrantStep ==
  ASSUME IInv, NEW m \in Machines, NEW f \in filesystems, NEW target \in Names,
         NEW role \in Roles, NEW scopes \in SUBSET Paths,
         FsGrant(m, f, target, role, scopes)
  PROVE  IInv'
<1> DEFINE old == ActiveGrants(f, target)
           new == [id |-> grantCount + 1, fs |-> f.id, agent |-> target, role |-> role,
                   scopes |-> scopes, by |-> identity[m], active |-> TRUE]
<1>1. /\ grants' = (grants \ old) \cup Ended(old) \cup {new}
      /\ log' = [log EXCEPT ![f.id] = @ \o GrantEvents(old, grantCount + 1)]
      /\ grantCount' = grantCount + 1 /\ grantCount < MaxGrants
      /\ UNCHANGED <<people, places, work, filesystems, shares, shareCount, faults>>
      /\ Signed(m) /\ MayGrant(f, identity[m], target, role)
  BY DEF FsGrant, Superseded
<1>2. identity[m] \in Names
  BY <1>1, SignedName DEF IInv
<1>3. grantCount' \in 0..MaxGrants /\ grantCount + 1 \in GrantIds
  BY <1>1, BoundsAssumption DEF IInv, TypeOK, GrantIds
<1>4. f.id \in FsIds /\ f \in Filesystem
  BY DEF IInv, TypeOK, Filesystem
<1>5. new \in Grant
  BY <1>2, <1>3, <1>4 DEF Grant
<1>6. TypeOK'
  <2>1. GrantEvents(old, grantCount + 1) \in Seq(Event)
    <3>1. [kind |-> "grant.created", subject |-> grantCount + 1] \in Event
      BY <1>3 DEF Event, GrantIds
    <3> QED
      BY <3>1, EndedEvents DEF GrantEvents
  <2>2. log' \in [FsIds -> Seq(Event)]
    BY <1>1, <2>1, LogTyped
  <2>3. old \in SUBSET Grant /\ grants \subseteq Grant
    BY DEF ActiveGrants, IInv, TypeOK
  <2>4. grants' \subseteq Grant
    BY <1>1, <1>5, <2>3, EndedFacts
  <2> QED
    BY <1>1, <1>3, <2>2, <2>4 DEF IInv, TypeOK, people, places, work
<1>7. target # f.owner /\ new.role # "owner"
  BY <1>1 DEF MayGrant
<1>8. "commit" \in Capabilities(role) => identity[m] # target
  <2> SUFFICES ASSUME "commit" \in Capabilities(role), identity[m] = target
               PROVE  FALSE
    OBVIOUS
  <2>1. May(f, target, "manage") /\ May(f, target, "commit")
    BY <1>1 DEF MayGrant
  <2> QED
    BY <1>7, <2>1, DutiesApart DEF IInv
<1> HIDE DEF old
<1>9. UNCHANGED <<filesystems, fsCount, pending, commits>>
  BY <1>1 DEF places, work
<1>10. {new} \in SUBSET Grant /\ \A g, h \in {new} : g = h
  BY <1>5
<1>11. \A g \in {new} :
         /\ g.fs = f.id /\ g.agent = target /\ g.role # "owner"
         /\ "commit" \in Capabilities(g.role) => g.by # target
  BY <1>7, <1>8
<1> QED
  BY <1>1, <1>6, <1>7, <1>9, <1>10, <1>11, GrantsStep DEF old

LEMMA RevokeStep ==
  ASSUME IInv, NEW m \in Machines, NEW f \in filesystems, NEW target \in Names,
         FsRevoke(m, f, target)
  PROVE  IInv'
<1> DEFINE old == ActiveGrants(f, target)
<1>1. /\ grants' = (grants \ old) \cup Ended(old)
      /\ log' = [log EXCEPT ![f.id] = @ \o RevokedEvents(old)]
      /\ UNCHANGED <<people, places, work, filesystems, shares, grantCount, shareCount,
                     faults>>
      /\ target # f.owner
  BY DEF FsRevoke
<1>2. log' \in [FsIds -> Seq(Event)]
  BY <1>1, EndedEvents, LogTyped
<1>3. grants' \subseteq Grant
  <2>1. old \in SUBSET Grant /\ grants \subseteq Grant
    BY DEF ActiveGrants, IInv, TypeOK
  <2> QED
    BY <1>1, <2>1, EndedFacts
<1>4. TypeOK'
  BY <1>1, <1>2, <1>3 DEF IInv, TypeOK, people, places, work
<1>5. UNCHANGED <<filesystems, fsCount, pending, commits>>
  BY <1>1 DEF places, work
<1>6. grants' = (grants \ old) \cup Ended(old) \cup {}
  BY <1>1
<1>7. /\ \A g, h \in {} : g = h
      /\ \A g \in {} : /\ g.fs = f.id /\ g.agent = target /\ g.role # "owner"
                       /\ "commit" \in Capabilities(g.role) => g.by # target
  OBVIOUS
<1>8. {} \in SUBSET Grant /\ target # f.owner
  BY <1>1
<1> QED
  BY <1>4, <1>5, <1>6, <1>7, <1>8, GrantsStep DEF old

LEMMA ShareStep ==
  ASSUME IInv, NEW m \in Machines,
         \/ \E f \in filesystems, target \in Names : FsShare(m, f, target)
         \/ \E s \in shares : AcceptShare(m, s)
  PROVE  IInv'
<1>1. /\ UNCHANGED <<people, places, work, filesystems, grants, log, grantCount, faults>>
      /\ shares' \subseteq Share /\ shareCount' \in 0..MaxShares
  <2>1. CASE \E f \in filesystems, target \in Names : FsShare(m, f, target)
    <3>1. PICK f \in filesystems, target \in Names : FsShare(m, f, target)
      BY <2>1
    <3>2. PICK g \in ActiveGrants(f, target) :
             shares' = shares \cup
               {[id |-> shareCount + 1, fs |-> f.id, target |-> target,
                 grant |-> g.id, accepted |-> FALSE]}
      BY <3>1 DEF FsShare
    <3>3. f.id \in FsIds /\ g.id \in GrantIds
      BY DEF ActiveGrants, IInv, TypeOK, Filesystem, Grant
    <3>4. shareCount + 1 \in 1..MaxShares /\ shareCount' = shareCount + 1
      BY <3>1, BoundsAssumption DEF FsShare, IInv, TypeOK
    <3>5. [id |-> shareCount + 1, fs |-> f.id, target |-> target,
           grant |-> g.id, accepted |-> FALSE] \in Share
      BY <3>3, <3>4 DEF Share
    <3>6. shares' \subseteq Share
      BY <3>2, <3>5 DEF IInv, TypeOK
    <3>7. shareCount' \in 0..MaxShares
      BY <3>4, BoundsAssumption
    <3> QED
      BY <3>1, <3>6, <3>7 DEF FsShare
  <2>2. CASE \E s \in shares : AcceptShare(m, s)
    <3>1. PICK s \in shares : AcceptShare(m, s)
      BY <2>2
    <3>2. s \in Share
      BY DEF IInv, TypeOK
    <3>3. [s EXCEPT !.accepted = TRUE] \in Share
      BY <3>2 DEF Share
    <3> QED
      BY <3>1, <3>3 DEF AcceptShare, IInv, TypeOK
  <2> QED
    BY <2>1, <2>2
<1>2. TypeOK'
  BY <1>1 DEF IInv, TypeOK, people, places, work
<1> QED
  BY <1>1, <1>2, Ids, Elsewhere DEF places, work, Claims

(* What authorize_paths answers explains the commit that is made from it. *)
LEMMA AuthorizeStep ==
  ASSUME IInv, NEW m \in Machines, NEW f \in filesystems, NEW paths \in SUBSET Paths,
         AuthorizeCommit(m, f, paths)
  PROVE  IInv'
<1>1. PICK by \in Authorities(f, identity[m], "commit", paths) :
        pending' = [pending EXCEPT ![m] =
          [fs |-> f.id, agent |-> identity[m], by |-> by, paths |-> paths]]
  BY DEF AuthorizeCommit
<1> DEFINE c == [fs |-> f.id, agent |-> identity[m], by |-> by, paths |-> paths]
<1>2. /\ UNCHANGED <<people, tables, places, commits, faults>> /\ Signed(m)
  BY DEF AuthorizeCommit
<1>3. identity[m] \in Names /\ f.id \in FsIds
  BY <1>2, SignedName DEF IInv, TypeOK, Filesystem
<1>4. \/ by = Ownership /\ f.owner = identity[m]
      \/ \E g \in grants :
           /\ g.id = by /\ g.fs = f.id /\ g.agent = identity[m]
           /\ "commit" \in Capabilities(g.role) /\ paths \subseteq g.scopes
  BY <1>1 DEF Authorities, ActiveGrants
<1>5. by \in GrantIds \cup {Ownership}
  BY <1>4 DEF IInv, TypeOK, Grant
<1>6. c \in Commit
  BY <1>3, <1>5 DEF Commit
<1>7. pending' \in [Machines -> Commit \cup {None}]
  BY <1>1, <1>6 DEF IInv, TypeOK
<1>8. TypeOK'
  BY <1>2, <1>7 DEF IInv, TypeOK, people, tables, places
<1>9. Claims' \subseteq Claims \cup {c}
  <2>1. \A k \in Machines : pending'[k] = pending[k] \/ pending'[k] = c
    BY <1>1 DEF IInv, TypeOK
  <2> QED
    BY <1>2, <2>1 DEF Claims
<1>10. UNCHANGED <<filesystems, grants, fsCount>>
  BY <1>2 DEF tables, places
<1>11. c.fs = f.id /\ c.by = by /\ c.agent = identity[m] /\ c.paths = paths
  OBVIOUS
<1> HIDE DEF c
<1>12. IdsFresh'
  BY <1>9, <1>10, <1>11 DEF IInv, IdsFresh
<1>13. AuditExplains'
  <2> SUFFICES ASSUME NEW d \in Claims', NEW h \in filesystems', h.id = d.fs
               PROVE  \/ d.by = Ownership /\ h.owner = d.agent
                      \/ \E g \in grants' :
                           /\ g.id = d.by /\ g.fs = d.fs /\ g.agent = d.agent
                           /\ "commit" \in Capabilities(g.role)
                           /\ d.paths \subseteq g.scopes
    BY DEF AuditExplains, Claims
  <2>1. CASE d \in Claims
    BY <1>10, <2>1 DEF IInv, AuditExplains, Claims
  <2>2. CASE d = c
    <3>1. h = f
      BY <1>10, <1>11, <2>2 DEF IInv, IdsFresh
    <3> QED
      BY <1>4, <1>10, <1>11, <2>2, <3>1
  <2> QED
    BY <1>9, <2>1, <2>2
<1> QED
  BY <1>8, <1>10, <1>12, <1>13 DEF IInv, OwnersOwn, OneActiveGrant, NotByOneself

LEMMA CommitStep ==
  ASSUME IInv, NEW m \in Machines, AcceptCommit(m) \/ DropCommit(m)
  PROVE  IInv'
<1>1. /\ UNCHANGED <<people, tables, places, faults>>
      /\ pending[m] # None
      /\ pending' = [pending EXCEPT ![m] = None]
      /\ commits' = commits \/ commits' = commits \cup {pending[m]}
  BY DEF AcceptCommit, DropCommit
<1>2. pending' \in [Machines -> Commit \cup {None}] /\ commits' \subseteq Commit
  BY <1>1 DEF IInv, TypeOK
<1>3. TypeOK'
  BY <1>1, <1>2 DEF IInv, TypeOK, people, tables, places
<1>4. Claims' \subseteq Claims
  <2>1. \A k \in Machines : pending'[k] = pending[k] \/ pending'[k] = None
    BY <1>1 DEF IInv, TypeOK
  <2> QED
    BY <1>1, <2>1 DEF Claims
<1> QED
  BY <1>1, <1>3, <1>4, Ids, Elsewhere DEF tables, places

LEMMA Inductive == IInv /\ [Next]_vars => IInv'
<1> SUFFICES ASSUME IInv, [Next]_vars  PROVE IInv'
  OBVIOUS
<1>1. CASE \E m \in Machines, n \in Names : Login(m, n) \/ LoginLost(m, n)
  BY <1>1, LoginStep
<1>2. CASE \E m \in Machines, p \in Profiles, l \in Labels :
             CreateBegin(m, p, l) \/ Create(m, p, l) \/ CreateFails(m, p, l)
  BY <1>2, CreateElsewhere, CreateStep
<1>3. CASE \E m \in Machines, f \in filesystems : Rollback(m, f)
  BY <1>3, RollbackStep
<1>4. CASE \E m \in Machines, f \in filesystems, target \in Names, role \in Roles,
              scopes \in SUBSET Paths : FsGrant(m, f, target, role, scopes)
  BY <1>4, GrantStep
<1>5. CASE \E m \in Machines, f \in filesystems, target \in Names : FsRevoke(m, f, target)
  BY <1>5, RevokeStep
<1>6. CASE \E m \in Machines :
             \/ \E f \in filesystems, target \in Names : FsShare(m, f, target)
             \/ \E s \in shares : AcceptShare(m, s)
  BY <1>6, ShareStep
<1>7. CASE \E m \in Machines, f \in filesystems, paths \in SUBSET Paths \ {{}} :
             AuthorizeCommit(m, f, paths)
  BY <1>7, AuthorizeStep
<1>8. CASE \E m \in Machines : AcceptCommit(m) \/ DropCommit(m)
  BY <1>8, CommitStep
<1>9. CASE \E m \in Machines : CreateDropped(m)
  BY <1>9, DroppedStep
<1>10. CASE UNCHANGED vars
  <2>1. TypeOK'
    BY <1>10 DEF vars, people, tables, places, work, IInv, TypeOK
  <2> QED
    BY <1>10, <2>1, Ids, Elsewhere DEF vars, people, tables, places, work, Claims
<1> QED
  BY <1>1, <1>2, <1>3, <1>4, <1>5, <1>6, <1>7, <1>8, <1>9, <1>10 DEF Next

(* Shares and grants point at rows that are there: a rollback takes all of  *)
(* a filesystem along, and no other call removes a grant.                   *)
LEMMA RowsStep ==
  ASSUME IInv, NoDanglingRows, [Next]_vars
  PROVE  NoDanglingRows'
<1> DEFINE Keeps ==
             \A g \in grants : \E h \in grants' :
               h.id = g.id /\ h.fs = g.fs /\ h.agent = g.agent
<1>1. ASSUME filesystems' = filesystems, grants' = grants, shares' = shares
      PROVE  NoDanglingRows'
  BY <1>1 DEF NoDanglingRows
<1>2. CASE UNCHANGED <<filesystems, grants, shares>>
  BY <1>1, <1>2
<1>3. ASSUME NEW m \in Machines, NEW p \in Profiles, NEW l \in Labels, Create(m, p, l)
      PROVE  NoDanglingRows'
  <2>1. PICK f : /\ filesystems' = filesystems \cup {f} /\ f.id = fsCount + 1
                 /\ grants' = grants \cup
                      {OwnerGrant(grantCount + 1, fsCount + 1, identity[m])}
                 /\ shares' = shares
    BY <1>3 DEF Create
  <2> QED
    BY <2>1 DEF OwnerGrant, NoDanglingRows
<1>4. ASSUME NEW m \in Machines, NEW f \in filesystems, Rollback(m, f)
      PROVE  NoDanglingRows'
  <2>1. /\ filesystems' = filesystems \ {f}
        /\ grants' = {g \in grants : g.fs # f.id}
        /\ shares' = {s \in shares : s.fs # f.id}
    BY <1>4 DEF Rollback, RemainingShares
  <2> QED
    BY <2>1 DEF NoDanglingRows
<1>5. ASSUME NEW f \in filesystems, NEW n \in Names, NEW new, shares' = shares,
             filesystems' = filesystems, \A g \in new : g.fs = f.id,
             grants' = (grants \ ActiveGrants(f, n)) \cup Ended(ActiveGrants(f, n)) \cup new
      PROVE  NoDanglingRows'
  <2>1. ActiveGrants(f, n) \in SUBSET Grant /\ ActiveGrants(f, n) \subseteq grants
    BY DEF ActiveGrants, IInv, TypeOK
  <2>2. Keeps
    BY <1>5, <2>1, EndedFacts
  <2>3. \A g \in grants' : \E h \in filesystems : h.id = g.fs
    BY <1>5, <2>1, EndedFacts DEF NoDanglingRows
  <2> QED
    BY <1>5, <2>2, <2>3 DEF NoDanglingRows
<1>6. ASSUME NEW m \in Machines, NEW f \in filesystems, NEW target \in Names,
             \/ FsRevoke(m, f, target)
             \/ \E role \in Roles, scopes \in SUBSET Paths :
                  FsGrant(m, f, target, role, scopes)
      PROVE  NoDanglingRows'
  <2>1. \E new : /\ \A g \in new : g.fs = f.id
                 /\ grants' = (grants \ ActiveGrants(f, target))
                                \cup Ended(ActiveGrants(f, target)) \cup new
    <3>1. CASE FsRevoke(m, f, target)
      <4>1. grants' = (grants \ ActiveGrants(f, target))
                        \cup Ended(ActiveGrants(f, target)) \cup {}
        BY <3>1 DEF FsRevoke
      <4> QED
        BY <4>1
    <3>2. CASE \E role \in Roles, scopes \in SUBSET Paths :
                 FsGrant(m, f, target, role, scopes)
      <4>1. PICK role \in Roles, scopes \in SUBSET Paths :
               FsGrant(m, f, target, role, scopes)
        BY <3>2
      <4> DEFINE g == [id |-> grantCount + 1, fs |-> f.id, agent |-> target,
                       role |-> role, scopes |-> scopes, by |-> identity[m],
                       active |-> TRUE]
      <4>2. /\ grants' = (grants \ ActiveGrants(f, target))
                           \cup Ended(ActiveGrants(f, target)) \cup {g}
            /\ g.fs = f.id
        BY <4>1 DEF FsGrant, Superseded
      <4> QED
        BY <4>2
    <3> QED
      BY <1>6, <3>1, <3>2
  <2>2. UNCHANGED <<filesystems, shares>>
    BY <1>6 DEF FsRevoke, FsGrant
  <2> QED
    BY <1>5, <2>1, <2>2
<1>7. ASSUME NEW m \in Machines, NEW f \in filesystems, NEW target \in Names,
             FsShare(m, f, target)
      PROVE  NoDanglingRows'
  <2>1. PICK g \in ActiveGrants(f, target) :
           shares' = shares \cup
             {[id |-> shareCount + 1, fs |-> f.id, target |-> target,
               grant |-> g.id, accepted |-> FALSE]}
    BY <1>7 DEF FsShare
  <2>2. g \in grants /\ g.fs = f.id /\ g.agent = target
    BY DEF ActiveGrants
  <2>3. UNCHANGED <<filesystems, grants>>
    BY <1>7 DEF FsShare
  <2> QED
    BY <2>1, <2>2, <2>3 DEF NoDanglingRows
<1>8. ASSUME NEW m \in Machines, NEW s \in shares, AcceptShare(m, s)
      PROVE  NoDanglingRows'
  <2>1. s \in Share
    BY DEF IInv, TypeOK
  <2> DEFINE t == [s EXCEPT !.accepted = TRUE]
  <2>2. t.grant = s.grant /\ t.fs = s.fs /\ t.target = s.target
    BY <2>1 DEF Share
  <2>3. shares' = (shares \ {s}) \cup {t} /\ UNCHANGED <<filesystems, grants>>
    BY <1>8 DEF AcceptShare
  <2> HIDE DEF t
  <2> QED
    BY <2>2, <2>3 DEF NoDanglingRows
<1>9. CASE \/ UNCHANGED vars
           \/ \E m \in Machines, n \in Names : Login(m, n) \/ LoginLost(m, n)
           \/ \E m \in Machines, p \in Profiles, l \in Labels :
                CreateBegin(m, p, l) \/ CreateFails(m, p, l)
           \/ \E m \in Machines, f \in filesystems, paths \in SUBSET Paths \ {{}} :
                AuthorizeCommit(m, f, paths)
           \/ \E m \in Machines : AcceptCommit(m) \/ DropCommit(m) \/ CreateDropped(m)
  <2>1. UNCHANGED tables
    BY <1>9 DEF vars, Login, LoginLost, CreateBegin, CreateFails, AuthorizeCommit,
                AcceptCommit, DropCommit, CreateDropped
  <2> QED
    BY <1>2, <2>1 DEF tables
<1> QED
  BY <1>3, <1>4, <1>6, <1>7, <1>8, <1>9 DEF Next

(* A create that has found its source empty is alone, and still finds it so. *)
SourcesInv ==
  /\ SourceOwned
  /\ \A m \in Machines : creating[m] # None => source[creating[m].profile] = Empty
  /\ \A m, k \in Machines : creating[m] # None /\ creating[k] # None => m = k

(* The source of a create is empty until the create writes to it.           *)
LEMMA CreatesInEmpty ==
  ASSUME CreatesApart, IInv, SourcesInv,
         NEW m \in Machines, NEW p \in Profiles, NEW l \in Labels, AtCreate(m, p, l)
  PROVE  /\ source[p] = Empty
         /\ \A f \in filesystems : f.profile # p
         /\ \A k \in Machines : creating'[k] = None
<1>1. [profile |-> p, label |-> l] # None
  BY NoneAssumption DEF Creation
<1>2. source[p] = Empty
  <2>1. CASE m \in Local
    <3>1. creating[m] = [profile |-> p, label |-> l]
      BY <2>1 DEF AtCreate
    <3> QED
      BY <1>1, <3>1 DEF SourcesInv
  <2>2. CASE m \notin Local
    BY <2>2 DEF AtCreate, Vacant
  <2> QED
    BY <2>1, <2>2
<1>3. \A f \in filesystems : Ready(f.id) # Empty
  BY DEF Ready, Empty
<1>4. \A f \in filesystems : f.profile # p
  BY <1>2, <1>3 DEF SourcesInv, SourceOwned
<1>5. \A k \in Machines : creating'[k] = None
  <2>1. creating' = [creating EXCEPT ![m] = None] /\ ~OthersCreate(m)
    BY DEF AtCreate
  <2>2. \A k \in Machines \ {m} : creating[k] = None
    BY <2>1 DEF OthersCreate
  <2> QED
    BY <2>1, <2>2 DEF IInv, TypeOK
<1> QED
  BY <1>2, <1>4, <1>5

LEMMA SourcesStep ==
  ASSUME CreatesApart, IInv, SourcesInv, [Next]_vars
  PROVE  SourcesInv'
<1>1. ASSUME UNCHANGED <<creating, source>>, filesystems' \subseteq filesystems
      PROVE  SourcesInv'
  BY <1>1 DEF SourcesInv, SourceOwned
<1>2. ASSUME NEW m \in Machines, NEW p \in Profiles, NEW l \in Labels, CreateBegin(m, p, l)
      PROVE  SourcesInv'
  <2>1. /\ creating' = [creating EXCEPT ![m] = [profile |-> p, label |-> l]]
        /\ UNCHANGED <<source, filesystems>>
        /\ source[p] = Empty /\ ~OthersCreate(m)
    BY <1>2 DEF CreateBegin, Vacant, tables
  <2>2. \A k \in Machines : k # m => creating'[k] = None
    BY <2>1 DEF OthersCreate, IInv, TypeOK
  <2>3. creating'[m].profile = p
    BY <2>1 DEF IInv, TypeOK
  <2> QED
    BY <2>1, <2>2, <2>3 DEF SourcesInv, SourceOwned
<1>3. ASSUME NEW m \in Machines, NEW p \in Profiles, NEW l \in Labels, Create(m, p, l)
      PROVE  SourcesInv'
  <2> DEFINE f == [id |-> fsCount + 1, label |-> l, owner |-> identity[m], profile |-> p]
  <2>1. /\ filesystems' = filesystems \cup {f}
        /\ f.id = fsCount + 1 /\ f.profile = p
        /\ source' = [source EXCEPT ![p] = Ready(fsCount + 1)]
    BY <1>3 DEF Create
  <2> HIDE DEF f
  <2>2. /\ \A h \in filesystems : h.profile # p
        /\ \A k \in Machines : creating'[k] = None
    BY <1>3, CreatesInEmpty DEF Create
  <2>3. \A h \in filesystems : h.profile \in Profiles
    BY DEF IInv, TypeOK, Filesystem
  <2>4. SourceOwned'
    BY <2>1, <2>2, <2>3 DEF SourcesInv, SourceOwned, IInv, TypeOK
  <2> QED
    BY <2>2, <2>4 DEF SourcesInv
<1>4. ASSUME NEW m \in Machines, NEW p \in Profiles, NEW l \in Labels, CreateFails(m, p, l)
      PROVE  SourcesInv'
  <2>1. PICK s : source' = [source EXCEPT ![p] = s]
    BY <1>4 DEF CreateFails
  <2>2. /\ \A h \in filesystems : h.profile # p
        /\ \A k \in Machines : creating'[k] = None
    BY <1>4, CreatesInEmpty DEF CreateFails
  <2>3. filesystems' = filesystems
    BY <1>4 DEF CreateFails, tables
  <2>4. \A h \in filesystems : source'[h.profile] = source[h.profile]
    BY <2>1, <2>2 DEF IInv, TypeOK, Filesystem
  <2> QED
    BY <2>2, <2>3, <2>4 DEF SourcesInv, SourceOwned
<1>5. ASSUME NEW m \in Machines, CreateDropped(m)
      PROVE  SourcesInv'
  <2>1. creating' = [creating EXCEPT ![m] = None] /\ UNCHANGED <<source, filesystems>>
    BY <1>5 DEF CreateDropped, tables
  <2>2. \A k \in Machines : creating'[k] # None => creating'[k] = creating[k]
    BY <2>1 DEF IInv, TypeOK
  <2> QED
    BY <2>1, <2>2 DEF SourcesInv, SourceOwned
<1>6. ASSUME NEW m \in Machines, NEW f \in filesystems, Rollback(m, f)
      PROVE  SourcesInv'
  BY <1>1, <1>6 DEF Rollback, places
<1>7. CASE \E m \in Machines, f \in filesystems :
             \/ \E target \in Names, role \in Roles, scopes \in SUBSET Paths :
                  FsGrant(m, f, target, role, scopes)
             \/ \E target \in Names : FsRevoke(m, f, target) \/ FsShare(m, f, target)
  <2>1. ASSUME NEW m \in Machines, NEW f \in filesystems, NEW target \in Names,
               \/ \E role \in Roles, scopes \in SUBSET Paths :
                    FsGrant(m, f, target, role, scopes)
               \/ FsRevoke(m, f, target)
               \/ FsShare(m, f, target)
        PROVE  UNCHANGED <<places, filesystems>>
    <3>1. CASE FsRevoke(m, f, target) \/ FsShare(m, f, target)
      BY <3>1 DEF FsRevoke, FsShare
    <3>2. CASE \E role \in Roles, scopes \in SUBSET Paths :
                 FsGrant(m, f, target, role, scopes)
      BY <3>2 DEF FsGrant
    <3> QED
      BY <2>1, <3>1, <3>2
  <2>2. UNCHANGED <<places, filesystems>>
    BY <1>7, <2>1
  <2> QED
    BY <1>1, <2>2 DEF places
<1>8. CASE \E m \in Machines, s \in shares : AcceptShare(m, s)
  BY <1>1, <1>8 DEF AcceptShare, places
<1>9. CASE \/ \E m \in Machines, f \in filesystems, paths \in SUBSET Paths \ {{}} :
                AuthorizeCommit(m, f, paths)
           \/ \E m \in Machines : AcceptCommit(m) \/ DropCommit(m)
  <2>1. UNCHANGED <<places, filesystems>>
    BY <1>9 DEF AuthorizeCommit, AcceptCommit, DropCommit, tables
  <2> QED
    BY <1>1, <2>1 DEF places
<1>10. CASE \/ UNCHANGED vars
           \/ \E m \in Machines, n \in Names : Login(m, n) \/ LoginLost(m, n)
  <2>1. UNCHANGED <<places, filesystems>>
    BY <1>10 DEF vars, tables, Login, LoginLost
  <2> QED
    BY <1>1, <2>1 DEF places
<1> QED
  BY <1>2, <1>3, <1>4, <1>5, <1>6, <1>7, <1>8, <1>9, <1>10 DEF Next

-------------------------------------------------------------------------------
(* Events *)

Created(id) == [kind |-> "grant.created", subject |-> id]
Revoked(id) == [kind |-> "grant.revoked", subject |-> id]

(* The grants a log tells of that it does not tell the end of. *)
Live(l) ==
  {e.subject : e \in {l[i] : i \in
     {j \in DOMAIN l :
        /\ l[j].kind = "grant.created"
        /\ \A k \in (j + 1)..Len(l) :
             l[k] # [kind |-> "grant.revoked", subject |-> l[j].subject]}}}

(* The grants in force but for the owner's own. *)
Standing(f) ==
  {g.id : g \in {h \in grants : h.fs = f.id /\ h.active /\ h.role # "owner"}}

(* Told in terms of positions. *)
Stands(l, s, j) ==
  /\ l[j].kind = "grant.created" /\ l[j].subject = s
  /\ \A k \in (j + 1)..Len(l) : l[k] # Revoked(s)

LEMMA LiveAt ==
  ASSUME NEW l \in Seq(Event)
  PROVE  \A s : s \in Live(l) <=> \E j \in 1..Len(l) : Stands(l, s, j)
<1>1. DOMAIN l = 1..Len(l)
  OBVIOUS
<1> QED
  BY <1>1 DEF Live, Stands, Revoked

LEMMA Appended ==
  ASSUME NEW l \in Seq(Event), NEW e \in Event
  PROVE  /\ Append(l, e) \in Seq(Event) /\ Len(Append(l, e)) = Len(l) + 1
         /\ Append(l, e)[Len(l) + 1] = e
         /\ \A j \in 1..Len(l) : Append(l, e)[j] = l[j]
         /\ Len(l) \in Nat
OBVIOUS

(* An event that ends nothing leaves standing what stood. *)
LEMMA StaysStanding ==
  ASSUME NEW l \in Seq(Event), NEW e \in Event, NEW s, NEW j \in 1..Len(l)
  PROVE  Stands(Append(l, e), s, j) <=> Stands(l, s, j) /\ e # Revoked(s)
<1> DEFINE x == Append(l, e)
<1>1. /\ x[j] = l[j] /\ Len(x) = Len(l) + 1 /\ Len(l) \in Nat
      /\ x[Len(l) + 1] = e
      /\ \A k \in 1..Len(l) : x[k] = l[k]
  BY Appended
<1> HIDE DEF x
<1>2. (j + 1)..Len(x) = ((j + 1)..Len(l)) \cup {Len(l) + 1}
  BY <1>1
<1>3. \A k \in (j + 1)..Len(l) : k \in 1..Len(l)
  BY <1>1
<1>4. (\A k \in (j + 1)..Len(x) : x[k] # Revoked(s))
        <=> (\A k \in (j + 1)..Len(l) : l[k] # Revoked(s)) /\ e # Revoked(s)
  BY <1>1, <1>2, <1>3
<1> QED
  BY <1>1, <1>4 DEF Stands, x

LEMMA LiveAfter ==
  ASSUME NEW l \in Seq(Event), NEW e \in Event
  PROVE  \A s : s \in Live(Append(l, e)) <=>
                  \/ s \in Live(l) /\ e # Revoked(s)
                  \/ e.kind = "grant.created" /\ e.subject = s
<1> TAKE s
<1> DEFINE x == Append(l, e)
<1>1. /\ x \in Seq(Event) /\ Len(x) = Len(l) + 1 /\ Len(l) \in Nat
      /\ x[Len(l) + 1] = e
  BY Appended
<1>2. s \in Live(x) <=> \E j \in 1..Len(x) : Stands(x, s, j)
  BY <1>1, LiveAt
<1>3. s \in Live(l) <=> \E j \in 1..Len(l) : Stands(l, s, j)
  BY LiveAt
<1>4. \A j \in 1..Len(l) : Stands(x, s, j) <=> Stands(l, s, j) /\ e # Revoked(s)
  BY StaysStanding
<1> HIDE DEF x
<1>5. Stands(x, s, Len(l) + 1) <=> e.kind = "grant.created" /\ e.subject = s
  BY <1>1 DEF Stands
<1>6. \A j \in 1..Len(x) : j \in 1..Len(l) \/ j = Len(l) + 1
  BY <1>1
<1>7. \A j \in 1..Len(l) : j \in 1..Len(x)
  BY <1>1
<1>8. Len(l) + 1 \in 1..Len(x)
  BY <1>1
<1>9. (\E j \in 1..Len(x) : Stands(x, s, j)) <=>
        \/ \E j \in 1..Len(l) : Stands(l, s, j) /\ e # Revoked(s)
        \/ e.kind = "grant.created" /\ e.subject = s
  BY <1>4, <1>5, <1>6, <1>7, <1>8
<1> QED
  BY <1>2, <1>3, <1>9 DEF x

LEMMA LiveCreated ==
  ASSUME NEW l \in Seq(Event), NEW id \in Nat
  PROVE  /\ Append(l, Created(id)) \in Seq(Event)
         /\ Live(Append(l, Created(id))) = Live(l) \cup {id}
<1>1. /\ Created(id) \in Event /\ Created(id).kind = "grant.created"
      /\ Created(id).subject = id /\ \A s : Created(id) # Revoked(s)
  BY DEF Created, Revoked, Event
<1> QED
  BY <1>1, LiveAfter, Appended

LEMMA LiveRevoked ==
  ASSUME NEW l \in Seq(Event), NEW id \in Nat
  PROVE  /\ Append(l, Revoked(id)) \in Seq(Event)
         /\ Live(Append(l, Revoked(id))) = Live(l) \ {id}
<1>1. /\ Revoked(id) \in Event /\ Revoked(id).kind # "grant.created"
      /\ \A s : Revoked(id) = Revoked(s) <=> s = id
  BY DEF Revoked, Event
<1> QED
  BY <1>1, LiveAfter, Appended

LEMMA OnlyOne ==
  ASSUME NEW rows, rows # {}, \A g, h \in rows : g = h
  PROVE  \E g : rows = {g}
OBVIOUS

(* What a log says when the grants of one agent end: at most one does. *)
LEMMA LiveEnded ==
  ASSUME NEW l \in Seq(Event), NEW rows \in SUBSET Grant, \A g, h \in rows : g = h
  PROVE  /\ l \o RevokedEvents(rows) \in Seq(Event)
         /\ Live(l \o RevokedEvents(rows)) = Live(l) \ {g.id : g \in rows}
<1>1. CASE rows = {}
  <2>1. Cardinality(rows) = 0
    BY <1>1, FS_EmptySet
  <2>2. RevokedEvents(rows) = <<>>
    BY <2>1 DEF RevokedEvents
  <2>3. l \o <<>> = l
    OBVIOUS
  <2> QED
    BY <1>1, <2>2, <2>3
<1>2. CASE rows # {}
  <2>1. PICK g : rows = {g}
    BY <1>2, OnlyOne
  <2>2. g.id \in Nat
    BY <2>1, BoundsAssumption DEF Grant, GrantIds
  <2>3. IsFiniteSet(rows) /\ Cardinality(rows) = 1
    BY <2>1, FS_Singleton
  <2>4. SetToSeq(rows)[1] = g
    <3>1. \E f \in [1..1 -> rows] : IsInjective(f)
      BY <2>3, FS_CardinalityType DEF ExistsBijection, Bijection, Injection, IsInjective
    <3>2. SetToSeq(rows) \in [1..1 -> rows]
      BY <2>3, <3>1 DEF SetToSeq
    <3> QED
      BY <2>1, <3>2
  <2>5. RevokedEvents(rows) = <<Revoked(g.id)>>
    BY <2>3, <2>4 DEF RevokedEvents, Revoked
  <2>6. Revoked(g.id) \in Event
    BY <2>2 DEF Revoked, Event
  <2>7. l \o <<Revoked(g.id)>> = Append(l, Revoked(g.id))
    BY <2>6
  <2>8. {x.id : x \in rows} = {g.id}
    BY <2>1
  <2>9. /\ Append(l, Revoked(g.id)) \in Seq(Event)
        /\ Live(Append(l, Revoked(g.id))) = Live(l) \ {g.id}
    BY <2>2, LiveRevoked
  <2> QED
    BY <2>5, <2>7, <2>8, <2>9
<1> QED
  BY <1>1, <1>2

LEMMA LiveGranted ==
  ASSUME NEW l \in Seq(Event), NEW rows \in SUBSET Grant, \A g, h \in rows : g = h,
         NEW id \in Nat
  PROVE  Live(l \o GrantEvents(rows, id)) = (Live(l) \ {g.id : g \in rows}) \cup {id}
<1>1. RevokedEvents(rows) \in Seq(Event) /\ Created(id) \in Event
  BY RevokedEventsTyped DEF Created, Event
<1>2. l \o GrantEvents(rows, id) = Append(l \o RevokedEvents(rows), Created(id))
  BY <1>1 DEF GrantEvents, Created
<1>3. /\ l \o RevokedEvents(rows) \in Seq(Event)
      /\ Live(l \o RevokedEvents(rows)) = Live(l) \ {g.id : g \in rows}
  BY LiveEnded
<1>4. Live(Append(l \o RevokedEvents(rows), Created(id)))
        = Live(l \o RevokedEvents(rows)) \cup {id}
  BY <1>3, LiveCreated
<1> QED
  BY <1>2, <1>3, <1>4

(* What makes EventsReplay inductive: a grant is found by its id, and the   *)
(* log of a filesystem begins empty.                                        *)
EventsInv ==
  /\ \A f \in filesystems : Standing(f) = Live(log[f.id])
  /\ \A i \in FsIds : i > fsCount => log[i] = <<>>
  /\ \A g \in grants : g.id <= grantCount
  /\ \A g, h \in grants : g.id = h.id => g = h

LEMMA Replay == EventsInv => EventsReplay
BY DEF EventsInv, EventsReplay, Standing, Live

(* Only one filesystem's log and grants change at a time. *)
LEMMA OtherLogs ==
  ASSUME IInv, EventsInv, NEW f \in filesystems, NEW more,
         log' = [log EXCEPT ![f.id] = more],
         NEW h \in filesystems, h # f,
         {g \in grants' : g.fs = h.id /\ g.active} = {g \in grants : g.fs = h.id /\ g.active}
  PROVE  Standing(h)' = Live(log'[h.id])
<1>1. h.id # f.id /\ h.id \in FsIds
  BY DEF IInv, IdsFresh, TypeOK, Filesystem
<1>2. log'[h.id] = log[h.id]
  BY <1>1 DEF IInv, TypeOK
<1>3. {g \in grants' : g.fs = h.id /\ g.active /\ g.role # "owner"}
        = {g \in grants : g.fs = h.id /\ g.active /\ g.role # "owner"}
  OBVIOUS
<1>4. Standing(h)' = Standing(h)
  BY <1>3 DEF Standing
<1> QED
  BY <1>2, <1>4 DEF EventsInv

(* The end of the grants of one agent, with a new one or without. *)
LEMMA GrantsTold ==
  ASSUME IInv, EventsInv, NEW f \in filesystems, NEW n \in Names, n # f.owner,
         NEW new \in SUBSET Grant, \A g, h \in new : g = h,
         \A g \in new : /\ g.id = grantCount + 1 /\ g.fs = f.id
                        /\ g.role # "owner" /\ g.active,
         grants' = (grants \ ActiveGrants(f, n)) \cup Ended(ActiveGrants(f, n)) \cup new,
         NEW more, log' = [log EXCEPT ![f.id] = more],
         Live(more) = (Live(log[f.id]) \ {g.id : g \in ActiveGrants(f, n)})
                        \cup {g.id : g \in new},
         UNCHANGED <<filesystems, fsCount>>,
         grantCount' \in Nat, grantCount <= grantCount',
         new # {} => grantCount' = grantCount + 1
  PROVE  EventsInv'
<1> DEFINE old == ActiveGrants(f, n)
<1>1. old \in SUBSET Grant /\ old \subseteq grants
  BY DEF ActiveGrants, IInv, TypeOK
<1>2. /\ \A e \in Ended(old) : ~e.active
      /\ \A e \in Ended(old) : \E g \in old : e.id = g.id /\ e.fs = g.fs
  BY <1>1, EndedFacts
<1>3. \A g, h \in old : g = h
  BY DEF ActiveGrants, IInv, OneActiveGrant
<1>4. \A e, d \in Ended(old) : e = d
  BY <1>3 DEF Ended
<1>5. \A g \in old : g.fs = f.id /\ g.active /\ g.role # "owner"
  BY DEF ActiveGrants, IInv, OwnersOwn
<1>6. grantCount \in Nat /\ \A g \in grants : g.id \in Nat
  BY BoundsAssumption DEF IInv, TypeOK, Grant, GrantIds
<1> HIDE DEF old
<1>7. grants' = (grants \ old) \cup Ended(old) \cup new
  BY DEF old
<1>8. Standing(f)' = Live(log'[f.id])
  <2>1. {g \in grants' : g.fs = f.id /\ g.active /\ g.role # "owner"}
          = ({g \in grants : g.fs = f.id /\ g.active /\ g.role # "owner"} \ old)
              \cup new
    <3>1. \A g \in grants' : g \in new \/ g \in grants \ old \/ ~g.active
      BY <1>2, <1>7
    <3>2. \A g \in new : g.fs = f.id /\ g.active /\ g.role # "owner"
      OBVIOUS
    <3>3. \A g \in (grants \ old) \cup new : g \in grants'
      BY <1>7
    <3> QED
      BY <3>1, <3>2, <3>3
  <2>2. Standing(f)' = (Standing(f) \ {g.id : g \in old}) \cup {g.id : g \in new}
    <3>1. \A g \in grants : g.id \in {x.id : x \in old} => g \in old
      BY <1>1 DEF EventsInv
    <3>2. Standing(f)' = {g.id : g \in {g \in grants' : g.fs = f.id /\ g.active
                                                        /\ g.role # "owner"}}
      BY DEF Standing
    <3> QED
      BY <2>1, <3>1, <3>2 DEF Standing
  <2>3. log'[f.id] = more
    BY DEF IInv, TypeOK, Filesystem
  <2> QED
    BY <2>2, <2>3 DEF EventsInv, old
<1>9. ASSUME NEW h \in filesystems, h # f
      PROVE  Standing(h)' = Live(log'[h.id])
  <2>1. h.id # f.id
    BY <1>9 DEF IInv, IdsFresh
  <2>2. {g \in grants' : g.fs = h.id /\ g.active} = {g \in grants : g.fs = h.id /\ g.active}
    BY <1>2, <1>5, <1>7, <2>1
  <2> QED
    BY <1>9, <2>2, OtherLogs
<1>10. \A i \in FsIds : i > fsCount' => log'[i] = <<>>
  <2>1. f.id <= fsCount /\ f.id \in Nat /\ fsCount \in Nat
    BY Ids
  <2> QED
    BY <2>1, BoundsAssumption DEF EventsInv, IInv, TypeOK, FsIds
<1>11. \A g \in grants' : g.id <= grantCount'
  <2>1. \A g \in grants' : \/ g \in new
                           \/ \E h \in grants : g.id = h.id
    BY <1>1, <1>2, <1>7
  <2>2. \A g \in grants : g.id <= grantCount'
    BY <1>6 DEF EventsInv
  <2>3. \A g \in new : g.id <= grantCount'
    BY <1>6
  <2> QED
    BY <2>1, <2>2, <2>3
<1>12. \A g, h \in grants' : g.id = h.id => g = h
  <2> SUFFICES ASSUME NEW g \in grants', NEW h \in grants', g.id = h.id
               PROVE  g = h
    OBVIOUS
  <2>1. \A x \in grants : x.id # grantCount + 1
    BY <1>6 DEF EventsInv
  <2>2. \A x \in Ended(old) : \E y \in grants : x.id = y.id /\ y \in old
    BY <1>1, <1>2
  <2>3. CASE g \in new \/ h \in new
    BY <1>7, <2>1, <2>2, <2>3
  <2>4. CASE g \notin new /\ h \notin new
    BY <1>4, <1>7, <2>2, <2>4 DEF EventsInv
  <2> QED
    BY <2>3, <2>4
<1> QED
  BY <1>8, <1>9, <1>10, <1>11, <1>12 DEF EventsInv

LEMMA EventsStep ==
  ASSUME IInv, EventsInv, [Next]_vars
  PROVE  EventsInv'
<1>1. CASE UNCHANGED <<filesystems, grants, log, grantCount, fsCount>>
  BY <1>1 DEF EventsInv, Standing
<1>2. ASSUME UNCHANGED <<filesystems, grants, log, grantCount>>,
             fsCount' = fsCount + 1
      PROVE  EventsInv'
  <2>1. \A i \in FsIds : i > fsCount' => i > fsCount
    BY <1>2, BoundsAssumption DEF IInv, TypeOK, FsIds
  <2>2. \A i \in FsIds : i > fsCount' => log'[i] = <<>>
    BY <1>2, <2>1 DEF EventsInv
  <2> QED
    BY <1>2, <2>2 DEF EventsInv, Standing
<1>3. ASSUME NEW m \in Machines, NEW p \in Profiles, NEW l \in Labels, Create(m, p, l)
      PROVE  EventsInv'
  <2> DEFINE id == fsCount + 1
  <2>0. PICK x : x = [id |-> id, label |-> l, owner |-> identity[m], profile |-> p]
    OBVIOUS
  <2> DEFINE o  == OwnerGrant(grantCount + 1, id, identity[m])
             e  == [kind |-> "fs.created", subject |-> id]
  <2>1. /\ filesystems' = filesystems \cup {x} /\ grants' = grants \cup {o}
        /\ log' = [log EXCEPT ![id] = Append(@, e)]
        /\ fsCount' = id /\ grantCount' = grantCount + 1 /\ fsCount < MaxFs
    BY <1>3, <2>0 DEF Create, AtCreate
  <2>2. /\ x.id = id /\ o.id = grantCount + 1 /\ o.fs = id /\ o.role = "owner"
        /\ e.kind # "grant.created" /\ \A s : e # Revoked(s)
    BY <2>0 DEF OwnerGrant, Revoked
  <2>3. id \in FsIds /\ e \in Event /\ fsCount \in Nat /\ grantCount \in Nat
    BY <2>1, BoundsAssumption DEF IInv, TypeOK, FsIds, Event
  <2> HIDE DEF o, e, id
  <2>4. log[id] = <<>> /\ log \in [FsIds -> Seq(Event)]
    BY <2>3 DEF EventsInv, IInv, TypeOK, id
  <2>5. /\ \A h \in filesystems : h.id < id /\ h.id \in FsIds
        /\ \A g \in grants : g.fs < id /\ g.fs \in Nat
    BY <2>3, Ids DEF id, IInv, TypeOK, Filesystem
  <2>6. Live(log'[id]) = {}
    <3>1. Live(<<>>) = {}
      BY DEF Live
    <3>2. <<>> \in Seq(Event)
      OBVIOUS
    <3>3. Live(Append(<<>>, e)) = {}
      BY <2>2, <2>3, <3>1, <3>2, LiveAfter
    <3> QED
      BY <2>1, <2>3, <2>4, <3>3
  <2>7. Standing(x)' = {}
    <3>1. \A g \in grants' : g.fs = x.id => g.role = "owner"
      BY <2>1, <2>2, <2>3, <2>5 DEF id
    <3> QED
      BY <3>1 DEF Standing
  <2>8. ASSUME NEW h \in filesystems
        PROVE  Standing(h)' = Live(log'[h.id])
    <3>1. log'[h.id] = log[h.id] /\ h.id # id
      BY <2>1, <2>3, <2>4, <2>5 DEF FsIds
    <3>2. {g \in grants' : g.fs = h.id /\ g.active /\ g.role # "owner"}
            = {g \in grants : g.fs = h.id /\ g.active /\ g.role # "owner"}
      BY <2>1, <2>2
    <3>3. Standing(h)' = Standing(h)
      BY <3>2 DEF Standing
    <3> QED
      BY <3>1, <3>3 DEF EventsInv
  <2>9. \A i \in FsIds : i > fsCount' => log'[i] = <<>>
    BY <2>1, <2>3, <2>4, BoundsAssumption DEF EventsInv, FsIds, id
  <2>10. \A g \in grants : g.id <= grantCount /\ g.id \in Nat
    BY BoundsAssumption DEF EventsInv, IInv, TypeOK, Grant, GrantIds
  <2>11. /\ \A g \in grants' : g.id <= grantCount'
         /\ \A g, h \in grants' : g.id = h.id => g = h
    BY <2>1, <2>2, <2>3, <2>10 DEF EventsInv
  <2>12. \A h \in filesystems' : Standing(h)' = Live(log'[h.id])
    BY <2>1, <2>2, <2>6, <2>7, <2>8
  <2> QED
    BY <2>9, <2>11, <2>12 DEF EventsInv
<1>4. ASSUME NEW m \in Machines, NEW f \in filesystems, Rollback(m, f)
      PROVE  EventsInv'
  <2>1. /\ filesystems' = filesystems \ {f}
        /\ grants' = {g \in grants : g.fs # f.id}
        /\ log' = [log EXCEPT ![f.id] = <<>>]
        /\ UNCHANGED <<fsCount, grantCount>>
    BY <1>4 DEF Rollback, places
  <2>2. ASSUME NEW h \in filesystems, h # f
        PROVE  Standing(h)' = Live(log'[h.id])
    <3>1. h.id # f.id
      BY <2>2 DEF IInv, IdsFresh
    <3>2. {g \in grants' : g.fs = h.id /\ g.active} = {g \in grants : g.fs = h.id /\ g.active}
      BY <2>1, <3>1
    <3> QED
      BY <2>1, <2>2, <3>2, OtherLogs
  <2>3. \A i \in FsIds : i > fsCount' => log'[i] = <<>>
    BY <2>1 DEF EventsInv, IInv, TypeOK
  <2> QED
    BY <2>1, <2>2, <2>3 DEF EventsInv
<1>5. ASSUME NEW m \in Machines, NEW f \in filesystems, NEW target \in Names,
             NEW role \in Roles, NEW scopes \in SUBSET Paths,
             FsGrant(m, f, target, role, scopes)
      PROVE  EventsInv'
  <2> DEFINE old == ActiveGrants(f, target)
             id  == grantCount + 1
             g   == [id |-> id, fs |-> f.id, agent |-> target, role |-> role,
                     scopes |-> scopes, by |-> identity[m], active |-> TRUE]
  <2>1. /\ grants' = (grants \ old) \cup Ended(old) \cup {g}
        /\ log' = [log EXCEPT ![f.id] = @ \o GrantEvents(old, id)]
        /\ grantCount' = id /\ grantCount < MaxGrants
        /\ UNCHANGED <<filesystems, fsCount>>
        /\ role # "owner" /\ target # f.owner /\ Signed(m)
    BY <1>5 DEF FsGrant, Superseded, MayGrant, places
  <2>2. identity[m] \in Names
    BY <2>1, SignedName DEF IInv
  <2>3. id \in Nat /\ id \in GrantIds /\ grantCount \in Nat /\ f.id \in FsIds
    BY <2>1, BoundsAssumption DEF IInv, TypeOK, GrantIds, Filesystem
  <2>4. /\ g \in Grant /\ g.id = id /\ g.fs = f.id /\ g.role # "owner" /\ g.active
    BY <2>1, <2>2, <2>3 DEF Grant
  <2> HIDE DEF g
  <2>5. old \in SUBSET Grant /\ \A y, h \in old : y = h
    BY DEF ActiveGrants, IInv, OneActiveGrant, TypeOK
  <2> DEFINE more == log[f.id] \o GrantEvents(old, id)
  <2>6. Live(more) = (Live(log[f.id]) \ {y.id : y \in old}) \cup {id}
    BY <2>3, <2>5, LiveGranted DEF IInv, TypeOK
  <2>7. {y.id : y \in {g}} = {id}
    BY <2>4
  <2>8. log' = [log EXCEPT ![f.id] = more]
    BY <2>1
  <2> DEFINE new == {g}
  <2>9. /\ new \in SUBSET Grant /\ \A y, h \in new : y = h
        /\ \A y \in new : /\ y.id = grantCount + 1 /\ y.fs = f.id
                          /\ y.role # "owner" /\ y.active
    BY <2>4
  <2>10. grantCount' \in Nat /\ grantCount <= grantCount' /\ grantCount' = grantCount + 1
    BY <2>1, <2>3
  <2>11. Live(more) = (Live(log[f.id]) \ {y.id : y \in ActiveGrants(f, target)})
                        \cup {y.id : y \in new}
    BY <2>6, <2>7
  <2>12. /\ grants' = (grants \ ActiveGrants(f, target))
                        \cup Ended(ActiveGrants(f, target)) \cup new
         /\ UNCHANGED <<filesystems, fsCount>> /\ target # f.owner
    BY <2>1
  <2> HIDE DEF more, id, new, old
  <2> QED
    BY <2>8, <2>9, <2>10, <2>11, <2>12, GrantsTold
<1>6. ASSUME NEW m \in Machines, NEW f \in filesystems, NEW target \in Names,
             FsRevoke(m, f, target)
      PROVE  EventsInv'
  <2> DEFINE old  == ActiveGrants(f, target)
             more == log[f.id] \o RevokedEvents(old)
  <2>1. /\ grants' = (grants \ old) \cup Ended(old) \cup {}
        /\ log' = [log EXCEPT ![f.id] = more]
        /\ UNCHANGED <<filesystems, fsCount, grantCount>> /\ target # f.owner
    BY <1>6 DEF FsRevoke, places
  <2>2. old \in SUBSET Grant /\ \A y, h \in old : y = h
    BY DEF ActiveGrants, IInv, OneActiveGrant, TypeOK
  <2>3. log[f.id] \in Seq(Event) /\ grantCount \in Nat
    BY BoundsAssumption DEF IInv, TypeOK, Filesystem
  <2>4. Live(more) = (Live(log[f.id]) \ {y.id : y \in old}) \cup {y.id : y \in {}}
    BY <2>2, <2>3, LiveEnded
  <2>5. grantCount' \in Nat /\ grantCount <= grantCount'
    BY <2>1, <2>3
  <2> HIDE DEF more
  <2> QED
    BY <2>1, <2>4, <2>5, GrantsTold
<1>7. CASE \/ UNCHANGED vars
           \/ \E m \in Machines, n \in Names : Login(m, n) \/ LoginLost(m, n)
           \/ \E m \in Machines, p \in Profiles, l \in Labels : CreateBegin(m, p, l)
           \/ \E m \in Machines, f \in filesystems, target \in Names : FsShare(m, f, target)
           \/ \E m \in Machines, f \in filesystems, paths \in SUBSET Paths \ {{}} :
                AuthorizeCommit(m, f, paths)
           \/ \E m \in Machines, s \in shares : AcceptShare(m, s)
           \/ \E m \in Machines : AcceptCommit(m) \/ DropCommit(m) \/ CreateDropped(m)
  <2>1. UNCHANGED <<filesystems, grants, log, grantCount, fsCount>>
    BY <1>7 DEF vars, tables, places, Login, LoginLost, CreateBegin, FsShare,
       AuthorizeCommit, AcceptShare, AcceptCommit, DropCommit, CreateDropped
  <2> QED
    BY <1>1, <2>1
<1>8. CASE \E m \in Machines, p \in Profiles, l \in Labels : CreateFails(m, p, l)
  BY <1>2, <1>8 DEF CreateFails, tables
<1> QED
  BY <1>3, <1>4, <1>5, <1>6, <1>7, <1>8 DEF Next

-------------------------------------------------------------------------------
(* Identities *)

(* A name is new, or the machine that logs in has its token already. *)
LEMMA IdentitiesStep ==
  ASSUME TypeOK, IdentitiesHold, [Next]_vars
  PROVE  IdentitiesHold'
<1>1. ASSUME NEW m \in Machines, NEW n \in Names, Login(m, n)
      PROVE  IdentitiesHold'
  <2>1. /\ n \in agents => identity[m] = n
        /\ agents' = agents \cup {n} /\ installs' = installs \cup {<<m, n>>}
        /\ identity' = [identity EXCEPT ![m] = n]
    BY <1>1 DEF Login, Register, Admits
  <2>2. \A k \in Machines : identity[k] = n => k = m
    BY <2>1, NoneAssumption DEF IdentitiesHold
  <2>3. \A k \in Machines : identity'[k] = IF k = m THEN n ELSE identity[k]
    BY <2>1 DEF TypeOK
  <2> QED
    BY <2>1, <2>2, <2>3 DEF IdentitiesHold
<1>2. ASSUME NEW m \in Machines, NEW n \in Names, LoginLost(m, n)
      PROVE  IdentitiesHold'
  BY <1>2 DEF LoginLost, Register, IdentitiesHold
<1>3. CASE UNCHANGED people
  BY <1>3 DEF people, IdentitiesHold
<1>4. ASSUME NEW m \in Machines, NEW p \in Profiles, NEW l \in Labels,
             CreateBegin(m, p, l) \/ Create(m, p, l) \/ CreateFails(m, p, l)
      PROVE  UNCHANGED people
  BY <1>4 DEF CreateBegin, Create, CreateFails
<1>5. ASSUME NEW m \in Machines, NEW f \in filesystems,
             \/ Rollback(m, f)
             \/ \E target \in Names, role \in Roles, scopes \in SUBSET Paths :
                  FsGrant(m, f, target, role, scopes)
             \/ \E target \in Names : FsRevoke(m, f, target) \/ FsShare(m, f, target)
             \/ \E paths \in SUBSET Paths \ {{}} : AuthorizeCommit(m, f, paths)
      PROVE  UNCHANGED people
  BY <1>5 DEF Rollback, FsGrant, FsRevoke, FsShare, AuthorizeCommit
<1>6. ASSUME NEW m \in Machines,
             \/ \E s \in shares : AcceptShare(m, s)
             \/ AcceptCommit(m) \/ DropCommit(m) \/ CreateDropped(m)
      PROVE  UNCHANGED people
  BY <1>6 DEF AcceptShare, AcceptCommit, DropCommit, CreateDropped
<1>7. UNCHANGED vars => UNCHANGED people
  BY DEF vars
<1> QED
  BY <1>1, <1>2, <1>3, <1>4, <1>5, <1>6, <1>7 DEF Next

-------------------------------------------------------------------------------
(* Theorems *)

LEMMA Invariance == Spec => []IInv
BY Initially, Inductive, PTL DEF Spec

(* Type correctness of the service and of what its clients keep. *)
THEOREM TypeCorrect == Spec => []TypeOK
<1>1. IInv => TypeOK
  BY DEF IInv
<1> QED
  BY <1>1, Invariance, PTL

(* At most one grant of a filesystem is in force for an agent, whatever the *)
(* order of the calls of fs_grant, fs_revoke and create_filesystem.         *)
THEOREM UniqueGrant == Spec => []OneActiveGrant
<1>1. IInv => OneActiveGrant
  BY DEF IInv
<1> QED
  BY <1>1, Invariance, PTL

(* No sequence of grants makes a manager a committer or lets an agent give  *)
(* itself the right to commit (the check in fs_grant).                      *)
THEOREM DutiesSeparated == Spec => []SeparationOfDuty
<1>1. IInv => SeparationOfDuty
  BY Separation DEF IInv
<1> QED
  BY <1>1, Invariance, PTL

(* The authorized_by of every commit, recorded or under way, can be         *)
(* explained from the tables, also after revocations and replacements.      *)
THEOREM AuditTrail == Spec => []AuditExplains
<1>1. IInv => AuditExplains
  BY DEF IInv
<1> QED
  BY <1>1, Invariance, PTL

(* Shares and grants never point at rows that are gone. *)
THEOREM RowsStay == Spec => []NoDanglingRows
<1>1. Init => NoDanglingRows
  BY DEF Init, NoDanglingRows
<1> QED
  BY <1>1, RowsStep, Invariance, PTL DEF Spec

(* If creates do not overlap, every filesystem has a source of its own with *)
(* its complete metadata, whatever create_filesystem meets on its way.      *)
THEOREM SourcesOwned ==
  ASSUME CreatesApart
  PROVE  Spec => []SourceOwned
<1>1. Init => SourcesInv
  BY DEF Init, SourcesInv, SourceOwned
<1>2. IInv /\ SourcesInv /\ [Next]_vars => SourcesInv'
  BY SourcesStep
<1>3. SourcesInv => SourceOwned
  BY DEF SourcesInv
<1> QED
  BY <1>1, <1>2, <1>3, Invariance, PTL DEF Spec

(* The events of a filesystem, replayed in order, give the grants in force: *)
(* fs_grant and fs_revoke tell of every grant they end, and no id is given  *)
(* out twice.                                                               *)
THEOREM EventsTell == Spec => []EventsReplay
<1>1. Init => EventsInv
  <2> SUFFICES ASSUME Init PROVE EventsInv
    OBVIOUS
  <2> QED
    BY DEF Init, EventsInv
<1>2. IInv /\ EventsInv /\ [Next]_vars => EventsInv'
  BY EventsStep
<1> QED
  BY <1>1, <1>2, Replay, Invariance, PTL DEF Spec

(* No two machines act as one agent, and what a machine's store holds is an *)
(* identity the service accepts, whatever logins are lost (register_agent). *)
THEOREM IdentitiesKept == Spec => []IdentitiesHold
<1>1. Init => IdentitiesHold
  BY DEF Init, IdentitiesHold
<1>2. TypeOK /\ IdentitiesHold /\ [Next]_vars => IdentitiesHold'
  BY IdentitiesStep
<1> QED
  BY <1>1, <1>2, TypeCorrect, PTL DEF Spec

===============================================================================
