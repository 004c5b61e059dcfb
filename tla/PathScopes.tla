------------------------------ MODULE PathScopes ------------------------------
(***************************************************************************)
(* Path scopes: which paths a scope stands for, and the commits of an      *)
(* agent whose grant has scopes while the owner changes the grant and the  *)
(* protected paths in AGENTS.md.                                           *)
(*                                                                         *)
(* sectiond/src/agentfs.rs (path_matches_scope), control_plane.rs          *)
(* (enforce_agentfs_rules), control_service.rs (authorize_paths).  A path  *)
(* is a sequence of names, a name a sequence of letters; a scope is a      *)
(* sequence of patterns, and a pattern the sequence of the texts between   *)
(* its stars.                                                              *)
(***************************************************************************)
EXTENDS Naturals, FiniteSets, SequencesExt

CONSTANTS
  Letters,     \* of names
  Paths,       \* paths an agent changes
  RulesPath,   \* AGENTS.md
  Scopes,      \* scopes of grants
  RuleScopes,  \* scopes of protected paths
  Everything,  \* a grant without scopes
  MaxChanged, MaxCommits   \* bounds on a commit's paths and on the commits

ASSUME ScopesAssumption ==
  RulesPath \in Paths /\ Everything \notin Scopes
ASSUME TextsAssumption ==
  /\ Paths \subseteq Seq(Seq(Letters))
  /\ Scopes \cup RuleScopes \subseteq Seq(Seq(Seq(Letters)) \ {<<>>})
ASSUME BoundsAssumption ==
  MaxChanged \in Nat /\ MaxCommits \in Nat

-----------------------------------------------------------------------------
(***************************************************************************)
(* Matching.                                                               *)
(***************************************************************************)
AnyDepth == <<<<>>, <<>>, <<>>>>   \* "**"
Starred(pattern) == Len(pattern) > 1

OccursAt(text, name, i) ==
  i + Len(text) <= Len(name) /\ SubSeq(name, i + 1, i + Len(text)) = text

(* where the first occurrence of a text at or behind a place ends, if any; *)
(* a text that no star precedes must stand right there                     *)
Taken(text, name, from, anchored) ==
  LET places == {i \in from..Len(name) :
                   OccursAt(text, name, i) /\ (anchored => i = from)}
  IN  {i + Len(text) : i \in {j \in places : \A k \in places : j <= k}}

Behind(name, pattern) ==
  LET behind[k \in 0..Len(pattern)] ==
        IF k = 0 THEN {0}
        ELSE UNION {Taken(pattern[k], name, from, k = 1) : from \in behind[k - 1]}
  IN  behind[Len(pattern)]

(* wrong: what is left of the name is not looked at *)
StartMatches(name, pattern) == Behind(name, pattern) # {}
(* segment_matches *)
SegmentMatches(name, pattern) ==
  LET rest == Behind(name, pattern) IN
  IF Starred(pattern) /\ Last(pattern) = <<>> THEN rest # {}
  ELSE Len(name) \in rest

(* behind so many names of a path and so many patterns of a scope *)
Positions(path, scope) == (0..Len(path)) \X (0..Len(scope))

(* wrong: two stars stand for at least one name *)
MatchesBelow(path, scope) ==
  LET matches[at \in Positions(path, scope)] ==
        LET i == at[1]  j == at[2] IN
        IF j = Len(scope) THEN i = Len(path)
        ELSE IF scope[j + 1] = AnyDepth
        THEN i < Len(path) /\ (matches[<<i + 1, j + 1>>] \/ matches[<<i + 1, j>>])
        ELSE /\ i < Len(path)
             /\ SegmentMatches(path[i + 1], scope[j + 1]) /\ matches[<<i + 1, j + 1>>]
  IN  matches[<<0, 0>>]
(* path_segments_match *)
Matches(path, scope) ==
  LET matches[at \in Positions(path, scope)] ==
        LET i == at[1]  j == at[2] IN
        IF j = Len(scope) THEN i = Len(path)
        ELSE IF scope[j + 1] = AnyDepth
        THEN matches[<<i, j + 1>>] \/ (i < Len(path) /\ matches[<<i + 1, j>>])
        ELSE /\ i < Len(path)
             /\ SegmentMatches(path[i + 1], scope[j + 1]) /\ matches[<<i + 1, j + 1>>]
  IN  matches[<<0, 0>>]

-----------------------------------------------------------------------------
(***************************************************************************)
(* What globs mean: a star stands for any text within a name, two stars    *)
(* for any names.  The reference for Matches.                              *)
(***************************************************************************)
GlobName(name, pattern) ==
  LET last == Len(pattern) IN
  \E at \in [1..last -> 0..Len(name)] :
    /\ at[1] = 0 /\ at[last] + Len(pattern[last]) = Len(name)
    /\ \A k \in 1..last : OccursAt(pattern[k], name, at[k])
    /\ \A k \in 2..last : at[k - 1] + Len(pattern[k - 1]) <= at[k]
Glob(path, scope) ==
  \E cut \in [0..Len(scope) -> 0..Len(path)] :
    /\ cut[0] = 0 /\ cut[Len(scope)] = Len(path)
    /\ \A j \in 1..Len(scope) :
         IF scope[j] = AnyDepth THEN cut[j - 1] <= cut[j]
         ELSE cut[j] = cut[j - 1] + 1 /\ GlobName(path[cut[j]], scope[j])

(* the text behind the last star of a pattern occurs in a name only once *)
Clear(path, scope) ==
  \A i \in DOMAIN path, j \in DOMAIN scope :
    Starred(scope[j]) /\ Last(scope[j]) # <<>> =>
      Cardinality({x \in 0..Len(path[i]) : OccursAt(Last(scope[j]), path[i], x)}) <= 1

-----------------------------------------------------------------------------
(***************************************************************************)
(* The commits of an agent that is not the owner: its role does not let it *)
(* manage.                                                                 *)
(***************************************************************************)
VARIABLES
  rules,    \* the protected paths in the AGENTS.md of the source
  scopes,   \* of the agent's grant, or Everything
  head,     \* how many commits there are
  changes,  \* the paths that are changed
  base,     \* the head a commit under way was begun on
  step      \* "edit", "begun" or "enforced"

vars == <<rules, scopes, head, changes, base, step>>

Init ==
  /\ rules = {} /\ scopes = Everything
  /\ head = 0 /\ base = 0
  /\ changes = {} /\ step = "edit"

(* enforce_agentfs_rules: such a commit takes the right to manage *)
NeedsManage(paths) ==
  RulesPath \in paths \/ \E p \in paths, s \in rules : Matches(p, s)

(* wrong: one path in scope is enough *)
AnyAuthorized(paths) ==
  scopes # Everything => \E p \in paths, s \in scopes : Matches(p, s)
(* matched_path_scopes *)
Authorized(paths) ==
  scopes # Everything => \A p \in paths : \E s \in scopes : Matches(p, s)

Change(p) ==
  /\ step = "edit" /\ Cardinality(changes) < MaxChanged
  /\ changes' = changes \cup {p}
  /\ UNCHANGED <<rules, scopes, head, base, step>>

(* commit_apply: the head is read, then the rules, and then, under the *)
(* lock, the head again and the grant                                  *)
Begin ==
  /\ step = "edit" /\ changes # {}
  /\ base' = head /\ step' = "begun"
  /\ UNCHANGED <<rules, scopes, head, changes>>
Enforce ==
  /\ step = "begun"
  /\ step' = IF NeedsManage(changes) THEN "edit" ELSE "enforced"
  /\ UNCHANGED <<rules, scopes, head, changes, base>>
(* wrong: the head is not compared again *)
AcceptsAnyBase == Authorized(changes)
Accepts == base = head /\ Authorized(changes)
Accept ==
  /\ step = "enforced" /\ Accepts /\ head < MaxCommits
  /\ head' = head + 1 /\ changes' = {} /\ step' = "edit"
  /\ UNCHANGED <<rules, scopes, base>>
Refuse ==
  /\ step = "enforced" /\ ~Accepts
  /\ step' = "edit"
  /\ UNCHANGED <<rules, scopes, head, changes, base>>

(* the owner replaces the grant, or commits a new AGENTS.md *)
FsGrant(granted) ==
  /\ scopes' = granted
  /\ UNCHANGED <<rules, head, changes, base, step>>
CommitRules(protected) ==
  /\ head < MaxCommits /\ head' = head + 1
  /\ rules' = protected
  /\ UNCHANGED <<scopes, changes, base, step>>

Next ==
  \/ \E p \in Paths : Change(p)
  \/ Begin \/ Enforce \/ Accept \/ Refuse
  \/ \E s \in Scopes : FsGrant({s})
  \/ FsGrant(Everything)
  \/ \E s \in RuleScopes : CommitRules({s})

Spec == Init /\ [][Next]_vars

-----------------------------------------------------------------------------
(***************************************************************************)
(* An accepted commit lies within the grant and outside the protected      *)
(* paths, as they are when it is accepted and as globs mean them, although *)
(* the rules were read before the lock was taken.  A protected scope whose *)
(* last text recurs in a name is left out, see Clear (agentfs.rs:615,      *)
(* control_plane.rs:650, 681).                                             *)
(***************************************************************************)
AcceptedWithinBounds ==
  [][Accept => \A p \in changes :
       /\ p # RulesPath
       /\ scopes # Everything => \E s \in scopes : Glob(p, s)
       /\ \A s \in rules : Glob(p, s) => ~Clear(p, s)]_vars

(* A commit that lies within the grant and outside the protected paths is  *)
(* not refused for its paths, unless the last text of a scope recurs in a  *)
(* name (agentfs.rs:598, 615).                                             *)
InScopeAccepted ==
  (/\ RulesPath \notin changes
   /\ \A p \in changes :
        /\ scopes # Everything => \E s \in scopes : Glob(p, s) /\ Clear(p, s)
        /\ \A s \in rules : ~Glob(p, s))
    => ~NeedsManage(changes) /\ Authorized(changes)
=============================================================================
