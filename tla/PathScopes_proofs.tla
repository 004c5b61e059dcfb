--------------------------- MODULE PathScopes_proofs ---------------------------
(***************************************************************************)
(* Matching does what globs mean, for any names and patterns, and so what  *)
(* is accepted lies within the grant and outside the protected paths; at   *)
(* the end, the event log.                                                 *)
(*                                                                         *)
(* The argument.  Both recursions are functions, and each is shown to have *)
(* one solution, a set or a predicate without recursion: that it is one is *)
(* calculated, and that there is no other follows from the least place at  *)
(* which two would differ (LeastExists).  What the loop over the texts of  *)
(* a pattern leaves is the first end of all ways to place them in the      *)
(* name, since the first occurrence of a text leaves most room for those   *)
(* behind it (ReachedStep).  That first end is the end of the name when    *)
(* some way ends there and the last text occurs once (SegmentComplete).    *)
(* What the recursion over path and scope finds is a cut of the path       *)
(* (MatchesIsCut).                                                         *)
(***************************************************************************)
EXTENDS PathScopes, EventLog, FiniteSetTheorems, WellFoundedInduction, TLAPS

Patterns == Seq(Seq(Letters)) \ {<<>>}

(* the least of a set of numbers, if any *)
Least(S) == {e \in S : \A x \in S : e <= x}

(* a set of numbers that is not empty has a least one *)
LEMMA LeastExists ==
  ASSUME NEW S \in SUBSET Nat, S # {}
  PROVE  \E e \in S : Least(S) = {e} /\ \A x \in S : e <= x
<1>1. PICK e \in S : \A x \in S : ~(<<x, e>> \in OpToRel(<, Nat))
  BY WFMin, NatLessThanWellFounded
<1>2. \A x \in S : e <= x
  <2> SUFFICES ASSUME NEW x \in S PROVE e <= x
    OBVIOUS
  <2>0. x \in Nat /\ e \in Nat
    OBVIOUS
  <2>1. ~(<<x, e>> \in OpToRel(<, Nat))
    BY <1>1
  <2>2. ASSUME x < e PROVE FALSE
    <3> DEFINE both == <<x, e>>
    <3>1. both \in Nat \X Nat /\ both[1] = x /\ both[2] = e
      BY <2>0
    <3> HIDE DEF both
    <3>2. both \in OpToRel(<, Nat)
      BY <2>2, <3>1, Zenon DEF OpToRel
    <3> QED BY <2>1, <3>2 DEF both
  <2>3. ~(x < e)
    BY <2>2
  <2> QED BY <2>0, <2>3
<1>3. Least(S) = {e}
  <2>1. \A y \in Least(S) : y = e
    <3> SUFFICES ASSUME NEW y \in Least(S) PROVE y = e
      OBVIOUS
    <3>1. y \in Nat /\ e \in Nat /\ y <= e /\ e <= y
      BY <1>2 DEF Least
    <3> QED BY <3>1
  <2> QED BY <1>2, <2>1 DEF Least
<1> QED BY <1>2, <1>3

-----------------------------------------------------------------------------
(***************************************************************************)
(* Patterns.  A placement puts the first texts of a pattern into a name,   *)
(* one behind the other.                                                   *)
(***************************************************************************)
Placements(name, pattern, k) ==
  {at \in [1..k -> 0..Len(name)] :
     /\ at[1] = 0
     /\ \A m \in 1..k : OccursAt(pattern[m], name, at[m])
     /\ \A m \in 2..k : at[m - 1] + Len(pattern[m - 1]) <= at[m]}
(* where they end *)
Ends(name, pattern, k) ==
  {at[k] + Len(pattern[k]) : at \in Placements(name, pattern, k)}
(* where a text may stand, from some place on *)
Spots(text, name, from) == {i \in from..Len(name) : OccursAt(text, name, i)}

LEMMA TextsTyped ==
  ASSUME NEW name \in Seq(Letters), NEW pattern \in Patterns
  PROVE  /\ Len(name) \in Nat /\ Len(pattern) \in Nat /\ 1 <= Len(pattern)
         /\ \A k \in 1..Len(pattern) : pattern[k] \in Seq(Letters) /\ Len(pattern[k]) \in Nat
<1>1. pattern \in Seq(Seq(Letters)) /\ pattern # <<>>
  BY DEF Patterns
<1>2. Len(name) \in Nat /\ Len(pattern) \in Nat /\ Len(pattern) # 0
  BY <1>1
<1>3. \A k \in 1..Len(pattern) : pattern[k] \in Seq(Letters)
  BY <1>1
<1> QED BY <1>2, <1>3

(* The first text has one place. *)
LEMMA EndsOfOne ==
  ASSUME NEW name \in Seq(Letters), NEW pattern \in Patterns
  PROVE  Ends(name, pattern, 1)
           = IF OccursAt(pattern[1], name, 0) THEN {Len(pattern[1])} ELSE {}
<1>0. Len(name) \in Nat /\ Len(pattern[1]) \in Nat
  BY TextsTyped
<1>1. ASSUME NEW at \in Placements(name, pattern, 1)
      PROVE  OccursAt(pattern[1], name, 0) /\ at[1] + Len(pattern[1]) = Len(pattern[1])
  BY <1>0 DEF Placements
<1>2. CASE OccursAt(pattern[1], name, 0)
  <2> DEFINE at == [m \in 1..1 |-> 0]
  <2>1. at \in Placements(name, pattern, 1)
    BY <1>0, <1>2 DEF Placements
  <2>2. at[1] + Len(pattern[1]) = Len(pattern[1])
    BY <1>0
  <2> QED BY <1>1, <1>2, <2>1, <2>2 DEF Ends
<1>3. CASE ~OccursAt(pattern[1], name, 0)
  BY <1>1, <1>3 DEF Ends
<1> QED BY <1>2, <1>3

(* A further text stands anywhere behind the end of those before it. *)
LEMMA EndsOfMore ==
  ASSUME NEW name \in Seq(Letters), NEW pattern \in Patterns,
         NEW k \in Nat, 1 <= k, k + 1 <= Len(pattern)
  PROVE  Ends(name, pattern, k + 1)
           = UNION {{i + Len(pattern[k + 1]) : i \in Spots(pattern[k + 1], name, from)} :
                      from \in Ends(name, pattern, k)}
<1> DEFINE text == pattern[k + 1]
           Next2 == UNION {{i + Len(text) : i \in Spots(text, name, from)} :
                             from \in Ends(name, pattern, k)}
<1>0. /\ Len(name) \in Nat /\ Len(text) \in Nat /\ Len(pattern) \in Nat
      /\ \A m \in 1..k : Len(pattern[m]) \in Nat
  BY TextsTyped
<1>1. ASSUME NEW at \in Placements(name, pattern, k + 1)
      PROVE  at[k + 1] + Len(text) \in Next2
  <2> DEFINE before == [m \in 1..k |-> at[m]]
             from == before[k] + Len(pattern[k])
  <2>1. before \in Placements(name, pattern, k)
    <3>1. at \in [1..k + 1 -> 0..Len(name)] /\ at[1] = 0
      BY DEF Placements
    <3>2. before \in [1..k -> 0..Len(name)] /\ before[1] = 0
      BY <3>1
    <3>3. \A m \in 1..k : OccursAt(pattern[m], name, before[m])
      BY DEF Placements
    <3>4. \A m \in 2..k : before[m - 1] + Len(pattern[m - 1]) <= before[m]
      BY DEF Placements
    <3> QED BY <3>2, <3>3, <3>4 DEF Placements
  <2>2. from \in Ends(name, pattern, k)
    BY <2>1 DEF Ends
  <2>3. at[k + 1] \in 0..Len(name) /\ OccursAt(text, name, at[k + 1]) /\ from <= at[k + 1]
    BY DEF Placements
  <2>4. from \in Nat
    <3>1. at[k] \in 0..Len(name)
      BY DEF Placements
    <3> QED BY <1>0, <3>1
  <2>5. at[k + 1] \in Spots(text, name, from)
    BY <1>0, <2>3, <2>4 DEF Spots
  <2> QED BY <2>2, <2>5
<1>2. ASSUME NEW before \in Placements(name, pattern, k),
             NEW i \in Spots(text, name, before[k] + Len(pattern[k]))
      PROVE  i + Len(text) \in Ends(name, pattern, k + 1)
  <2> DEFINE at == [m \in 1..k + 1 |-> IF m <= k THEN before[m] ELSE i]
  <2>1. before \in [1..k -> 0..Len(name)] /\ before[1] = 0
    BY DEF Placements
  <2>2. i \in 0..Len(name) /\ OccursAt(text, name, i) /\ before[k] + Len(pattern[k]) <= i
    BY <1>0, <2>1 DEF Spots
  <2>3. at \in [1..k + 1 -> 0..Len(name)] /\ at[1] = 0 /\ at[k + 1] = i
    BY <2>1, <2>2
  <2>4. \A m \in 1..k : at[m] = before[m]
    OBVIOUS
  <2>5. \A m \in 1..k + 1 : OccursAt(pattern[m], name, at[m])
    <3>1. \A m \in 1..k : OccursAt(pattern[m], name, at[m])
      BY <2>4 DEF Placements
    <3>2. \A m \in 1..k + 1 : m \in 1..k \/ m = k + 1
      OBVIOUS
    <3> HIDE DEF at
    <3> QED BY <2>2, <2>3, <3>1, <3>2
  <2>6. \A m \in 2..k + 1 : at[m - 1] + Len(pattern[m - 1]) <= at[m]
    <3>1. \A m \in 2..k : before[m - 1] + Len(pattern[m - 1]) <= before[m]
      BY DEF Placements
    <3>2. \A m \in 2..k : at[m - 1] + Len(pattern[m - 1]) <= at[m]
      BY <2>4, <3>1
    <3>3. at[k] + Len(pattern[k]) <= at[k + 1]
      BY <2>2, <2>3, <2>4
    <3> QED BY <3>2, <3>3
  <2>7. at \in Placements(name, pattern, k + 1)
    BY <2>3, <2>5, <2>6 DEF Placements
  <2> QED BY <2>3, <2>7 DEF Ends
<1>3. Ends(name, pattern, k + 1) \subseteq Next2
  BY <1>1 DEF Ends
<1>4. Next2 \subseteq Ends(name, pattern, k + 1)
  BY <1>2 DEF Ends
<1> QED BY <1>3, <1>4

LEMMA EndsNumbers ==
  ASSUME NEW name \in Seq(Letters), NEW pattern \in Patterns, NEW k \in 1..Len(pattern)
  PROVE  Ends(name, pattern, k) \in SUBSET Nat
<1> SUFFICES ASSUME NEW at \in Placements(name, pattern, k)
             PROVE  at[k] + Len(pattern[k]) \in Nat
  BY DEF Ends
<1>1. at[k] \in Nat
  BY TextsTyped DEF Placements
<1> QED BY <1>1, TextsTyped

(***************************************************************************)
(* What segment_matches computes.                                          *)
(***************************************************************************)
(* The first occurrence of a text ends first. *)
LEMMA TakenIsLeast ==
  ASSUME NEW text \in Seq(Letters), NEW name \in Seq(Letters), NEW from \in Nat
  PROVE  Taken(text, name, from, FALSE)
           = Least({i + Len(text) : i \in Spots(text, name, from)})
<1> DEFINE spots == Spots(text, name, from)
           least == {j \in spots : \A k \in spots : j <= k}
           ends == {i + Len(text) : i \in spots}
<1>0. Len(text) \in Nat /\ spots \in SUBSET Nat
  BY DEF Spots
<1>1. Taken(text, name, from, FALSE) = {i + Len(text) : i \in least}
  <2>1. spots = {i \in from..Len(name) : OccursAt(text, name, i) /\ (FALSE => i = from)}
    BY DEF Spots
  <2> HIDE DEF spots
  <2> QED BY <2>1 DEF Taken
<1> HIDE DEF spots
<1>2. ASSUME NEW i \in least PROVE i + Len(text) \in Least(ends)
  <2>1. i \in Nat /\ \A k \in spots : k \in Nat /\ i + Len(text) <= k + Len(text)
    BY <1>0
  <2> QED BY <2>1 DEF Least
<1>3. ASSUME NEW e \in Least(ends) PROVE e \in {i + Len(text) : i \in least}
  <2>1. PICK i \in spots : e = i + Len(text)
    BY DEF Least
  <2>2. \A k \in spots : i + Len(text) <= k + Len(text)
    BY <2>1 DEF Least
  <2>3. \A k \in spots : i <= k
    BY <1>0, <2>2
  <2> QED BY <2>1, <2>3
<1> DEFINE taken == {i + Len(text) : i \in least}
<1>4. taken \subseteq Least(ends)
  BY <1>2
<1>5. Least(ends) \subseteq taken
  BY <1>3
<1>6. Taken(text, name, from, FALSE) = taken
  BY <1>1
<1> HIDE DEF taken, ends
<1>7. Taken(text, name, from, FALSE) = Least(ends)
  BY <1>4, <1>5, <1>6
<1> QED BY <1>7 DEF ends, spots

(* A text no star precedes stands at the beginning or nowhere. *)
LEMMA TakenAnchored ==
  ASSUME NEW text \in Seq(Letters), NEW name \in Seq(Letters)
  PROVE  Taken(text, name, 0, TRUE)
           = IF OccursAt(text, name, 0) THEN {Len(text)} ELSE {}
<1> DEFINE places == {i \in 0..Len(name) : OccursAt(text, name, i) /\ (TRUE => i = 0)}
<1>0. Len(text) \in Nat /\ Len(name) \in Nat
  OBVIOUS
<1>1. Taken(text, name, 0, TRUE)
        = {i + Len(text) : i \in {j \in places : \A k \in places : j <= k}}
  BY DEF Taken
<1>2. places = IF OccursAt(text, name, 0) THEN {0} ELSE {}
  BY <1>0
<1> HIDE DEF places
<1>3. CASE OccursAt(text, name, 0)
  <2>1. {j \in places : \A k \in places : j <= k} = {0}
    BY <1>2, <1>3
  <2>2. 0 + Len(text) = Len(text)
    BY <1>0
  <2> QED BY <1>1, <1>3, <2>1, <2>2
<1>4. CASE ~OccursAt(text, name, 0)
  BY <1>1, <1>2, <1>4
<1> QED BY <1>3, <1>4

(* What is left of a name after the greedy steps of the loop is what the   *)
(* first of all placements leaves.                                         *)
Reached(name, pattern, k) == IF k = 0 THEN {0} ELSE Least(Ends(name, pattern, k))
Stepped(name, pattern, before, k) ==
  IF k = 0 THEN {0}
  ELSE UNION {Taken(pattern[k], name, from, k = 1) : from \in before[k - 1]}

LEMMA ReachedStep ==
  ASSUME NEW name \in Seq(Letters), NEW pattern \in Patterns,
         NEW k \in Nat, 1 <= k, k + 1 <= Len(pattern)
  PROVE  UNION {Taken(pattern[k + 1], name, from, FALSE) :
                  from \in Least(Ends(name, pattern, k))}
           = Least(Ends(name, pattern, k + 1))
<1> DEFINE text == pattern[k + 1]
           ends == Ends(name, pattern, k)
           After(from) == {i + Len(text) : i \in Spots(text, name, from)}
<1>0. text \in Seq(Letters) /\ Len(name) \in Nat /\ Len(text) \in Nat
  BY TextsTyped
<1>1. ends \in SUBSET Nat
  BY EndsNumbers, TextsTyped
<1>2. Ends(name, pattern, k + 1) = UNION {After(from) : from \in ends}
  BY EndsOfMore
<1> HIDE DEF ends
<1>3. CASE ends = {}
  <2> HIDE DEF After
  <2>1. Ends(name, pattern, k + 1) = {} /\ Least(ends) = {} /\ Least({}) = {}
    BY <1>2, <1>3 DEF Least
  <2> QED BY <2>1 DEF ends
<1>4. CASE ends # {}
  <2>1. PICK e \in ends : Least(ends) = {e} /\ \A x \in ends : e <= x
    BY <1>1, <1>4, LeastExists
  <2>2. ASSUME NEW x \in ends PROVE After(x) \subseteq After(e)
    <3>1. x \in Nat /\ e \in Nat /\ e <= x
      BY <1>1, <2>1
    <3>2. Spots(text, name, x) \subseteq Spots(text, name, e)
      BY <1>0, <3>1 DEF Spots
    <3> QED BY <3>2
  <2>3. Ends(name, pattern, k + 1) = After(e)
    BY <1>2, <2>2
  <2>4. Taken(text, name, e, FALSE) = Least(After(e))
    BY <1>0, <1>1, TakenIsLeast
  <2>5. UNION {Taken(text, name, from, FALSE) : from \in Least(ends)}
          = Taken(text, name, e, FALSE)
    BY <2>1
  <2> QED BY <2>3, <2>4, <2>5 DEF ends
<1> QED BY <1>3, <1>4

LEMMA SteppedReached ==
  ASSUME NEW name \in Seq(Letters), NEW pattern \in Patterns, NEW before,
         NEW k \in 0..Len(pattern), k # 0 => before[k - 1] = Reached(name, pattern, k - 1)
  PROVE  Stepped(name, pattern, before, k) = Reached(name, pattern, k)
<1>0. Len(pattern) \in Nat /\ 1 <= Len(pattern) /\ k \in Nat
  BY TextsTyped
<1>1. CASE k = 0
  BY <1>1 DEF Stepped, Reached
<1>2. CASE k = 1
  <2>1. before[0] = {0}
    BY <1>2 DEF Reached
  <2>2. Stepped(name, pattern, before, k) = Taken(pattern[1], name, 0, TRUE)
    <3>1. k # 0 /\ (k = 1) = TRUE /\ k - 1 = 0
      BY <1>2
    <3>2. Stepped(name, pattern, before, k)
            = UNION {Taken(pattern[k], name, from, k = 1) : from \in before[k - 1]}
      BY <3>1 DEF Stepped
    <3>3. before[k - 1] = {0}
      BY <2>1, <3>1
    <3>4. Taken(pattern[k], name, 0, k = 1) = Taken(pattern[1], name, 0, TRUE)
      BY <1>2, <3>1 DEF Taken
    <3> QED BY <3>2, <3>3, <3>4
  <2>3. Len(pattern[1]) \in Nat /\ pattern[1] \in Seq(Letters)
    BY TextsTyped
  <2>4. Least(Ends(name, pattern, 1)) = Ends(name, pattern, 1)
    BY <2>3, EndsOfOne DEF Least
  <2>5. Taken(pattern[1], name, 0, TRUE) = Ends(name, pattern, 1)
    BY <2>3, TakenAnchored, EndsOfOne
  <2>6. Reached(name, pattern, k) = Least(Ends(name, pattern, 1))
    BY <1>2 DEF Reached
  <2> QED BY <2>2, <2>4, <2>5, <2>6
<1>3. CASE k \notin {0, 1}
  <2> DEFINE j == k - 1
  <2>1. j \in Nat /\ 1 <= j /\ j + 1 = k /\ j + 1 <= Len(pattern) /\ j # 0
    BY <1>0, <1>3
  <2>2. before[j] = Least(Ends(name, pattern, j))
    BY <1>3, <2>1 DEF Reached
  <2>3. Stepped(name, pattern, before, k)
          = UNION {Taken(pattern[k], name, from, FALSE) : from \in before[j]}
    BY <1>0, <1>3 DEF Stepped
  <2> HIDE DEF j
  <2>4. UNION {Taken(pattern[j + 1], name, from, FALSE) : from \in before[j]}
          = Least(Ends(name, pattern, j + 1))
    BY <2>1, <2>2, ReachedStep
  <2>5. Reached(name, pattern, k) = Least(Ends(name, pattern, k))
    BY <1>3 DEF Reached
  <2> QED BY <2>1, <2>3, <2>4, <2>5
<1> QED BY <1>1, <1>2, <1>3

(* The recursion has one solution. *)
LEMMA BehindIsLeast ==
  ASSUME NEW name \in Seq(Letters), NEW pattern \in Patterns
  PROVE  Behind(name, pattern) = Least(Ends(name, pattern, Len(pattern)))
<1> DEFINE n == Len(pattern)
           Solves(f) == f = [k \in 0..n |-> Stepped(name, pattern, f, k)]
           reached == [k \in 0..n |-> Reached(name, pattern, k)]
<1>0. n \in Nat /\ 1 <= n
  BY TextsTyped
<1>1. Solves(reached)
  <2>1. ASSUME NEW k \in 0..n
        PROVE  Stepped(name, pattern, reached, k) = Reached(name, pattern, k)
    <3>1. k # 0 => reached[k - 1] = Reached(name, pattern, k - 1)
      BY <1>0
    <3> HIDE DEF reached
    <3> QED BY <3>1, SteppedReached
  <2> QED BY <2>1
<1>2. ASSUME NEW f, Solves(f) PROVE f = reached
  <2> DEFINE wrong == {k \in 0..n : f[k] # reached[k]}
  <2>1. wrong = {}
    <3> SUFFICES ASSUME wrong # {} PROVE FALSE
      OBVIOUS
    <3>1. wrong \in SUBSET Nat
      OBVIOUS
    <3>2. PICK k \in wrong : \A x \in wrong : k <= x
      BY <3>1, LeastExists
    <3>3. k \in 0..n /\ k \in Nat
      BY <1>0
    <3>4. k # 0 => f[k - 1] = Reached(name, pattern, k - 1)
      <4>1. CASE k = 0
        BY <4>1
      <4>2. CASE k # 0
        <5>1. k - 1 \in 0..n /\ ~(k <= k - 1)
          BY <1>0, <3>3, <4>2
        <5> QED BY <3>2, <5>1
      <4> QED BY <4>1, <4>2
    <3>5. Stepped(name, pattern, f, k) = Reached(name, pattern, k)
      BY <3>3, <3>4, SteppedReached
    <3>6. f[k] = Stepped(name, pattern, f, k)
      BY <1>2, <3>3
    <3> QED BY <3>2, <3>3, <3>5, <3>6
  <2>2. \A k \in 0..n : f[k] = reached[k]
    BY <2>1
  <2>3. f = [k \in 0..n |-> f[k]]
    BY <1>2
  <2>4. f = [k \in 0..n |-> reached[k]]
    BY <2>2, <2>3
  <2> QED BY <2>4
<1> DEFINE behind == CHOOSE f : f = [k \in 0..n |-> IF k = 0 THEN {0}
                       ELSE UNION {Taken(pattern[k], name, from, k = 1) : from \in f[k - 1]}]
<1>3. behind = reached
  <2>1. behind = CHOOSE f : Solves(f)
    BY DEF Stepped
  <2> HIDE DEF behind, reached, Solves
  <2>2. Solves(behind)
    BY <1>1, <2>1
  <2> QED BY <1>2, <2>2
<1>4. Behind(name, pattern) = behind[n]
  BY DEF Behind
<1> HIDE DEF behind
<1>5. reached[n] = Least(Ends(name, pattern, n))
  BY <1>0 DEF Reached
<1> QED BY <1>3, <1>4, <1>5

(***************************************************************************)
(* segment_matches and what a pattern means.                               *)
(***************************************************************************)
LEMMA GlobIsEnd ==
  ASSUME NEW name \in Seq(Letters), NEW pattern \in Patterns
  PROVE  GlobName(name, pattern) <=> Len(name) \in Ends(name, pattern, Len(pattern))
BY DEF GlobName, Ends, Placements

LEMMA LastText ==
  ASSUME NEW pattern \in Patterns
  PROVE  Last(pattern) = pattern[Len(pattern)]
BY DEF Last

(* A name that matches is one the pattern stands for ... *)
LEMMA SegmentSound ==
  ASSUME NEW name \in Seq(Letters), NEW pattern \in Patterns,
         SegmentMatches(name, pattern)
  PROVE  GlobName(name, pattern)
<1> DEFINE n == Len(pattern)
           ends == Ends(name, pattern, n)
<1>0. n \in Nat /\ 1 <= n /\ Len(name) \in Nat
  BY TextsTyped
<1>1. CASE Starred(pattern) /\ Last(pattern) = <<>>
  <2>1. Least(ends) # {}
    BY <1>1, BehindIsLeast DEF SegmentMatches
  <2>2. PICK at \in Placements(name, pattern, n) : TRUE
    BY <2>1 DEF Least, Ends
  <2> DEFINE to == [m \in 1..n |-> IF m = n THEN Len(name) ELSE at[m]]
  <2>3. at \in [1..n -> 0..Len(name)] /\ at[1] = 0 /\ n # 1 /\ pattern[n] = <<>>
    BY <1>1, LastText DEF Placements, Starred
  <2>4. to \in [1..n -> 0..Len(name)] /\ to[1] = 0 /\ to[n] = Len(name)
    BY <1>0, <2>3
  <2>5. \A m \in 1..n : m # n => to[m] = at[m]
    OBVIOUS
  <2> HIDE DEF to
  <2>6. Len(pattern[n]) = 0 /\ OccursAt(pattern[n], name, Len(name))
    BY <1>0, <2>3 DEF OccursAt
  <2>7. \A m \in 1..n : OccursAt(pattern[m], name, to[m])
    <3>1. \A m \in 1..n : OccursAt(pattern[m], name, at[m])
      BY DEF Placements
    <3> QED BY <2>4, <2>5, <2>6, <3>1
  <2>8. \A m \in 2..n : to[m - 1] + Len(pattern[m - 1]) <= to[m]
    <3> SUFFICES ASSUME NEW m \in 2..n
                 PROVE  to[m - 1] + Len(pattern[m - 1]) <= to[m]
      OBVIOUS
    <3>1. at[m - 1] + Len(pattern[m - 1]) <= at[m]
      BY DEF Placements
    <3>2. m \in 1..n /\ m - 1 \in 1..n /\ m - 1 # n
      BY <1>0
    <3>3. to[m - 1] = at[m - 1] /\ at[m] \in 0..Len(name) /\ at[m - 1] \in 0..Len(name)
          /\ Len(pattern[m - 1]) \in Nat
      BY <2>3, <2>5, <3>2, TextsTyped
    <3>4. to[m] = IF m = n THEN Len(name) ELSE at[m]
      BY <2>4, <2>5, <3>2
    <3> QED BY <1>0, <3>1, <3>3, <3>4
  <2>9. to \in Placements(name, pattern, n)
    BY <2>4, <2>7, <2>8 DEF Placements
  <2>10. to[n] + Len(pattern[n]) = Len(name)
    BY <1>0, <2>4, <2>6
  <2> QED BY <2>9, <2>10, GlobIsEnd DEF Ends
<1>2. CASE ~(Starred(pattern) /\ Last(pattern) = <<>>)
  <2>1. Len(name) \in Least(ends)
    BY <1>2, BehindIsLeast DEF SegmentMatches
  <2> QED BY <2>1, GlobIsEnd DEF Least
<1> QED BY <1>1, <1>2

(* ... and the other way round, unless the text behind the last star       *)
(* occurs in it twice.                                                     *)
Occurrences(text, name) == {x \in 0..Len(name) : OccursAt(text, name, x)}

LEMMA OccursOnce ==
  ASSUME NEW text, NEW name \in Seq(Letters),
         Cardinality(Occurrences(text, name)) <= 1,
         NEW x \in Occurrences(text, name), NEW y \in Occurrences(text, name)
  PROVE  x = y
<1> DEFINE S == Occurrences(text, name)
<1>1. IsFiniteSet(S)
  <2>1. IsFiniteSet(0..Len(name))
    BY FS_Interval
  <2>2. S \subseteq 0..Len(name)
    BY DEF Occurrences
  <2> QED BY <2>1, <2>2, FS_Subset
<1> HIDE DEF S
<1>2. Cardinality(S) \in Nat /\ Cardinality(S) <= 1
  BY <1>1, FS_CardinalityType DEF S
<1>3. Cardinality(S) = 0 \/ Cardinality(S) = 1
  BY <1>2
<1>4. x \in S /\ y \in S
  BY DEF S
<1>5. S = {} \/ \E z : S = {z}
  BY <1>1, <1>3, FS_EmptySet, FS_Singleton
<1> QED BY <1>4, <1>5

LEMMA SegmentComplete ==
  ASSUME NEW name \in Seq(Letters), NEW pattern \in Patterns,
         GlobName(name, pattern),
         Starred(pattern) /\ Last(pattern) # <<>>
           => Cardinality(Occurrences(Last(pattern), name)) <= 1
  PROVE  SegmentMatches(name, pattern)
<1> DEFINE n == Len(pattern)
           ends == Ends(name, pattern, n)
<1>0. /\ n \in Nat /\ 1 <= n /\ Len(name) \in Nat
      /\ Len(pattern[n]) \in Nat /\ Last(pattern) = pattern[n]
  BY TextsTyped, LastText
<1>1. Len(name) \in ends
  BY GlobIsEnd
<1>2. ends \in SUBSET Nat
  BY <1>0, EndsNumbers
<1>3. PICK e \in ends : Least(ends) = {e}
  BY <1>1, <1>2, LeastExists
<1>4. Behind(name, pattern) = {e}
  BY <1>3, BehindIsLeast
<1>5. CASE Starred(pattern) /\ Last(pattern) = <<>>
  BY <1>4, <1>5 DEF SegmentMatches
<1>6. CASE ~Starred(pattern)
  <2>1. \A k \in Nat : 1 <= k /\ ~(k > 1) => k = 1
    OBVIOUS
  <2>2. n = 1
    BY <1>0, <1>6, <2>1 DEF Starred
  <2>3. e = Len(name)
    BY <1>1, <1>3, <2>2, EndsOfOne
  <2> QED BY <1>4, <1>6, <2>3 DEF SegmentMatches
<1>7. CASE Starred(pattern) /\ Last(pattern) # <<>>
  <2>1. ASSUME NEW x \in ends
        PROVE  \E i \in Occurrences(pattern[n], name) : i \in Nat /\ x = i + Len(pattern[n])
    <3>1. PICK at \in Placements(name, pattern, n) : x = at[n] + Len(pattern[n])
      BY DEF Ends
    <3>2. at[n] \in 0..Len(name) /\ OccursAt(pattern[n], name, at[n])
      BY <1>0 DEF Placements
    <3> QED BY <3>1, <3>2 DEF Occurrences
  <2>2. PICK i \in Occurrences(pattern[n], name) : e = i + Len(pattern[n])
    BY <2>1
  <2>3. PICK k \in Occurrences(pattern[n], name) : Len(name) = k + Len(pattern[n])
    BY <1>1, <2>1
  <2>4. i = k
    BY <1>0, <1>7, OccursOnce
  <2> QED BY <1>4, <1>7, <2>2, <2>3, <2>4 DEF SegmentMatches
<1> QED BY <1>5, <1>6, <1>7

-----------------------------------------------------------------------------
(***************************************************************************)
(* What path_segments_match computes.  A cut gives each of the patterns    *)
(* behind a place of the scope the names it stands for.                    *)
(***************************************************************************)
ScopesOf == Seq(Patterns)
Stands(path, scope, i, k, j) ==
  IF scope[j] = AnyDepth THEN i <= k
  ELSE k = i + 1 /\ SegmentMatches(path[k], scope[j])
Cuts(path, scope, i, j) ==
  {cut \in [j..Len(scope) -> 0..Len(path)] :
     /\ cut[j] = i /\ cut[Len(scope)] = Len(path)
     /\ \A m \in (j + 1)..Len(scope) : Stands(path, scope, cut[m - 1], cut[m], m)}
Cut(path, scope, at) == Cuts(path, scope, at[1], at[2]) # {}

LEMMA CutAtEnd ==
  ASSUME NEW path, Len(path) \in Nat, NEW scope, Len(scope) \in Nat, NEW i \in 0..Len(path)
  PROVE  Cuts(path, scope, i, Len(scope)) # {} <=> i = Len(path)
<1> DEFINE n == Len(scope)
<1>1. ASSUME NEW cut \in Cuts(path, scope, i, n) PROVE i = Len(path)
  BY DEF Cuts
<1>2. ASSUME i = Len(path) PROVE Cuts(path, scope, i, n) # {}
  <2> DEFINE cut == [m \in n..n |-> i]
  <2>1. cut \in [n..n -> 0..Len(path)] /\ cut[n] = i /\ (n + 1)..n = {}
    OBVIOUS
  <2> HIDE DEF cut
  <2>2. cut \in Cuts(path, scope, i, n)
    BY <1>2, <2>1 DEF Cuts
  <2> QED BY <2>2
<1> QED BY <1>1, <1>2

(* A cut is what the first pattern stands for and a cut behind it. *)
LEMMA CutBefore ==
  ASSUME NEW path, Len(path) \in Nat, NEW scope, Len(scope) \in Nat,
         NEW i \in 0..Len(path), NEW j \in Nat, j < Len(scope)
  PROVE  Cuts(path, scope, i, j) # {}
           <=> \E k \in 0..Len(path) : /\ Stands(path, scope, i, k, j + 1)
                                       /\ Cuts(path, scope, k, j + 1) # {}
<1> DEFINE n == Len(scope)
<1>1. ASSUME NEW cut \in Cuts(path, scope, i, j)
      PROVE  /\ cut[j + 1] \in 0..Len(path)
             /\ Stands(path, scope, i, cut[j + 1], j + 1)
             /\ Cuts(path, scope, cut[j + 1], j + 1) # {}
  <2> DEFINE rest == [m \in (j + 1)..n |-> cut[m]]
  <2>1. cut \in [j..n -> 0..Len(path)] /\ cut[j] = i /\ cut[n] = Len(path)
    BY DEF Cuts
  <2>2. Stands(path, scope, i, cut[j + 1], j + 1)
    <3>1. j + 1 \in (j + 1)..n /\ (j + 1) - 1 = j
      OBVIOUS
    <3> QED BY <2>1, <3>1 DEF Cuts
  <2>3. rest \in [(j + 1)..n -> 0..Len(path)] /\ rest[j + 1] = cut[j + 1]
        /\ rest[n] = Len(path) /\ cut[j + 1] \in 0..Len(path)
    BY <2>1
  <2>4. \A m \in (j + 2)..n : Stands(path, scope, rest[m - 1], rest[m], m)
    <3> SUFFICES ASSUME NEW m \in (j + 2)..n
                 PROVE  Stands(path, scope, rest[m - 1], rest[m], m)
      OBVIOUS
    <3>1. rest[m - 1] = cut[m - 1] /\ rest[m] = cut[m] /\ m \in (j + 1)..n
      OBVIOUS
    <3>2. Stands(path, scope, cut[m - 1], cut[m], m)
      BY <3>1 DEF Cuts
    <3> QED BY <3>1, <3>2
  <2> HIDE DEF rest
  <2>5. (j + 1) + 1 = j + 2
    OBVIOUS
  <2>6. rest \in Cuts(path, scope, cut[j + 1], j + 1)
    BY <2>3, <2>4, <2>5 DEF Cuts
  <2> QED BY <2>2, <2>3, <2>6
<1>2. ASSUME NEW k \in 0..Len(path), Stands(path, scope, i, k, j + 1),
             NEW rest \in Cuts(path, scope, k, j + 1)
      PROVE  Cuts(path, scope, i, j) # {}
  <2> DEFINE cut == [m \in j..n |-> IF m = j THEN i ELSE rest[m]]
  <2>1. rest \in [(j + 1)..n -> 0..Len(path)] /\ rest[j + 1] = k /\ rest[n] = Len(path)
    BY DEF Cuts
  <2>2. cut \in [j..n -> 0..Len(path)] /\ cut[j] = i /\ cut[n] = Len(path)
        /\ cut[j + 1] = k
    BY <2>1
  <2>3. \A m \in (j + 1)..n : cut[m] = rest[m]
    OBVIOUS
  <2> HIDE DEF cut
  <2>4. \A m \in (j + 1)..n : Stands(path, scope, cut[m - 1], cut[m], m)
    <3> SUFFICES ASSUME NEW m \in (j + 1)..n
                 PROVE  Stands(path, scope, cut[m - 1], cut[m], m)
      OBVIOUS
    <3>1. CASE m = j + 1
      <4>1. m - 1 = j
        BY <3>1
      <4> QED BY <1>2, <2>2, <3>1, <4>1
    <3>2. CASE m # j + 1
      <4>1. m - 1 \in (j + 1)..n /\ m \in ((j + 1) + 1)..n
        BY <3>2
      <4>2. Stands(path, scope, rest[m - 1], rest[m], m)
        BY <4>1 DEF Cuts
      <4> QED BY <2>3, <4>1, <4>2
    <3> QED BY <3>1, <3>2
  <2>5. cut \in Cuts(path, scope, i, j)
    BY <2>2, <2>4 DEF Cuts
  <2> QED BY <2>5
<1> QED BY <1>1, <1>2

(* The recursion, and that the cuts satisfy it. *)
Recursion(path, scope, matches, at) ==
  LET i == at[1]  j == at[2] IN
  IF j = Len(scope) THEN i = Len(path)
  ELSE IF scope[j + 1] = AnyDepth
  THEN matches[<<i, j + 1>>] \/ (i < Len(path) /\ matches[<<i + 1, j>>])
  ELSE /\ i < Len(path)
       /\ SegmentMatches(path[i + 1], scope[j + 1]) /\ matches[<<i + 1, j + 1>>]

(* a place the recursion reaches from another *)
Nearer(path, scope, to, at) == at[1] + at[2] < to[1] + to[2]

LEMMA CutsRecur ==
  ASSUME NEW path \in Seq(Seq(Letters)), NEW scope \in ScopesOf,
         NEW matches,
         NEW i \in 0..Len(path), NEW j \in 0..Len(scope),
         \A at \in Positions(path, scope) : Nearer(path, scope, at, <<i, j>>)
           => matches[at] = Cut(path, scope, at)
  PROVE  Recursion(path, scope, matches, <<i, j>>) = Cut(path, scope, <<i, j>>)
<1> DEFINE at == <<i, j>>
           C(k, m) == Cuts(path, scope, k, m) # {}
<1>0. /\ Len(path) \in Nat /\ Len(scope) \in Nat /\ at[1] = i /\ at[2] = j
      /\ i \in Nat /\ i <= Len(path) /\ j \in Nat /\ j <= Len(scope)
  BY DEF ScopesOf
<1>01. ASSUME NEW k \in 0..Len(path), NEW m \in 0..Len(scope), i + j < k + m
       PROVE  matches[<<k, m>>] = C(k, m)
  <2> DEFINE to == <<k, m>>
  <2>1. to \in Positions(path, scope) /\ to[1] = k /\ to[2] = m
    BY DEF Positions
  <2> HIDE DEF to
  <2>2. Nearer(path, scope, to, at)
    BY <1>0, <1>01, <2>1 DEF Nearer
  <2>3. matches[to] = Cut(path, scope, to)
    BY <2>1, <2>2
  <2> QED BY <2>1, <2>3 DEF Cut, to
<1>1. Cut(path, scope, at) = C(i, j)
  BY <1>0 DEF Cut
<1> HIDE DEF at
<1> SUFFICES Recursion(path, scope, matches, at) = Cut(path, scope, at)
  BY DEF at
<1>2. /\ j # Len(scope) => matches[<<i, j + 1>>] = C(i, j + 1)
      /\ j # Len(scope) /\ i < Len(path) => /\ matches[<<i + 1, j>>] = C(i + 1, j)
                                           /\ matches[<<i + 1, j + 1>>] = C(i + 1, j + 1)
  <2>1. j # Len(scope) => j + 1 \in 0..Len(scope) /\ i + j < i + (j + 1)
    BY <1>0
  <2>2. i < Len(path) => i + 1 \in 0..Len(path) /\ i + j < (i + 1) + j
    BY <1>0
  <2>3. i + j < (i + 1) + (j + 1)
    BY <1>0
  <2> HIDE DEF C
  <2> QED BY <1>01, <2>1, <2>2, <2>3
<1>3. CASE j = Len(scope)
  <2>1. C(i, j) <=> i = Len(path)
    BY <1>0, <1>3, CutAtEnd
  <2>2. Recursion(path, scope, matches, at) = (i = Len(path))
    BY <1>0, <1>3 DEF Recursion
  <2> QED BY <1>1, <2>1, <2>2
<1>4. CASE j # Len(scope)
  <2>0. j < Len(scope) /\ i \in 0..Len(path)
    BY <1>0, <1>4
  <2>1. C(i, j) <=> \E k \in 0..Len(path) : Stands(path, scope, i, k, j + 1) /\ C(k, j + 1)
    BY <1>0, <2>0, CutBefore
  <2>2. CASE scope[j + 1] = AnyDepth
    <3>1. C(i, j) <=> \E k \in 0..Len(path) : i <= k /\ C(k, j + 1)
      BY <2>1, <2>2 DEF Stands
    <3>2. i < Len(path) =>
            (C(i + 1, j) <=> \E k \in 0..Len(path) : i + 1 <= k /\ C(k, j + 1))
      <4> SUFFICES ASSUME i < Len(path)
                   PROVE  C(i + 1, j) <=> \E k \in 0..Len(path) : i + 1 <= k /\ C(k, j + 1)
        OBVIOUS
      <4>1. i + 1 \in 0..Len(path)
        BY <1>0
      <4>2. C(i + 1, j)
              <=> \E k \in 0..Len(path) : Stands(path, scope, i + 1, k, j + 1) /\ C(k, j + 1)
        BY <1>0, <2>0, <4>1, CutBefore
      <4> QED BY <2>2, <4>2 DEF Stands
    <3> HIDE DEF C
    <3>3. \A k \in 0..Len(path) : i <= k <=> k = i \/ (i < Len(path) /\ i + 1 <= k)
      BY <1>0
    <3>4. C(i, j) <=> C(i, j + 1) \/ (i < Len(path) /\ C(i + 1, j))
      BY <2>0, <3>1, <3>2, <3>3
    <3>5. Recursion(path, scope, matches, at)
            = (matches[<<i, j + 1>>] \/ (i < Len(path) /\ matches[<<i + 1, j>>]))
      BY <1>0, <1>4, <2>2 DEF Recursion
    <3>6. C(i, j) \in BOOLEAN /\ C(i, j + 1) \in BOOLEAN /\ C(i + 1, j) \in BOOLEAN
      BY DEF C
    <3> QED BY <1>1, <1>2, <1>4, <3>4, <3>5, <3>6
  <2>3. CASE scope[j + 1] # AnyDepth
    <3>1. C(i, j) <=> \E k \in 0..Len(path) : /\ k = i + 1 /\ SegmentMatches(path[k], scope[j + 1])
                                              /\ C(k, j + 1)
      BY <2>1, <2>3 DEF Stands
    <3> HIDE DEF C
    <3>2. i + 1 \in 0..Len(path) <=> i < Len(path)
      BY <1>0
    <3>3. C(i, j) <=> /\ i < Len(path)
                      /\ SegmentMatches(path[i + 1], scope[j + 1]) /\ C(i + 1, j + 1)
      BY <3>1, <3>2
    <3>4. Recursion(path, scope, matches, at)
            = (/\ i < Len(path)
               /\ SegmentMatches(path[i + 1], scope[j + 1]) /\ matches[<<i + 1, j + 1>>])
      BY <1>0, <1>4, <2>3 DEF Recursion
    <3>5. C(i, j) \in BOOLEAN
      BY DEF C
    <3> QED BY <1>1, <1>2, <1>4, <3>3, <3>4, <3>5
  <2> QED BY <2>2, <2>3
<1> QED BY <1>3, <1>4

(* The recursion has one solution, and it ends: every step comes nearer to *)
(* the ends of path and scope.                                             *)
LEMMA PositionIs ==
  ASSUME NEW path \in Seq(Seq(Letters)), NEW scope \in ScopesOf,
         NEW at \in Positions(path, scope)
  PROVE  \E i \in 0..Len(path), j \in 0..Len(scope) :
           at = <<i, j>> /\ at[1] = i /\ at[2] = j
BY DEF Positions

LEMMA MatchesIsCut ==
  ASSUME NEW path \in Seq(Seq(Letters)), NEW scope \in ScopesOf
  PROVE  Matches(path, scope) = Cut(path, scope, <<0, 0>>)
<1> DEFINE P == Positions(path, scope)
           Solves(f) == f = [at \in P |-> Recursion(path, scope, f, at)]
           cuts == [at \in P |-> Cut(path, scope, at)]
<1>0. Len(path) \in Nat /\ Len(scope) \in Nat
  BY DEF ScopesOf
<1>1. Solves(cuts)
  <2>1. \A at \in P : cuts[at] = Cut(path, scope, at)
    OBVIOUS
  <2> HIDE DEF cuts
  <2>2. ASSUME NEW at \in P PROVE Recursion(path, scope, cuts, at) = Cut(path, scope, at)
    <3>1. PICK i \in 0..Len(path), j \in 0..Len(scope) : at = <<i, j>>
      BY PositionIs
    <3>2. \A to \in P : Nearer(path, scope, to, <<i, j>>) => cuts[to] = Cut(path, scope, to)
      BY <2>1
    <3> QED BY <3>1, <3>2, CutsRecur
  <2>3. cuts = [at \in P |-> Recursion(path, scope, cuts, at)]
    BY <2>2 DEF cuts
  <2> QED BY <2>3
<1> HIDE DEF cuts
<1>2. ASSUME NEW f, Solves(f), NEW at \in P PROVE f[at] = Cut(path, scope, at)
  <2> DEFINE wrong == {to \in P : f[to] # Cut(path, scope, to)}
             Left(to) == (Len(path) + Len(scope)) - (to[1] + to[2])
             left == {Left(to) : to \in wrong}
  <2> SUFFICES ASSUME wrong # {} PROVE FALSE
    OBVIOUS
  <2>1. \A to \in P : /\ Left(to) \in Nat
                      /\ to[1] \in Nat /\ to[2] \in Nat
    BY <1>0, PositionIs
  <2>2. left \in SUBSET Nat /\ left # {}
    BY <2>1
  <2>3. PICK m \in left : \A x \in left : m <= x
    BY <2>2, LeastExists
  <2>4. PICK to \in wrong : m = Left(to)
    BY <2>3
  <2>5. ASSUME NEW on \in P, Nearer(path, scope, on, to)
        PROVE  f[on] = Cut(path, scope, on)
    <3>1. Left(on) < Left(to)
      <4>1. on[1] \in Nat /\ on[2] \in Nat /\ to[1] \in Nat /\ to[2] \in Nat
        BY <2>1
      <4> QED BY <1>0, <2>5, <4>1 DEF Nearer
    <3>2. Left(on) \in Nat /\ Left(to) \in Nat
      BY <2>1
    <3>3. ~(Left(to) <= Left(on))
      BY <3>1, <3>2
    <3>4. on \notin wrong
      BY <2>3, <2>4, <3>3
    <3> QED BY <3>4
  <2>6. PICK i \in 0..Len(path), j \in 0..Len(scope) : to = <<i, j>>
    BY PositionIs
  <2>7. Recursion(path, scope, f, to) = Cut(path, scope, to)
    BY <2>5, <2>6, CutsRecur
  <2>8. f[to] = Recursion(path, scope, f, to)
    BY <1>2
  <2> QED BY <2>4, <2>7, <2>8
<1> DEFINE matches == CHOOSE f : f = [at \in P |->
        LET i == at[1]  j == at[2] IN
        IF j = Len(scope) THEN i = Len(path)
        ELSE IF scope[j + 1] = AnyDepth
        THEN f[<<i, j + 1>>] \/ (i < Len(path) /\ f[<<i + 1, j>>])
        ELSE /\ i < Len(path)
             /\ SegmentMatches(path[i + 1], scope[j + 1]) /\ f[<<i + 1, j + 1>>]]
<1>3. Solves(matches)
  <2>1. matches = CHOOSE f : Solves(f)
    BY DEF Recursion
  <2> HIDE DEF matches, Solves
  <2> QED BY <1>1, <2>1
<1>4. Matches(path, scope) = matches[<<0, 0>>]
  BY DEF Matches
<1>5. <<0, 0>> \in P
  BY <1>0 DEF Positions
<1> HIDE DEF matches, Solves, P
<1> QED BY <1>2, <1>3, <1>4, <1>5

-----------------------------------------------------------------------------
(***************************************************************************)
(* Matching and what globs mean.                                           *)
(***************************************************************************)
LEMMA NamesTyped ==
  ASSUME NEW path \in Seq(Seq(Letters)), NEW scope \in ScopesOf
  PROVE  /\ Len(path) \in Nat /\ Len(scope) \in Nat
         /\ DOMAIN path = 1..Len(path) /\ DOMAIN scope = 1..Len(scope)
         /\ \A i \in 1..Len(path) : path[i] \in Seq(Letters)
         /\ \A j \in 1..Len(scope) : scope[j] \in Patterns
BY DEF ScopesOf

(* A path that matches a scope is one the scope stands for, for any names  *)
(* and patterns.                                                           *)
THEOREM MatchesSound ==
  ASSUME NEW path \in Seq(Seq(Letters)), NEW scope \in ScopesOf, Matches(path, scope)
  PROVE  Glob(path, scope)
<1>0. Len(path) \in Nat /\ Len(scope) \in Nat
  BY NamesTyped
<1>1. PICK cut \in Cuts(path, scope, 0, 0) : TRUE
  <2> DEFINE at == <<0, 0>>
  <2>1. at[1] = 0 /\ at[2] = 0 /\ Cut(path, scope, at)
    BY MatchesIsCut
  <2> HIDE DEF at
  <2> QED BY <2>1 DEF Cut
<1>2. cut \in [0..Len(scope) -> 0..Len(path)] /\ cut[0] = 0 /\ cut[Len(scope)] = Len(path)
  BY DEF Cuts
<1>3. ASSUME NEW j \in 1..Len(scope)
      PROVE  IF scope[j] = AnyDepth THEN cut[j - 1] <= cut[j]
             ELSE cut[j] = cut[j - 1] + 1 /\ GlobName(path[cut[j]], scope[j])
  <2>1. Stands(path, scope, cut[j - 1], cut[j], j)
    BY <1>0 DEF Cuts
  <2>2. cut[j - 1] \in 0..Len(path) /\ cut[j] \in 0..Len(path)
    BY <1>0, <1>2
  <2>3. CASE scope[j] = AnyDepth
    BY <2>1, <2>3 DEF Stands
  <2>4. CASE scope[j] # AnyDepth
    <3>1. cut[j] = cut[j - 1] + 1 /\ SegmentMatches(path[cut[j]], scope[j])
      BY <2>1, <2>4 DEF Stands
    <3>2. cut[j] \in 1..Len(path)
      BY <1>0, <2>2, <3>1
    <3>3. path[cut[j]] \in Seq(Letters) /\ scope[j] \in Patterns
      BY <3>2, NamesTyped
    <3>4. GlobName(path[cut[j]], scope[j])
      BY <3>1, <3>3, SegmentSound
    <3> QED BY <2>4, <3>1, <3>4
  <2> QED BY <2>3, <2>4
<1> QED BY <1>2, <1>3 DEF Glob

(* A path a scope stands for matches it, unless the text behind the last   *)
(* star of a pattern occurs twice in a name.                               *)
THEOREM MatchesComplete ==
  ASSUME NEW path \in Seq(Seq(Letters)), NEW scope \in ScopesOf,
         Glob(path, scope), Clear(path, scope)
  PROVE  Matches(path, scope)
<1>0. Len(path) \in Nat /\ Len(scope) \in Nat
  BY NamesTyped
<1>1. PICK cut \in [0..Len(scope) -> 0..Len(path)] :
        /\ cut[0] = 0 /\ cut[Len(scope)] = Len(path)
        /\ \A j \in 1..Len(scope) :
             IF scope[j] = AnyDepth THEN cut[j - 1] <= cut[j]
             ELSE cut[j] = cut[j - 1] + 1 /\ GlobName(path[cut[j]], scope[j])
  BY DEF Glob
<1>2. ASSUME NEW j \in 1..Len(scope)
      PROVE  Stands(path, scope, cut[j - 1], cut[j], j)
  <2>1. cut[j - 1] \in 0..Len(path) /\ cut[j] \in 0..Len(path)
    BY <1>0
  <2>2. CASE scope[j] = AnyDepth
    BY <1>1, <2>2 DEF Stands
  <2>3. CASE scope[j] # AnyDepth
    <3>1. cut[j] = cut[j - 1] + 1 /\ GlobName(path[cut[j]], scope[j])
      BY <1>1, <2>3
    <3>2. cut[j] \in 1..Len(path)
      BY <1>0, <2>1, <3>1
    <3>3. path[cut[j]] \in Seq(Letters) /\ scope[j] \in Patterns
      BY <3>2, NamesTyped
    <3>4. cut[j] \in DOMAIN path /\ j \in DOMAIN scope
      BY <3>2, NamesTyped
    <3>5. Starred(scope[j]) /\ Last(scope[j]) # <<>>
            => Cardinality(Occurrences(Last(scope[j]), path[cut[j]])) <= 1
      BY <3>4 DEF Clear, Occurrences
    <3>6. SegmentMatches(path[cut[j]], scope[j])
      BY <3>1, <3>3, <3>5, SegmentComplete
    <3> QED BY <2>3, <3>1, <3>6 DEF Stands
  <2> QED BY <2>2, <2>3
<1>3. cut \in Cuts(path, scope, 0, 0)
  BY <1>0, <1>1, <1>2 DEF Cuts
<1>4. Cut(path, scope, <<0, 0>>)
  <2> DEFINE at == <<0, 0>>
  <2>1. at[1] = 0 /\ at[2] = 0
    OBVIOUS
  <2> HIDE DEF at
  <2>2. Cut(path, scope, at)
    BY <1>3, <2>1 DEF Cut
  <2> QED BY <2>2 DEF at
<1> QED BY <1>4, MatchesIsCut

-----------------------------------------------------------------------------
(***************************************************************************)
(* The commits.  Rules change with the head only, and the head only grows: *)
(* the rules that were read still hold when the head is the one the commit *)
(* was begun on.                                                           *)
(***************************************************************************)
Typed ==
  /\ changes \subseteq Paths /\ rules \subseteq RuleScopes
  /\ scopes # Everything => scopes \subseteq Scopes
Numbers == base \in Nat /\ head \in Nat /\ base <= head
Enforced == step = "enforced" /\ base = head => ~NeedsManage(changes)
IInv == Typed /\ Numbers /\ Enforced

LEMMA InitIInv == Init => IInv
BY DEF Init, IInv, Typed, Numbers, Enforced

LEMMA NextIInv == IInv /\ [Next]_vars => IInv'
<1> SUFFICES ASSUME IInv, [Next]_vars PROVE IInv'
  OBVIOUS
<1> USE DEF IInv, Numbers, Typed
<1>1. CASE \E p \in Paths : Change(p)
  BY <1>1 DEF Change, Enforced
<1>2. CASE Begin
  BY <1>2 DEF Begin, Enforced
<1>3. CASE Enforce
  <2>1. Typed' /\ Numbers' /\ NeedsManage(changes)' = NeedsManage(changes)
    BY <1>3 DEF Enforce, NeedsManage
  <2>2. step' = "enforced" => ~NeedsManage(changes)
    BY <1>3 DEF Enforce
  <2> QED BY <2>1, <2>2 DEF Enforced
<1>4. CASE Accept
  BY <1>4 DEF Accept, Enforced
<1>5. CASE Refuse
  BY <1>5 DEF Refuse, Enforced
<1>6. ASSUME NEW granted, granted # Everything => granted \subseteq Scopes, FsGrant(granted)
      PROVE  IInv'
  <2>1. NeedsManage(changes)' = NeedsManage(changes)
    BY <1>6 DEF FsGrant, NeedsManage
  <2> QED BY <1>6, <2>1 DEF FsGrant, Enforced
<1>7. ASSUME NEW s \in RuleScopes, CommitRules({s}) PROVE IInv'
  BY <1>7 DEF CommitRules, Enforced
<1>8. CASE UNCHANGED vars
  <2>1. NeedsManage(changes)' = NeedsManage(changes)
    BY <1>8 DEF vars, NeedsManage
  <2> QED BY <1>8, <2>1 DEF vars, Enforced
<1>9. CASE \E s \in Scopes : FsGrant({s})
  <2>1. PICK s \in Scopes : FsGrant({s})
    BY <1>9
  <2>2. {s} \subseteq Scopes
    OBVIOUS
  <2> QED BY <1>6, <2>1, <2>2
<1>10. CASE FsGrant(Everything)
  BY <1>6, <1>10
<1> QED
  BY <1>1, <1>2, <1>3, <1>4, <1>5, <1>7, <1>8, <1>9, <1>10 DEF Next

(* An accepted commit changes no path that, at that moment, takes the      *)
(* right to manage (control_plane.rs:650, 681).                            *)
RulesHold == [][Accept => ~NeedsManage(changes)]_vars

(* The protected paths a commit was compared with before the lock are      *)
(* those in force when it is accepted, for any paths, scopes and bounds.   *)
THEOREM RulesEnforced == Spec => RulesHold
<1>1. IInv /\ [Next]_vars => [Accept => ~NeedsManage(changes)]_vars
  BY DEF IInv, Enforced, Accept, Accepts
<1> QED BY InitIInv, NextIInv, <1>1, PTL DEF Spec, RulesHold

(* Paths and scopes as the matching reads them. *)
LEMMA TextsOfState ==
  ASSUME Typed
  PROVE  /\ \A p \in changes : p \in Seq(Seq(Letters))
         /\ \A s \in rules : s \in ScopesOf
         /\ scopes # Everything => \A s \in scopes : s \in ScopesOf
BY TextsAssumption DEF Typed, ScopesOf, Patterns

(* What is accepted is within the grant and outside the protected paths as *)
(* globs mean them, for any names and patterns.                            *)
THEOREM WithinBounds == Spec => AcceptedWithinBounds
<1> DEFINE Within ==
      \A p \in changes :
        /\ p # RulesPath
        /\ scopes # Everything => \E s \in scopes : Glob(p, s)
        /\ \A s \in rules : Glob(p, s) => ~Clear(p, s)
<1>1. ASSUME IInv, Accept PROVE Within
  <2>1. ~NeedsManage(changes) /\ Authorized(changes)
    BY <1>1 DEF IInv, Enforced, Accept, Accepts
  <2> SUFFICES ASSUME NEW p \in changes
               PROVE  /\ p # RulesPath
                      /\ scopes # Everything => \E s \in scopes : Glob(p, s)
                      /\ \A s \in rules : Glob(p, s) => ~Clear(p, s)
    OBVIOUS
  <2>2. /\ p \in Seq(Seq(Letters))
        /\ \A s \in rules : s \in ScopesOf
        /\ scopes # Everything => \A s \in scopes : s \in ScopesOf
    BY <1>1, TextsOfState DEF IInv
  <2>3. p # RulesPath
    BY <2>1 DEF NeedsManage
  <2>4. ASSUME scopes # Everything PROVE \E s \in scopes : Glob(p, s)
    <3>1. PICK s \in scopes : Matches(p, s)
      BY <2>1, <2>4 DEF Authorized
    <3> QED BY <2>2, <2>4, <3>1, MatchesSound
  <2>5. ASSUME NEW s \in rules, Glob(p, s), Clear(p, s) PROVE FALSE
    <3>1. Matches(p, s)
      BY <2>2, <2>5, MatchesComplete
    <3> QED BY <2>1, <3>1 DEF NeedsManage
  <2> QED BY <2>3, <2>4, <2>5
<1>2. IInv /\ [Next]_vars => [Accept => Within]_vars
  BY <1>1
<1> QED BY InitIInv, NextIInv, <1>2, PTL DEF Spec, AcceptedWithinBounds

(* And what is within the grant and outside the protected paths is not     *)
(* refused for its paths.                                                  *)
THEOREM NotRefused == Spec => []InScopeAccepted
<1>1. ASSUME IInv PROVE InScopeAccepted
  <2> SUFFICES ASSUME RulesPath \notin changes,
                      \A p \in changes :
                        /\ scopes # Everything => \E s \in scopes : Glob(p, s) /\ Clear(p, s)
                        /\ \A s \in rules : ~Glob(p, s)
               PROVE  ~NeedsManage(changes) /\ Authorized(changes)
    BY DEF InScopeAccepted
  <2>1. /\ \A p \in changes : p \in Seq(Seq(Letters))
        /\ \A s \in rules : s \in ScopesOf
        /\ scopes # Everything => \A s \in scopes : s \in ScopesOf
    BY <1>1, TextsOfState DEF IInv
  <2>2. ASSUME NEW p \in changes, NEW s \in rules, Matches(p, s) PROVE FALSE
    BY <2>1, <2>2, MatchesSound
  <2>3. ASSUME scopes # Everything, NEW p \in changes PROVE \E s \in scopes : Matches(p, s)
    <3>1. PICK s \in scopes : Glob(p, s) /\ Clear(p, s)
      BY <2>3
    <3> QED BY <2>1, <2>3, <3>1, MatchesComplete
  <2> QED BY <2>2, <2>3 DEF NeedsManage, Authorized
<1> QED BY InitIInv, NextIInv, <1>1, PTL DEF Spec

-----------------------------------------------------------------------------
(***************************************************************************)
(* The event log: a cursor passes over no event that was stored when the   *)
(* poll began, for any number of events, any page size and any numbers in  *)
(* the logs.                                                               *)
(*                                                                         *)
(* The argument.  What is shown is closed downward, up to the overtaken:   *)
(* an event before a shown one is shown or overtaken (Closed).  A page     *)
(* extends the closure only if it starts no further than where the closure *)
(* ends, so the cursor must never be ahead of all that was shown; this     *)
(* holds because an event's rank only grows as events come in between      *)
(* (CursorBehind).                                                         *)
(***************************************************************************)
(* the events a poll under way may show *)
Seen == IF poll = None THEN Visible ELSE Merged(poll.source, service)
Logs == DOMAIN source = Events /\ DOMAIN service = Events
Held ==
  /\ Logs
  /\ delivered \subseteq Seen /\ Seen \subseteq Visible
  /\ poll # None => poll.began \subseteq Seen
Closed ==
  \A later \in delivered, e \in Events :
    e < later => e \in delivered \cup overtaken
BehindSeq ==
  \E n \in Nat : /\ after = <<"seq", n>>
                 /\ n = 0 \/ \E e \in delivered : n <= Rank(e, Seen)
BehindId == \E e \in delivered : after = <<"id", e>>
CursorBehind == BehindSeq \/ BehindId
LogInv == Held /\ Closed /\ CursorBehind

-----------------------------------------------------------------------------
(***************************************************************************)
(* Ranks.                                                                  *)
(***************************************************************************)
(* Any set of events is finite. *)
LEMMA EventsFinite ==
  ASSUME NEW S \in SUBSET Events
  PROVE  IsFiniteSet(S)
<1>1. IsFiniteSet(Events)
  BY FS_Interval, LogBoundsAssumption DEF Events
<1> QED BY <1>1, FS_Subset

(* A rank is a number of events. *)
LEMMA RankIs ==
  ASSUME NEW e, NEW S
  PROVE  Rank(e, S) = Cardinality({f \in S : f <= e})
BY DEF Rank

(* Events that come in move an event's rank up or leave it. *)
LEMMA RankGrows ==
  ASSUME NEW S \in SUBSET Events, NEW T \in SUBSET S, NEW e
  PROVE  Rank(e, T) \in Nat /\ Rank(e, T) <= Rank(e, S)
<1> DEFINE Up(R) == {f \in R : f <= e}
<1>1. IsFiniteSet(Up(S)) /\ IsFiniteSet(Up(T))
  BY EventsFinite
<1>2. Up(T) \in SUBSET Up(S)
  OBVIOUS
<1> QED BY <1>1, <1>2, FS_Subset, FS_CardinalityType, RankIs

(* Ranks tell the order of events. *)
LEMMA RankOrders ==
  ASSUME NEW S \in SUBSET Events, NEW e \in S, NEW f \in S, e < f
  PROVE  Rank(e, S) < Rank(f, S)
<1> DEFINE Up(x) == {g \in S : g <= x}
<1>1. IsFiniteSet(Up(e)) /\ IsFiniteSet(Up(f))
  BY EventsFinite
<1>2. Up(e) \in SUBSET Up(f) /\ f \in Up(f) /\ f \notin Up(e)
  <2>1. e \in Nat /\ f \in Nat /\ \A g \in S : g \in Nat
    BY DEF Events
  <2>2. (\A g \in S : g <= e => g <= f) /\ f <= f /\ ~(f <= e)
    BY <2>1
  <2> QED BY <2>2
<1>3. Cardinality(Up(e)) \in Nat /\ Cardinality(Up(f)) \in Nat
  BY <1>1, FS_CardinalityType
<1>4. Cardinality(Up(e)) <= Cardinality(Up(f)) /\ Cardinality(Up(e)) # Cardinality(Up(f))
  BY <1>1, <1>2, FS_Subset
<1> QED BY <1>3, <1>4, RankIs

(* A set of events that is not empty has a last one. *)
LEMMA LastEvent ==
  ASSUME NEW S \in SUBSET Events, S # {}
  PROVE  Max(S) \in S
<1> DEFINE From(e) == {f \in S : e <= f}
           T == {From(e) : e \in S}
           R == StrictSubsetOrdering(Events)
<1>1. T \subseteq FiniteSubsetsOf(Events) /\ T # {}
  BY EventsFinite DEF FiniteSubsetsOf
<1>2. PICK A \in T : \A B \in T : ~(<<B, A>> \in R)
  BY <1>1, WFMin, FS_StrictSubsetOrderingWellFounded
<1>3. PICK e \in S : A = From(e)
  BY <1>2
<1>4. \A f \in S : e >= f
  <2> SUFFICES ASSUME NEW f \in S, ~(e >= f) PROVE FALSE
    OBVIOUS
  <2>0. e \in Nat /\ f \in Nat /\ \A g \in S : g \in Nat
    BY DEF Events
  <2>1. (\A g \in S : f <= g => e <= g) /\ e <= e /\ ~(f <= e)
    BY <2>0
  <2>2. From(f) \subseteq From(e) /\ e \in From(e) /\ e \notin From(f)
    BY <2>1
  <2>3. From(f) \in SUBSET Events /\ From(e) \in SUBSET Events /\ From(f) # From(e)
    BY <2>2
  <2>4. <<From(f), From(e)>> \in R
    BY <2>2, <2>3 DEF StrictSubsetOrdering
  <2> QED BY <1>2, <1>3, <2>4
<1> QED BY <1>3, <1>4 DEF Max

-----------------------------------------------------------------------------
(***************************************************************************)
(* The invariant.                                                          *)
(***************************************************************************)
LEMMA SeenEvents == Seen \subseteq Events
BY DEF Seen, Visible, Merged, Present

LEMMA InitLogInv == LogInit => LogInv
<1> SUFFICES ASSUME LogInit PROVE LogInv
  OBVIOUS
<1>1. Held /\ Closed
  BY DEF LogInit, Held, Closed, Logs, Seen, Visible, Present
<1>2. CursorBehind
  BY DEF LogInit, CursorBehind, BehindSeq
<1> QED BY <1>1, <1>2 DEF LogInv

(* A step that shows nothing keeps the invariant if no event is lost. *)
LEMMA Quiet ==
  ASSUME LogInv, Logs', Seen \subseteq Seen', Seen' \subseteq Visible',
         delivered' = delivered, overtaken' = overtaken, after' = after,
         poll' # None => poll'.began \subseteq Seen'
  PROVE  LogInv'
<1>1. Held' /\ Closed'
  BY DEF LogInv, Held, Closed
<1>2. Seen' \subseteq Events
  BY DEF Visible, Present
<1>3. \A e : /\ Rank(e, Seen) \in Nat /\ Rank(e, Seen') \in Nat
             /\ Rank(e, Seen) <= Rank(e, Seen')
  BY <1>2, RankGrows
<1>4. CASE BehindSeq
  <2>1. PICK n \in Nat : /\ after = <<"seq", n>>
                         /\ n = 0 \/ \E e \in delivered : n <= Rank(e, Seen)
    BY <1>4 DEF BehindSeq
  <2>2. n = 0 \/ \E e \in delivered : n <= Rank(e, Seen')
    BY <1>3, <2>1
  <2> QED BY <1>1, <2>1, <2>2 DEF LogInv, CursorBehind, BehindSeq
<1>5. CASE BehindId
  BY <1>1, <1>5 DEF LogInv, CursorBehind, BehindId
<1> QED BY <1>4, <1>5 DEF LogInv, CursorBehind

(* A writer adds to the logs and takes nothing away. *)
LEMMA WriterStep ==
  ASSUME LogInv, NEW e \in Events,
         TakeNumber(e) \/ WriteEvent(e) \/ Insert(e) \/ Mirror(e)
  PROVE  LogInv'
<1>1. Present(source) \subseteq Present(source)' /\ (DOMAIN source)' = Events
  BY DEF TakeNumber, WriteEvent, Insert, Mirror, Present, Visible,
         LogInv, Held, Logs
<1>2. Present(service) \subseteq Present(service)' /\ (DOMAIN service)' = Events
  BY DEF TakeNumber, WriteEvent, Insert, Mirror, Present, Visible,
         LogInv, Held, Logs
<1>3. poll' = poll /\ delivered' = delivered /\ overtaken' = overtaken /\ after' = after
  BY DEF TakeNumber, WriteEvent, Insert, Mirror, client
<1>4. Seen \subseteq Seen' /\ Seen' \subseteq Visible'
  BY <1>1, <1>2, <1>3 DEF Seen, Visible, Merged, Present, LogInv, Held
<1> QED BY <1>1, <1>2, <1>3, <1>4, Quiet DEF LogInv, Held, Logs

(* At the start of a poll, what it may show is what is stored. *)
LEMMA ListSourceStep ==
  ASSUME LogInv, ListSource
  PROVE  LogInv'
<1>1. Seen = Visible /\ Seen' = Visible /\ Visible' = Visible
  BY DEF ListSource, Seen, Visible, Merged, Present
<1>2. poll'.began = Visible
  BY DEF ListSource
<1> QED BY <1>1, <1>2, Quiet DEF ListSource, LogInv, Held, Logs

(* A poll starts no further than where what was shown ends. *)
LEMMA OffsetBehind ==
  ASSUME LogInv
  PROVE  /\ Offset(after, Seen) \in Nat
         /\ \/ Offset(after, Seen) = 0
            \/ \E e \in delivered : Offset(after, Seen) <= Rank(e, Seen)
<1>1. \A e : Rank(e, Seen) \in Nat
  BY RankGrows, SeenEvents
<1>2. CASE BehindSeq
  BY <1>2 DEF BehindSeq, Offset
<1>3. CASE BehindId
  BY <1>1, <1>3 DEF BehindId, Offset
<1> QED BY <1>2, <1>3 DEF LogInv, CursorBehind

(* A page shows, of the events before one of its own, every one that was   *)
(* stored when the poll began and had not been shown or overtaken.         *)
LEMMA PageCloses ==
  ASSUME LogInv, poll # None, NEW e \in Events,
         NEW later \in Page(Seen, Offset(after, Seen)), e < later
  PROVE  e \in delivered \cup overtaken \cup Page(Seen, Offset(after, Seen))
               \cup (Events \ poll.began)
<1> DEFINE off == Offset(after, Seen)
<1>1. CASE e \notin poll.began
  BY <1>1
<1>2. CASE e \in poll.began
  <2>1. e \in Seen /\ later \in Seen
    BY <1>2 DEF LogInv, Held, Page
  <2>2. Rank(e, Seen) < Rank(later, Seen)
    BY <2>1, RankOrders, SeenEvents
  <2>3. Rank(e, Seen) \in Nat /\ Rank(later, Seen) \in Nat /\ off \in Nat
    BY RankGrows, SeenEvents, OffsetBehind
  <2>4. CASE off < Rank(e, Seen)
    <3>1. Rank(later, Seen) <= off + Limit
      BY DEF Page
    <3> QED BY <2>1, <2>2, <2>3, <2>4, <3>1, LogBoundsAssumption DEF Page
  <2>5. CASE ~(off < Rank(e, Seen))
    <3>1. CASE off = 0
      <4>1. Rank(e, Seen) # 0
        <5>1. e \in {f \in Seen : f <= e}
          BY <2>1 DEF Events
        <5>2. IsFiniteSet({f \in Seen : f <= e})
          BY SeenEvents, EventsFinite
        <5> QED BY <5>1, <5>2, FS_EmptySet, RankIs
      <4> QED BY <2>3, <2>5, <3>1, <4>1
    <3>2. CASE \E s \in delivered : off <= Rank(s, Seen)
      <4>1. PICK s \in delivered : off <= Rank(s, Seen)
        BY <3>2
      <4>2. s \in Seen /\ Rank(s, Seen) \in Nat
        BY RankGrows, SeenEvents DEF LogInv, Held
      <4>3. ~(s < e)
        BY <2>1, <2>3, <2>5, <4>1, <4>2, RankOrders, SeenEvents
      <4>4. s = e \/ e < s
        BY <2>1, <4>2, <4>3, SeenEvents DEF Events
      <4> QED BY <4>1, <4>4 DEF LogInv, Closed
    <3> QED BY <3>1, <3>2, OffsetBehind
  <2> QED BY <2>4, <2>5
<1> QED BY <1>1, <1>2

LEMMA DeliverStep ==
  ASSUME LogInv, Deliver
  PROVE  LogInv'
<1> DEFINE page == Page(Seen, Offset(after, Seen))
<1>1. /\ Merged(poll.source, service) = Seen /\ poll # None
      /\ delivered' = delivered \cup page
      /\ overtaken' = overtaken \cup
           {e \in Events \ poll.began : \E later \in page : e < later}
      /\ after' = IF page = {} THEN after ELSE <<"seq", Rank(Max(page), Seen)>>
      /\ poll' = None
  BY DEF Deliver, Seen
<1>2. page \subseteq Seen
  BY DEF Page
<1>3. Seen \subseteq Seen' /\ Seen' = Visible' /\ Seen' \subseteq Events
  BY <1>1 DEF LogInv, Held, Deliver, Seen, Visible, Present
<1>4. Held'
  BY <1>1, <1>2, <1>3 DEF LogInv, Held, Logs, Deliver
<1>5. Closed'
  <2> SUFFICES ASSUME NEW later \in delivered', NEW e \in Events, e < later
               PROVE  e \in delivered' \cup overtaken'
    BY DEF Closed
  <2>1. CASE later \in delivered
    BY <1>1, <2>1 DEF LogInv, Closed
  <2>2. CASE later \in page
    BY <1>1, <2>2, PageCloses
  <2> QED BY <1>1, <2>1, <2>2
<1>6. CursorBehind'
  <2>1. CASE page = {}
    <3>1. delivered' = delivered /\ after' = after
      BY <1>1, <2>1
    <3>2. \A e : /\ Rank(e, Seen) \in Nat /\ Rank(e, Seen') \in Nat
                 /\ Rank(e, Seen) <= Rank(e, Seen')
      BY <1>3, RankGrows
    <3> QED BY <3>1, <3>2 DEF LogInv, CursorBehind, BehindSeq, BehindId
  <2>2. CASE page # {}
    <3>1. Max(page) \in page
      BY <1>2, <2>2, LastEvent, SeenEvents
    <3>2. /\ Rank(Max(page), Seen) \in Nat
          /\ Rank(Max(page), Seen) <= Rank(Max(page), Seen')
      BY <1>3, RankGrows
    <3> QED BY <1>1, <2>2, <3>1, <3>2 DEF CursorBehind, BehindSeq
  <2> QED BY <2>1, <2>2
<1> QED BY <1>4, <1>5, <1>6 DEF LogInv

(* A client that starts over is at the start or at an event it was shown. *)
LEMMA RestartStep ==
  ASSUME LogInv, Restart
  PROVE  LogInv'
<1>1. /\ poll' = None /\ delivered' = delivered /\ overtaken' = overtaken
      /\ UNCHANGED <<source, service>>
      /\ after' = <<"seq", 0>> \/ \E e \in delivered : after' = <<"id", e>>
  BY DEF Restart
<1>2. Visible' = Visible /\ Seen' = Visible
  BY <1>1 DEF Seen, Visible, Present
<1>3. Held' /\ Closed'
  BY <1>1, <1>2 DEF LogInv, Held, Logs, Closed
<1>4. CursorBehind'
  BY <1>1 DEF CursorBehind, BehindSeq, BehindId
<1> QED BY <1>3, <1>4 DEF LogInv

(* Every step keeps the invariant. *)
LEMMA NextLogInv == LogInv /\ [LogNext]_logVars => LogInv'
<1> SUFFICES ASSUME LogInv, [LogNext]_logVars PROVE LogInv'
  OBVIOUS
<1>1. CASE \E e \in Events :
             TakeNumber(e) \/ WriteEvent(e) \/ Insert(e) \/ Mirror(e)
  BY <1>1, WriterStep
<1>2. CASE ListSource
  BY <1>2, ListSourceStep
<1>3. CASE Deliver
  BY <1>3, DeliverStep
<1>4. CASE Restart
  BY <1>4, RestartStep
<1>5. CASE UNCHANGED logVars
  BY <1>5, Quiet DEF logVars, LogInv, Held, Logs, Seen, Visible, Merged, Present
<1> QED BY <1>1, <1>2, <1>3, <1>4, <1>5 DEF LogNext

(***************************************************************************)
(* For any number of events, page size and restarts, whatever numbers the  *)
(* logs gave: an event passed over by the cursor was overtaken             *)
(* (fs_events, merged_agentfs_events, parse_event_offset).                 *)
(***************************************************************************)
THEOREM NothingPassedOver == LogSpec => []OnlyOvertakenMissed
<1>1. LogInv => OnlyOvertakenMissed
  BY SeenEvents DEF LogInv, Closed, OnlyOvertakenMissed, Visible, Present
<1> QED BY InitLogInv, NextLogInv, <1>1, PTL DEF LogSpec
================================================================================
