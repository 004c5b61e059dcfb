--------------------------- MODULE LocalRoots_proofs ---------------------------
(***************************************************************************)
(* As long as commands run one at a time, no local root is equal to, above *)
(* or below that of another source: for any sources, directories and       *)
(* deaths at any step.                                                     *)
(*                                                                         *)
(* The argument.  A command moves a root to the directory it has compared  *)
(* with all others (Targets), or, when an attach is rolled back, to the    *)
(* one the source had before (Returns).  Meanwhile no other root moves:    *)
(* the command is the only one.                                            *)
(***************************************************************************)
EXTENDS LocalRoots, TLAPS

OneCommand == \A c, d \in Commands : c = d

(* a directory a source may have beside the roots of the others *)
Beside(s, r) ==
  r # None => \A o \in Sources \ {s} : root[o] # None => r \notin Near[root[o]]

Types ==
  /\ root \in [Sources -> MaybeRoot]
  /\ DOMAIN cmd = Commands
  /\ \A c \in Commands : cmd[c] # Free => cmd[c] \in Command
Targets ==
  \A c \in Commands : At(c, "set") => Apart(cmd[c].source, cmd[c].root)
Returns ==
  \A c \in Commands : cmd[c] # Free => Beside(cmd[c].source, cmd[c].prev)
IInv == Types /\ RootsApart /\ Targets /\ Returns

-----------------------------------------------------------------------------
(* A directory that is apart from all roots is beside those of others. *)
LEMMA ApartBeside ==
  ASSUME NEW s \in Sources, NEW r, Apart(s, r)
  PROVE  Beside(s, r)
BY DEF Apart, Beside

(* The root a source has is beside those of the others. *)
LEMMA OwnRootBeside ==
  ASSUME RootsApart, NEW s \in Sources
  PROVE  Beside(s, root[s])
BY DEF RootsApart, Beside

(* Moving a root to a directory beside the others keeps roots apart. *)
LEMMA MoveKeepsApart ==
  ASSUME Types, RootsApart,
         NEW s \in Sources, NEW r \in MaybeRoot, Beside(s, r),
         root' = [root EXCEPT ![s] = r]
  PROVE  RootsApart'
<1> SUFFICES ASSUME NEW o \in Sources, NEW q \in Sources, o # q,
                    root'[o] # None, root'[q] # None
             PROVE  root'[q] \notin Near[root'[o]]
  BY DEF RootsApart
<1>1. CASE o # s /\ q # s
  BY <1>1 DEF RootsApart, Types
<1>2. CASE q = s
  <2>1. root'[q] = r /\ root'[o] = root[o]
    BY <1>2 DEF Types
  <2> QED BY <1>2, <2>1 DEF Beside
<1>3. CASE o = s
  <2>1. root'[o] = r /\ root'[q] = root[q] /\ root[q] \in Roots /\ r \in Roots
    BY <1>3 DEF Types, MaybeRoot
  <2>2. r \notin Near[root[q]]
    BY <1>3, <2>1 DEF Beside
  <2> QED BY <2>1, <2>2, RootsAssumption
<1> QED BY <1>1, <1>2, <1>3

(* A step of a command that leaves the roots alone and stays out of the *)
(* step in which they are set.                                          *)
LEMMA StepKeeps ==
  ASSUME IInv, root' = root, NEW c \in Commands, cmd[c] # Free,
         NEW step \in Steps \ {"set"}, Goto(c, step)
  PROVE  IInv'
<1>1. cmd'[c] = [cmd[c] EXCEPT !.step = step] /\ cmd[c] \in Command
  BY DEF Goto, IInv, Types
<1>2. /\ cmd'[c] \in Command /\ cmd'[c].step = step
      /\ cmd'[c].source = cmd[c].source /\ cmd'[c].prev = cmd[c].prev
  BY <1>1 DEF Command
<1>3. \A d \in Commands : d # c => cmd'[d] = cmd[d]
  BY DEF Goto, IInv, Types
<1>4. Types'
  BY <1>2, <1>3 DEF IInv, Types, Goto
<1>5. RootsApart'
  BY DEF IInv, RootsApart
<1>6. Targets'
  BY <1>2, <1>3 DEF IInv, Targets, At, Apart
<1>7. Returns'
  BY <1>2, <1>3 DEF IInv, Returns, Beside
<1> QED BY <1>4, <1>5, <1>6, <1>7 DEF IInv

(* A command that ends, and leaves the roots alone. *)
LEMMA EndKeeps ==
  ASSUME IInv, root' = root, NEW c \in Commands,
         cmd' = [cmd EXCEPT ![c] = Free]
  PROVE  IInv'
<1>1. cmd'[c] = Free /\ \A d \in Commands : d # c => cmd'[d] = cmd[d]
  BY DEF IInv, Types
<1>2. Types'
  BY <1>1 DEF IInv, Types
<1> QED BY <1>1, <1>2 DEF IInv, RootsApart, Targets, At, Apart, Returns, Beside

(* A command that begins while there is no other: with the root the source *)
(* has as the one to go back to, and out of "set", or at a directory that  *)
(* is apart.                                                               *)
LEMMA BeginKeeps ==
  ASSUME OneCommand, IInv, NEW c \in Commands,
         NEW op \in {"bind", "unbind", "remove", "sync", "attach"},
         NEW s \in Sources, NEW r \in MaybeRoot, NEW step \in Steps,
         step = "set" => Apart(s, r) /\ root' = root,
         root' = root \/ root' = [root EXCEPT ![s] = None],
         cmd' = [cmd EXCEPT ![c] = Started(op, s, r, step)]
  PROVE  IInv'
<1>1. root[s] \in MaybeRoot
  BY DEF IInv, Types
<1>2. /\ cmd'[c] \in Command /\ cmd'[c].step = step /\ cmd'[c].source = s
      /\ cmd'[c].root = r /\ cmd'[c].prev = root[s]
  BY <1>1 DEF Started, Command, IInv, Types
<1>3. \A d \in Commands : d = c
  BY DEF OneCommand
<1>4. Beside(s, root[s])
  BY OwnRootBeside DEF IInv
<1>6. Types'
  BY <1>2, <1>3 DEF IInv, Types, MaybeRoot
<1>7. RootsApart'
  <2>1. CASE root' = root
    BY <2>1 DEF IInv, RootsApart
  <2>2. CASE root' = [root EXCEPT ![s] = None]
    BY <2>2, MoveKeepsApart DEF IInv, Beside, MaybeRoot
  <2> QED BY <2>1, <2>2
<1>8. Targets'
  BY <1>2, <1>3 DEF Targets, At, Apart
<1>9. Returns'
  <2> SUFFICES ASSUME NEW q, q = root[s], q # None,
                      NEW o \in Sources \ {s}, root'[o] # None
               PROVE  q \notin Near[root'[o]]
    BY <1>2, <1>3 DEF Returns, Beside
  <2>1. root'[o] = root[o]
    BY DEF IInv, Types
  <2> QED BY <1>4, <2>1 DEF Beside
<1> QED BY <1>6, <1>7, <1>8, <1>9 DEF IInv

(* A command that moves the root of its source to a directory beside the *)
(* others, and then ends or stays out of "set".                          *)
LEMMA MoveKeeps ==
  ASSUME OneCommand, IInv, NEW c \in Commands, cmd[c] # Free,
         NEW r \in MaybeRoot, Beside(cmd[c].source, r),
         root' = [root EXCEPT ![cmd[c].source] = r],
         NEW step \in Steps \ {"set"}, Goto(c, step)
  PROVE  IInv'
<1>1. cmd'[c] = [cmd[c] EXCEPT !.step = step] /\ cmd[c] \in Command
  BY DEF Goto, IInv, Types
<1>2. /\ cmd'[c] \in Command /\ cmd'[c].step = step
      /\ cmd'[c].source = cmd[c].source /\ cmd'[c].prev = cmd[c].prev
      /\ cmd[c].source \in Sources
  BY <1>1 DEF Command
<1>3. \A d \in Commands : d = c
  BY DEF OneCommand
<1>4. Types'
  BY <1>2, <1>3 DEF IInv, Types, Goto
<1>5. RootsApart'
  BY <1>2, MoveKeepsApart DEF IInv
<1>6. Targets'
  BY <1>2, <1>3 DEF Targets, At
<1>7. Returns'
  <2> SUFFICES ASSUME cmd[c].prev # None,
                      NEW o \in Sources \ {cmd[c].source}, root'[o] # None
               PROVE  cmd[c].prev \notin Near[root'[o]]
    BY <1>2, <1>3 DEF Returns, Beside
  <2>1. root'[o] = root[o]
    BY <1>2 DEF IInv, Types
  <2> QED BY <2>1 DEF IInv, Returns, Beside
<1> QED BY <1>4, <1>5, <1>6, <1>7 DEF IInv

-----------------------------------------------------------------------------
LEMMA InitInv == Init => IInv
BY DEF Init, IInv, Types, MaybeRoot, RootsApart, Targets, At, Returns

LEMMA BeginInv ==
  ASSUME OneCommand, IInv, NEW c \in Commands, Begin(c)
  PROVE  IInv'
<1>1. PICK s \in Sources :
        \/ Unbind(c, s) \/ RemoveSource(c, s) \/ Sync(c, s)
        \/ \E r \in Roots : Bind(c, s, r)
        \/ \E r \in MaybeRoot : Adopt(c, s, r)
  BY DEF Begin
<1>2. CASE Unbind(c, s)
  BY <1>2, BeginKeeps DEF Unbind, MaybeRoot, Steps
<1>3. CASE RemoveSource(c, s)
  BY <1>3, BeginKeeps DEF RemoveSource, MaybeRoot, Steps
<1>4. CASE Sync(c, s)
  <2>1. root[s] \in MaybeRoot
    BY DEF IInv, Types
  <2> QED BY <1>4, <2>1, BeginKeeps DEF Sync, store, Steps
<1>5. ASSUME NEW r \in Roots, Bind(c, s, r) PROVE IInv'
  BY <1>5, BeginKeeps DEF Bind, store, MaybeRoot, Steps
<1>6. ASSUME NEW r \in MaybeRoot, Adopt(c, s, r) PROVE IInv'
  BY <1>6, BeginKeeps DEF Adopt, MaybeRoot, Steps
<1> QED BY <1>1, <1>2, <1>3, <1>4, <1>5, <1>6

LEMMA AttachCheckInv ==
  ASSUME OneCommand, IInv, NEW c \in Commands, AttachCheck(c)
  PROVE  IInv'
<1> DEFINE s == cmd[c].source  r == cmd[c].root
<1>1. root' = root /\ cmd[c] # Free
  BY DEF AttachCheck, At, store
<1>2. CASE ~Apart(s, r)
  BY <1>1, <1>2, EndKeeps DEF AttachCheck, Fails
<1>3. CASE Apart(s, r)
  <2>1. /\ cmd' = [cmd EXCEPT ![c].step = "set", ![c].prev = root[cmd[c].source]]
        /\ cmd[c] \in Command
    BY <1>1, <1>3 DEF AttachCheck, IInv, Types
  <2>2. s \in Sources /\ root[s] \in MaybeRoot
    BY <2>1 DEF Command, IInv, Types
  <2>3. cmd'[c] = [[cmd[c] EXCEPT !.step = "set"] EXCEPT !.prev = root[s]]
    BY <2>1 DEF IInv, Types
  <2>4. /\ cmd'[c] \in Command /\ cmd'[c].source = s
        /\ cmd'[c].root = r /\ cmd'[c].prev = root[s]
    <3> DEFINE stepped == [cmd[c] EXCEPT !.step = "set"]
    <3>1. /\ stepped \in Command /\ stepped.source = s /\ stepped.root = r
      BY <2>1 DEF Command, Steps
    <3>2. cmd'[c] = [stepped EXCEPT !.prev = root[s]]
      BY <2>3
    <3> HIDE DEF stepped
    <3> QED BY <2>2, <3>1, <3>2 DEF Command
  <2>5. \A d \in Commands : d = c
    BY DEF OneCommand
  <2>6. Types'
    BY <1>1, <2>1, <2>4, <2>5 DEF IInv, Types
  <2>7. RootsApart'
    BY <1>1 DEF IInv, RootsApart
  <2>8. Targets'
    BY <1>1, <1>3, <2>4, <2>5 DEF Targets, Apart
  <2>9. Beside(s, root[s])
    BY <2>2, OwnRootBeside DEF IInv
  <2>10. Returns'
    BY <1>1, <2>4, <2>5, <2>9 DEF Returns, Beside
  <2> QED BY <2>6, <2>7, <2>8, <2>10 DEF IInv
<1> QED BY <1>2, <1>3

LEMMA SetRootInv ==
  ASSUME OneCommand, IInv, NEW c \in Commands, SetRoot(c)
  PROVE  IInv'
<1> DEFINE s == cmd[c].source  r == cmd[c].root
<1>1. cmd[c] \in Command /\ cmd[c] # Free /\ Apart(s, r)
  BY DEF SetRoot, At, IInv, Types, Targets
<1>2. s \in Sources /\ r \in MaybeRoot
  BY <1>1 DEF Command
<1>3. CASE TakenBy(s, r)
  BY <1>3, EndKeeps DEF SetRoot, Fails
<1>4. CASE ~TakenBy(s, r)
  <2>1. root' = [root EXCEPT ![s] = r] /\ Goto(c, AfterSet(cmd[c]))
    BY <1>4 DEF SetRoot
  <2>2. AfterSet(cmd[c]) \in Steps \ {"set"}
    BY DEF AfterSet, Steps
  <2>3. Beside(s, r)
    BY <1>1, <1>2, ApartBeside
  <2> QED BY <1>1, <1>2, <2>1, <2>2, <2>3, MoveKeeps
<1> QED BY <1>3, <1>4

LEMMA ForgetInv ==
  ASSUME OneCommand, IInv, NEW c \in Commands, Forget(c)
  PROVE  IInv'
<1>1. Beside(cmd[c].source, None)
  BY DEF Beside
<1> QED BY <1>1, MoveKeeps DEF Forget, At, MaybeRoot, Steps

LEMMA UndoSetInv ==
  ASSUME OneCommand, IInv, NEW c \in Commands, UndoSet(c)
  PROVE  IInv'
<1> DEFINE s == cmd[c].source  former == cmd[c].prev
<1>1. cmd[c] \in Command /\ cmd[c] # Free /\ Beside(s, former)
  BY DEF UndoSet, At, IInv, Types, Returns
<1>2. former \in MaybeRoot
  BY <1>1 DEF Command
<1>3. CASE former # None /\ TakenBy(s, former)
  BY <1>3, EndKeeps DEF UndoSet, Fails
<1>4. CASE ~(former # None /\ TakenBy(s, former))
  BY <1>1, <1>2, <1>4, MoveKeeps DEF UndoSet, Steps
<1> QED BY <1>3, <1>4

(* The steps that leave the roots alone. *)
LEMMA OtherStepsInv ==
  ASSUME IInv, NEW c \in Commands,
         \/ Accept(c) \/ ClearRows(c) \/ Mark(c) \/ Pass(c) \/ Mount(c)
         \/ Unmark(c) \/ UndoMark(c) \/ UndoClear(c)
  PROVE  IInv'
<1>1. CASE Accept(c)
  BY <1>1, StepKeeps, EndKeeps DEF Accept, At, Fails, Steps
<1>2. CASE ClearRows(c)
  BY <1>2, StepKeeps DEF ClearRows, At, Steps
<1>3. CASE Mark(c)
  BY <1>3, StepKeeps DEF Mark, At, Steps, store
<1>4. CASE Pass(c)
  BY <1>4, StepKeeps, EndKeeps DEF Pass, At, Fails, Steps
<1>5. CASE Mount(c)
  BY <1>5, StepKeeps, EndKeeps DEF Mount, At, Steps
<1>6. CASE Unmark(c)
  BY <1>6, EndKeeps DEF Unmark, Done, store
<1>7. CASE UndoMark(c)
  BY <1>7, StepKeeps DEF UndoMark, At, Steps, store
<1>8. CASE UndoClear(c)
  BY <1>8, EndKeeps DEF UndoClear, Fails
<1> QED BY <1>1, <1>2, <1>3, <1>4, <1>5, <1>6, <1>7, <1>8

LEMMA NextInv == OneCommand /\ IInv /\ [Next]_vars => IInv'
<1> SUFFICES ASSUME OneCommand, IInv, [Next]_vars PROVE IInv'
  OBVIOUS
<1>1. ASSUME NEW s \in Sources, NEW b \in Buckets, Add(s, b) PROVE IInv'
  BY <1>1 DEF Add, IInv, Types, RootsApart, Targets, At, Apart, Returns, Beside
<1>2. ASSUME NEW c \in Commands, Begin(c) PROVE IInv'
  BY <1>2, BeginInv
<1>3. ASSUME NEW c \in Commands, Continue(c) PROVE IInv'
  BY <1>3, AttachCheckInv, SetRootInv, ForgetInv, UndoSetInv, OtherStepsInv
  DEF Continue
<1>4. ASSUME NEW c \in Commands, Die(c) PROVE IInv'
  BY <1>4, EndKeeps DEF Die, store
<1>5. CASE UNCHANGED vars
  BY <1>5 DEF vars, IInv, Types, RootsApart, Targets, At, Apart, Returns, Beside
<1> QED BY <1>1, <1>2, <1>3, <1>4, <1>5 DEF Next

(* No local root is equal to, above or below another, whatever dies or is  *)
(* rolled back, as long as commands run one at a time                      *)
(* (control_plane.rs:2263, 1924).                                          *)
THEOREM RootsStayApart ==
  ASSUME OneCommand
  PROVE  Spec => []RootsApart
<1>1. IInv /\ [Next]_vars => IInv'
  BY NextInv
<1>2. IInv => RootsApart
  BY DEF IInv
<1> QED BY InitInv, <1>1, <1>2, PTL DEF Spec

-----------------------------------------------------------------------------
(***************************************************************************)
(* Where a filesystem lives the low-level sync never runs.  A source gets  *)
(* there in the step before it is recorded as accepted, and nothing takes  *)
(* that record away (Recorded); a sync begins between commands, when every *)
(* such source is recorded.                                                *)
(***************************************************************************)
Places == DOMAIN backing = Sources /\ DOMAIN accepted = Sources
Recorded ==
  \A s \in Sources : backing[s] = Shared =>
    accepted[s] \/ \E c \in Commands : At(c, "accept") /\ cmd[c].source = s
OnlyPasses ==
  \A c \in Commands : cmd[c] # Free /\ cmd[c].op = "sync" => cmd[c].step = "pass"
GInv == Places /\ Recorded /\ OnlyPasses /\ SharedIsGoverned

(* A step, but for "accept", of a command that is no sync. *)
LEMMA StepKeepsGoverned ==
  ASSUME IInv, GInv, backing' = backing, accepted' = accepted,
         NEW c \in Commands, cmd[c] # Free, cmd[c].op # "sync",
         ~At(c, "accept"), NEW new, new.op = cmd[c].op,
         cmd' = [cmd EXCEPT ![c] = new]
  PROVE  GInv'
<1>1. cmd'[c] = new /\ \A d \in Commands : d # c => cmd'[d] = cmd[d]
  BY DEF IInv, Types
<1>2. new.op # "sync"
  OBVIOUS
<1>3. Places'
  BY DEF GInv, Places
<1>4. Recorded'
  BY <1>1 DEF GInv, Recorded, At
<1>5. OnlyPasses' /\ SharedIsGoverned'
  BY <1>1, <1>2 DEF GInv, OnlyPasses, SharedIsGoverned, At
<1> QED BY <1>3, <1>4, <1>5 DEF GInv

(* The end of a command, but at "accept". *)
LEMMA EndKeepsGoverned ==
  ASSUME IInv, GInv, backing' = backing, accepted' = accepted,
         NEW c \in Commands, ~At(c, "accept"), cmd' = [cmd EXCEPT ![c] = Free]
  PROVE  GInv'
<1>1. cmd'[c] = Free /\ \A d \in Commands : d # c => cmd'[d] = cmd[d]
  BY DEF IInv, Types
<1>2. Places'
  BY DEF GInv, Places
<1>3. Recorded'
  BY <1>1 DEF GInv, Recorded, At
<1>4. OnlyPasses' /\ SharedIsGoverned'
  BY <1>1 DEF GInv, OnlyPasses, SharedIsGoverned, At
<1> QED BY <1>2, <1>3, <1>4 DEF GInv

LEMMA BeginGoverned ==
  ASSUME OneCommand, IInv, GInv, NEW c \in Commands, Begin(c)
  PROVE  GInv'
<1>1. \A d \in Commands : d = c
  BY DEF OneCommand
<1>2. PICK s \in Sources :
        \/ Unbind(c, s) \/ RemoveSource(c, s) \/ Sync(c, s)
        \/ \E r \in Roots : Bind(c, s, r)
        \/ \E r \in MaybeRoot : Adopt(c, s, r)
  BY DEF Begin
<1>3. cmd[c] = Free
  BY <1>2 DEF Unbind, RemoveSource, Sync, Bind, Adopt
<1>4. \A o \in Sources : backing[o] = Shared => accepted[o]
  BY <1>1, <1>3 DEF GInv, Recorded, At
<1>5. CASE Unbind(c, s)
  <2>1. cmd'[c].op = "unbind"
    BY <1>5 DEF Unbind, Started, IInv, Types
  <2> QED BY <1>1, <1>4, <1>5, <2>1
          DEF Unbind, GInv, Places, Recorded, OnlyPasses, SharedIsGoverned, At
<1>6. CASE RemoveSource(c, s)
  <2>1. cmd'[c].op = "remove"
    BY <1>6 DEF RemoveSource, Started, IInv, Types
  <2>2. /\ DOMAIN backing' = Sources /\ accepted' = accepted
        /\ \A o \in Sources : backing'[o] = IF o = s THEN None ELSE backing[o]
    BY <1>6 DEF RemoveSource, GInv, Places
  <2>3. None # Shared
    BY SourcesAssumption
  <2>4. Recorded'
    BY <1>4, <2>2, <2>3 DEF Recorded
  <2> QED BY <1>1, <2>1, <2>2, <2>4 DEF GInv, Places, OnlyPasses, SharedIsGoverned, At
<1>7. CASE Sync(c, s)
  <2>1. backing[s] # Shared
    BY <1>4, <1>7 DEF Sync, Public, Managed
  <2>2. cmd'[c].op = "sync" /\ cmd'[c].source = s /\ cmd'[c].step = "pass"
    BY <1>7 DEF Sync, Started, IInv, Types
  <2>3. backing' = backing /\ accepted' = accepted
    BY <1>7 DEF Sync, store
  <2> QED BY <1>1, <1>4, <2>1, <2>2, <2>3
          DEF GInv, Places, Recorded, OnlyPasses, SharedIsGoverned, At
<1>8. ASSUME NEW r \in Roots, Bind(c, s, r) PROVE GInv'
  <2>1. cmd'[c].op = "bind"
    BY <1>8 DEF Bind, Started, IInv, Types
  <2>2. backing' = backing /\ accepted' = accepted
    BY <1>8 DEF Bind, store
  <2> QED BY <1>1, <1>4, <2>1, <2>2
          DEF GInv, Places, Recorded, OnlyPasses, SharedIsGoverned, At
<1>9. ASSUME NEW r \in MaybeRoot, Adopt(c, s, r) PROVE GInv'
  <2>1. cmd'[c] = Started("attach", s, r, "accept")
    BY <1>9 DEF Adopt, IInv, Types
  <2>2. cmd'[c].op = "attach" /\ cmd'[c].step = "accept" /\ cmd'[c].source = s
    BY <2>1 DEF Started
  <2>3. /\ accepted' = accepted /\ DOMAIN backing' = Sources
        /\ \A o \in Sources \ {s} : backing'[o] = backing[o]
    BY <1>9 DEF Adopt, Stored, GInv, Places
  <2>4. cmd'[c] # Free
    <3>1. root[s] \in MaybeRoot
      BY DEF IInv, Types
    <3>2. cmd'[c] \in Command
      BY <2>1, <3>1 DEF Started, Command, Steps
    <3> QED BY <3>2, FreeAssumption
  <2> QED BY <1>1, <1>4, <2>2, <2>3, <2>4
          DEF GInv, Places, Recorded, OnlyPasses, SharedIsGoverned, At
<1> QED BY <1>2, <1>5, <1>6, <1>7, <1>8, <1>9

LEMMA AcceptGoverned ==
  ASSUME OneCommand, IInv, GInv, NEW c \in Commands, Accept(c)
  PROVE  GInv'
<1> DEFINE s == cmd[c].source
<1>1. \A d \in Commands : d = c
  BY DEF OneCommand
<1>2. cmd[c] \in Command /\ cmd[c].op # "sync"
  BY DEF Accept, At, IInv, Types, GInv, OnlyPasses
<1>3. s \in Sources
  BY <1>2 DEF Command
<1>4. /\ backing' = backing /\ DOMAIN accepted' = Sources /\ accepted'[s]
      /\ \A o \in Sources \ {s} : accepted'[o] = accepted[o]
  BY <1>3 DEF Accept, GInv, Places
<1>5. Places' /\ Recorded'
  BY <1>1, <1>4 DEF GInv, Places, Recorded, At
<1>6. CASE cmd' = [cmd EXCEPT ![c] = Free]
  BY <1>1, <1>5, <1>6 DEF GInv, OnlyPasses, SharedIsGoverned, At, IInv, Types
<1>7. CASE Goto(c, "check")
  <2>1. cmd'[c] = [cmd[c] EXCEPT !.step = "check"]
    BY <1>7 DEF Goto, IInv, Types
  <2>2. cmd'[c].op = cmd[c].op
    BY <1>2, <2>1 DEF Command
  <2> QED BY <1>1, <1>2, <1>5, <2>2 DEF GInv, OnlyPasses, SharedIsGoverned, At
<1> QED BY <1>6, <1>7 DEF Accept, Fails

LEMMA ContinueGoverned ==
  ASSUME OneCommand, IInv, GInv, NEW c \in Commands, Continue(c)
  PROVE  GInv'
<1>1. CASE Accept(c)
  BY <1>1, AcceptGoverned
<1>2. CASE AttachCheck(c)
  <2>1. cmd[c] # Free /\ cmd[c].op # "sync" /\ cmd[c] \in Command
    BY <1>2 DEF AttachCheck, At, GInv, OnlyPasses, IInv, Types
  <2>2. ~At(c, "accept") /\ backing' = backing /\ accepted' = accepted
    BY <1>2 DEF AttachCheck, At, store
  <2>3. CASE cmd' = [cmd EXCEPT ![c] = Free]
    BY <2>2, <2>3, EndKeepsGoverned
  <2>4. CASE cmd' = [cmd EXCEPT ![c].step = "set", ![c].prev = root[cmd[c].source]]
    <3> DEFINE stepped == [cmd[c] EXCEPT !.step = "set"]
               new == [stepped EXCEPT !.prev = root[cmd[c].source]]
    <3>1. stepped.op = cmd[c].op /\ "op" \in DOMAIN stepped
      BY <2>1 DEF Command
    <3>2. cmd' = [cmd EXCEPT ![c] = new]
      BY <2>4
    <3> HIDE DEF stepped
    <3>3. new.op = cmd[c].op
      BY <3>1
    <3> HIDE DEF new
    <3> QED BY <2>1, <2>2, <3>2, <3>3, StepKeepsGoverned
  <2> QED BY <1>2, <2>3, <2>4 DEF AttachCheck, Fails
<1>3. ASSUME NEW step, Goto(c, step), ~At(c, "accept"), cmd[c] # Free,
             cmd[c].op # "sync", backing' = backing, accepted' = accepted
      PROVE  GInv'
  <2> DEFINE new == [cmd[c] EXCEPT !.step = step]
  <2>1. new.op = cmd[c].op
    BY <1>3 DEF IInv, Types, Command
  <2>2. cmd' = [cmd EXCEPT ![c] = new]
    BY <1>3 DEF Goto
  <2> HIDE DEF new
  <2> QED BY <1>3, <2>1, <2>2, StepKeepsGoverned
<1>4. cmd[c] # Free /\ cmd[c].op = "sync" => At(c, "pass")
  BY DEF GInv, OnlyPasses, At
<1>5. CASE Forget(c)
  BY <1>3, <1>4, <1>5 DEF Forget, At
<1>6. CASE SetRoot(c)
  BY <1>3, <1>4, <1>6, EndKeepsGoverned DEF SetRoot, Fails, At
<1>7. CASE ClearRows(c)
  BY <1>3, <1>4, <1>7 DEF ClearRows, At
<1>8. CASE Mark(c)
  BY <1>3, <1>4, <1>8 DEF Mark, At, store
<1>9. CASE Pass(c)
  BY <1>3, <1>9, EndKeepsGoverned DEF Pass, Fails, At
<1>10. CASE Mount(c)
  BY <1>3, <1>4, <1>10, EndKeepsGoverned DEF Mount, At
<1>11. CASE Unmark(c)
  BY <1>11, EndKeepsGoverned DEF Unmark, Done, At, store
<1>12. CASE UndoMark(c)
  BY <1>3, <1>4, <1>12 DEF UndoMark, At, store
<1>13. CASE UndoSet(c)
  BY <1>3, <1>4, <1>13, EndKeepsGoverned DEF UndoSet, Fails, At
<1>14. CASE UndoClear(c)
  BY <1>14, EndKeepsGoverned DEF UndoClear, Fails, At
<1> QED BY <1>1, <1>2, <1>5, <1>6, <1>7, <1>8, <1>9, <1>10, <1>11, <1>12, <1>13,
           <1>14 DEF Continue

LEMMA AddGoverned ==
  ASSUME IInv, GInv, NEW s \in Sources, NEW b \in Buckets, Add(s, b)
  PROVE  GInv'
<1>1. /\ cmd' = cmd /\ accepted' = accepted /\ DOMAIN backing' = Sources
      /\ \A o \in Sources : backing'[o] = IF o = s THEN b ELSE backing[o]
  BY DEF Add, Stored, GInv, Places
<1>2. b # Shared
  BY SourcesAssumption
<1>3. Places' /\ Recorded' /\ OnlyPasses'
  BY <1>1, <1>2 DEF GInv, Places, Recorded, OnlyPasses, At
<1>4. SharedIsGoverned'
  <2> SUFFICES ASSUME NEW c \in Commands, At(c, "pass"), cmd[c].op = "sync"
               PROVE  backing'[cmd[c].source] # Shared
    BY <1>1 DEF SharedIsGoverned, At
  <2>1. cmd[c] \in Command /\ backing[cmd[c].source] # Shared
    BY DEF At, IInv, Types, GInv, SharedIsGoverned
  <2>2. cmd[c].source \in Sources
    BY <2>1 DEF Command
  <2> QED BY <1>1, <1>2, <2>1, <2>2
<1> QED BY <1>3, <1>4 DEF GInv

AcceptsSurely == "accept" \notin DiesAt

LEMMA NextGoverned ==
  ASSUME OneCommand, AcceptsSurely, IInv, GInv, [Next]_vars
  PROVE  GInv'
<1>1. ASSUME NEW s \in Sources, NEW b \in Buckets, Add(s, b) PROVE GInv'
  BY <1>1, AddGoverned
<1>2. ASSUME NEW c \in Commands, Begin(c) PROVE GInv'
  BY <1>2, BeginGoverned
<1>3. ASSUME NEW c \in Commands, Continue(c) PROVE GInv'
  BY <1>3, ContinueGoverned
<1>4. ASSUME NEW c \in Commands, Die(c) PROVE GInv'
  BY <1>4, EndKeepsGoverned DEF Die, store, AcceptsSurely, At
<1>5. CASE UNCHANGED vars
  BY <1>5 DEF vars, GInv, Places, Recorded, OnlyPasses, SharedIsGoverned, At
<1> QED BY <1>1, <1>2, <1>3, <1>4, <1>5 DEF Next

(* The low-level sync never runs where a filesystem lives, as long as      *)
(* commands run one at a time and none dies between storing the source of  *)
(* a filesystem and recording that it is one (control_plane.rs:1717, 1778). *)
THEOREM FilesystemsGoverned ==
  ASSUME OneCommand, AcceptsSurely
  PROVE  Spec => []SharedIsGoverned
<1>1. Init => IInv /\ GInv
  <2>1. None # Shared
    BY SourcesAssumption
  <2> QED BY <2>1, InitInv
          DEF Init, GInv, Places, Recorded, OnlyPasses, SharedIsGoverned, At
<1>2. IInv /\ GInv /\ [Next]_vars => (IInv /\ GInv)'
  BY NextInv, NextGoverned
<1>3. GInv => SharedIsGoverned
  BY DEF GInv
<1> QED BY <1>1, <1>2, <1>3, PTL DEF Spec

-----------------------------------------------------------------------------
(***************************************************************************)
(* The three records of a root.  Between commands they agree for every     *)
(* source whose last command was not left unfinished.  A command writes    *)
(* them one after the other, so what it has written and what it has still  *)
(* to write is part of the invariant (CommandOK); it touches the markers   *)
(* of no other source, since its directories are beside theirs.            *)
(***************************************************************************)
Agrees(s) ==
  /\ root[s] # None => marker[root[s]] = s
  /\ mount[s] \in {None, root[s]}

(* the steps each command goes through *)
Turn(k) ==
  \/ k.op = "bind" /\ k.step \in {"set", "clear", "mark", "unmark"}
  \/ k.op = "unbind" /\ k.step = "unmark"
  \/ k.op = "remove" /\ k.step \in {"forget", "unmark"}
  \/ k.op = "sync" /\ k.step = "pass"
  \/ /\ k.op = "attach"
     /\ k.step \in {"accept", "check", "set", "mark", "reset", "pass", "mount", "unmark",
                    "undo mark", "undo set", "undo clear"}

(* bind and attach once they have compared the directory with the others *)
Compared(k) == k.op \in {"bind", "attach"} /\ k.step \notin {"accept", "check"}
(* ... while the source's root is the new one *)
Moved(k) == Compared(k) /\ k.step \notin {"set", "undo clear"}
(* steps at which the records are as between commands *)
Intact(k) == k.step \in {"accept", "check", "set", "undo clear"} \/ k.op = "sync"

CommandOK(k) ==
  /\ Turn(k)
  /\ k.op \in {"bind", "attach"} /\ k.step # "accept" => k.root \in Roots
  /\ Compared(k) => Beside(k.source, k.root)
  /\ k.step = "set" => k.prev = root[k.source]
  /\ Moved(k) => root[k.source] = k.root
  /\ Moved(k) /\ k.step # "unmark" /\ k.source \notin torn =>
       /\ k.prev \notin {None, k.root} => marker[k.prev] = k.source
       /\ mount[k.source] \in {None, k.prev}
  /\ Compared(k) /\ k.step \in {"reset", "pass", "mount", "unmark"} =>
       marker[k.root] = k.source
  /\ k.op = "bind" => mount[k.source] = None
  /\ k.op \in {"unbind", "remove"} /\ k.step = "unmark" => root[k.source] = None
  /\ k.step = "unmark" => mount[k.source] \in {None, root[k.source]}
  /\ Intact(k) /\ k.source \notin torn => Agrees(k.source)

AInv ==
  /\ DOMAIN marker = Roots /\ DOMAIN mount = Sources
  /\ \A c \in Commands : cmd[c] # Free => CommandOK(cmd[c])
  /\ \A s \in Sources \ (torn \cup Busy) : Agrees(s)

LEMMA AgreeSuffices == AInv => RecordsAgree
BY DEF AInv, Agrees, RecordsAgree

(* What is known of a command under way. *)
LEMMA Acting ==
  ASSUME OneCommand, IInv, AInv, NEW c \in Commands, cmd[c] # Free
  PROVE  /\ cmd[c] \in Command
         /\ cmd[c].source \in Sources /\ cmd[c].root \in MaybeRoot
         /\ cmd[c].prev \in MaybeRoot
         /\ CommandOK(cmd[c]) /\ Beside(cmd[c].source, cmd[c].prev)
         /\ \A o \in Sources \ {cmd[c].source} : o \notin torn => Agrees(o)
<1>1. cmd[c] \in Command /\ CommandOK(cmd[c]) /\ Beside(cmd[c].source, cmd[c].prev)
  BY DEF IInv, Types, Returns, AInv
<1>2. cmd[c].source \in Sources /\ cmd[c].root \in MaybeRoot /\ cmd[c].prev \in MaybeRoot
  BY <1>1 DEF Command
<1>3. Busy = {cmd[c].source}
  BY DEF Busy, OneCommand
<1> QED BY <1>1, <1>2, <1>3 DEF AInv

LEMMA Idle ==
  ASSUME OneCommand, IInv, AInv, NEW c \in Commands, cmd[c] = Free
  PROVE  \A o \in Sources : o \notin torn => Agrees(o)
<1>1. Busy = {}
  BY DEF Busy, OneCommand
<1> QED BY <1>1 DEF AInv

(* A command goes on to another step. *)
LEMMA Going ==
  ASSUME IInv, NEW c \in Commands, cmd[c] # Free, NEW step \in Steps, Goto(c, step)
  PROVE  /\ cmd'[c] # Free /\ cmd'[c].step = step
         /\ cmd'[c].op = cmd[c].op /\ cmd'[c].source = cmd[c].source
         /\ cmd'[c].root = cmd[c].root /\ cmd'[c].prev = cmd[c].prev
<1>1. cmd'[c] = [cmd[c] EXCEPT !.step = step] /\ cmd[c] \in Command
  BY DEF Goto, IInv, Types
<1>2. cmd'[c] \in Command
  BY <1>1 DEF Command
<1> QED BY <1>1, <1>2, FreeAssumption DEF Command

(* Commands change the markers only of directories beside the others'. *)
LEMMA OthersStay ==
  ASSUME IInv, NEW s \in Sources, NEW o \in Sources \ {s}, Agrees(o),
         root'[o] = root[o], mount'[o] = mount[o],
         \A r \in Roots : marker'[r] = marker[r] \/ Beside(s, r)
  PROVE  Agrees(o)'
<1>1. ASSUME root[o] # None PROVE marker'[root[o]] = marker[root[o]]
  <2>1. root[o] \in Roots
    BY <1>1 DEF IInv, Types, MaybeRoot
  <2>2. root[o] \in Near[root[o]]
    BY <2>1, RootsAssumption
  <2>3. ~Beside(s, root[o])
    BY <1>1, <2>2 DEF Beside
  <2> QED BY <2>1, <2>3
<1> QED BY <1>1 DEF Agrees

(* A step of the only command, for s. *)
LEMMA Reduce ==
  ASSUME OneCommand, NEW c \in Commands, NEW s \in Sources,
         DOMAIN marker' = Roots, DOMAIN mount' = Sources,
         \A o \in Sources \ {s} : o \notin torn' => Agrees(o)',
         cmd'[c] # Free => cmd'[c].source = s /\ CommandOK(cmd[c])',
         cmd'[c] = Free /\ s \notin torn' => Agrees(s)'
  PROVE  AInv'
<1>1. \A d \in Commands : d = c
  BY DEF OneCommand
<1>2. Busy' = IF cmd'[c] = Free THEN {} ELSE {s}
  BY <1>1 DEF Busy
<1> QED BY <1>1, <1>2 DEF AInv

(* ... that leaves the other sources' rows in the store alone. *)
LEMMA ReduceStep ==
  ASSUME OneCommand, IInv, AInv, NEW c \in Commands, cmd[c] # Free,
         NEW s, s = cmd[c].source,
         DOMAIN marker' = Roots, DOMAIN mount' = Sources,
         \A o \in Sources \ {s} :
           root'[o] = root[o] /\ mount'[o] = mount[o] /\ (o \in torn => o \in torn'),
         \A r \in Roots : marker'[r] = marker[r] \/ Beside(s, r),
         cmd'[c] # Free => cmd'[c].source = s /\ CommandOK(cmd[c])',
         cmd'[c] = Free /\ s \notin torn' => Agrees(s)'
  PROVE  AInv'
<1>1. s \in Sources /\ \A o \in Sources \ {s} : o \notin torn => Agrees(o)
  BY Acting
<1>2. ASSUME NEW o \in Sources \ {s}, o \notin torn' PROVE Agrees(o)'
  <2>1. Agrees(o) /\ root'[o] = root[o] /\ mount'[o] = mount[o]
    BY <1>1, <1>2
  <2> QED BY <1>1, <2>1, OthersStay
<1> QED BY <1>1, <1>2, Reduce

(* ... that goes on without touching root, mount and marker. *)
LEMMA ReduceIdle ==
  ASSUME OneCommand, IInv, AInv, NEW c \in Commands, cmd[c] # Free,
         UNCHANGED <<root, mount, marker>>, \A o \in torn : o # cmd[c].source => o \in torn',
         cmd'[c] # Free => cmd'[c].source = cmd[c].source /\ CommandOK(cmd[c])',
         cmd'[c] = Free /\ cmd[c].source \notin torn' => Agrees(cmd[c].source)
  PROVE  AInv'
<1>1. PICK s : s = cmd[c].source
  OBVIOUS
<1>2. cmd'[c] = Free /\ s \notin torn' => Agrees(s)'
  BY <1>1 DEF Agrees
<1>3. DOMAIN marker' = Roots /\ DOMAIN mount' = Sources
  BY DEF AInv
<1> QED BY <1>1, <1>2, <1>3, ReduceStep

-----------------------------------------------------------------------------
LEMMA InitAgree == Init => AInv
BY DEF Init, AInv, Agrees

LEMMA BeginAgree ==
  ASSUME OneCommand, IInv, AInv, NEW c \in Commands, Begin(c)
  PROVE  AInv'
<1>1. PICK s \in Sources :
        \/ Unbind(c, s) \/ RemoveSource(c, s) \/ Sync(c, s)
        \/ \E r \in Roots : Bind(c, s, r)
        \/ \E r \in MaybeRoot : Adopt(c, s, r)
  BY DEF Begin
<1>2. cmd[c] = Free
  BY <1>1 DEF Unbind, RemoveSource, Sync, Bind, Adopt
<1>3. /\ \A o \in Sources : o \notin torn => Agrees(o)
      /\ DOMAIN marker = Roots /\ DOMAIN mount = Sources
  BY <1>2, Idle DEF AInv
<1>4. ASSUME NEW op \in {"bind", "unbind", "remove", "sync", "attach"},
             NEW r \in MaybeRoot, NEW step \in Steps,
             cmd' = [cmd EXCEPT ![c] = Started(op, s, r, step)]
      PROVE  /\ cmd'[c] # Free /\ cmd'[c].op = op /\ cmd'[c].source = s
             /\ cmd'[c].root = r /\ cmd'[c].prev = root[s] /\ cmd'[c].step = step
  <2>1. root[s] \in MaybeRoot
    BY DEF IInv, Types
  <2>2. Started(op, s, r, step) \in Command
    BY <2>1 DEF Started, Command
  <2>3. cmd'[c] = Started(op, s, r, step)
    BY <1>4 DEF IInv, Types
  <2> QED BY <2>2, <2>3, FreeAssumption DEF Started
<1>5. ASSUME UNCHANGED <<root, mount, marker, torn>>
      PROVE  \A o \in Sources : o \notin torn' => Agrees(o)'
  BY <1>3, <1>5 DEF Agrees
<1>6. CASE Unbind(c, s)
  <2>1. /\ cmd'[c].op = "unbind" /\ cmd'[c].source = s /\ cmd'[c].step = "unmark"
        /\ cmd'[c] # Free /\ None \in MaybeRoot
    BY <1>4, <1>6 DEF Unbind, MaybeRoot, Steps
  <2>2. /\ root'[s] = None /\ mount'[s] = None /\ UNCHANGED <<marker, torn>>
        /\ DOMAIN mount' = Sources
        /\ \A o \in Sources \ {s} : root'[o] = root[o] /\ mount'[o] = mount[o]
    BY <1>3, <1>6 DEF Unbind, IInv, Types
  <2>3. \A o \in Sources \ {s} : o \notin torn' => Agrees(o)'
    BY <1>3, <2>2 DEF Agrees
  <2>4. CommandOK(cmd[c])'
    BY <2>1, <2>2 DEF CommandOK, Turn, Compared, Moved, Intact
  <2> QED BY <1>3, <2>1, <2>2, <2>3, <2>4, Reduce
<1>7. CASE RemoveSource(c, s)
  <2>1. /\ cmd'[c].op = "remove" /\ cmd'[c].source = s /\ cmd'[c].step = "forget"
        /\ cmd'[c] # Free
    BY <1>4, <1>7 DEF RemoveSource, MaybeRoot, Steps
  <2>2. UNCHANGED <<root, mount, marker, torn>>
    BY <1>7 DEF RemoveSource
  <2>3. CommandOK(cmd[c])'
    BY <2>1, <2>2 DEF CommandOK, Turn, Compared, Moved, Intact
  <2> QED BY <1>3, <1>5, <2>1, <2>2, <2>3, Reduce
<1>8. CASE Sync(c, s)
  <2>1. /\ cmd'[c].op = "sync" /\ cmd'[c].source = s /\ cmd'[c].step = "pass"
        /\ cmd'[c] # Free
    <3>1. root[s] \in MaybeRoot
      BY DEF IInv, Types
    <3> QED BY <1>4, <1>8, <3>1 DEF Sync, Steps
  <2>2. UNCHANGED <<root, mount, marker, torn>>
    BY <1>8 DEF Sync, store
  <2>3. CommandOK(cmd[c])'
    BY <1>5, <2>1, <2>2 DEF CommandOK, Turn, Compared, Moved, Intact
  <2> QED BY <1>3, <1>5, <2>1, <2>2, <2>3, Reduce
<1>9. ASSUME NEW r \in Roots, Bind(c, s, r) PROVE AInv'
  <2>1. /\ cmd'[c].op = "bind" /\ cmd'[c].source = s /\ cmd'[c].step = "set"
        /\ cmd'[c] # Free /\ cmd'[c].root = r /\ cmd'[c].prev = root[s]
    BY <1>4, <1>9 DEF Bind, MaybeRoot, Steps
  <2>2. UNCHANGED <<root, mount, marker, torn>> /\ mount[s] = None /\ Apart(s, r)
    BY <1>9 DEF Bind, store, Public, Managed
  <2>3. Beside(s, r)'
    BY <2>2, ApartBeside DEF Beside
  <2>4. CommandOK(cmd[c])'
    BY <1>5, <2>1, <2>2, <2>3 DEF CommandOK, Turn, Compared, Moved, Intact
  <2> QED BY <1>3, <1>5, <2>1, <2>2, <2>4, Reduce
<1>10. ASSUME NEW r \in MaybeRoot, Adopt(c, s, r) PROVE AInv'
  <2>1. /\ cmd'[c].op = "attach" /\ cmd'[c].source = s /\ cmd'[c].step = "accept"
        /\ cmd'[c] # Free
    BY <1>4, <1>10 DEF Adopt, Steps
  <2>2. UNCHANGED <<root, mount, marker, torn>>
    BY <1>10 DEF Adopt
  <2>3. CommandOK(cmd[c])'
    BY <1>5, <2>1, <2>2 DEF CommandOK, Turn, Compared, Moved, Intact
  <2> QED BY <1>3, <1>5, <2>1, <2>2, <2>3, Reduce
<1> QED BY <1>1, <1>6, <1>7, <1>8, <1>9, <1>10

LEMMA AcceptAgree ==
  ASSUME OneCommand, IInv, AInv, NEW c \in Commands, Accept(c)
  PROVE  AInv'
<1>1. /\ cmd[c] # Free /\ cmd[c].step = "accept"
      /\ UNCHANGED <<root, mount, marker, torn>>
  BY DEF Accept, At, Fails
<1>2. CommandOK(cmd[c])
  BY <1>1, Acting
<1>3. cmd[c].source \notin torn => Agrees(cmd[c].source)
  BY <1>1, <1>2 DEF CommandOK, Intact
<1>4. CASE cmd' = [cmd EXCEPT ![c] = Free]
  <2>1. cmd'[c] = Free
    BY <1>4 DEF IInv, Types
  <2> QED BY <1>1, <1>3, <2>1, ReduceIdle
<1>5. ASSUME Goto(c, "check"), cmd[c].root # None PROVE AInv'
  <2>1. /\ cmd'[c] # Free /\ cmd'[c].step = "check" /\ cmd'[c].op = cmd[c].op
        /\ cmd'[c].source = cmd[c].source /\ cmd'[c].root = cmd[c].root
        /\ cmd'[c].prev = cmd[c].prev
    BY <1>1, <1>5, Going DEF Steps
  <2>2. cmd[c].op = "attach"
    BY <1>1, <1>2 DEF CommandOK, Turn
  <2>3. cmd[c].root \in Roots
    BY <1>1, <1>5, Acting DEF MaybeRoot
  <2>4. PICK s : s = cmd[c].source
    OBVIOUS
  <2>5. s \notin torn' => Agrees(s)'
    BY <1>1, <1>3, <2>4 DEF Agrees
  <2>6. CommandOK(cmd[c])'
    BY <1>1, <2>1, <2>2, <2>3, <2>4, <2>5 DEF CommandOK, Turn, Compared, Moved, Intact
  <2> QED BY <1>1, <2>1, <2>6, ReduceIdle
<1>6. CASE cmd[c].root = None
  BY <1>4, <1>6 DEF Accept, Fails
<1>7. CASE cmd[c].root # None
  BY <1>5, <1>7 DEF Accept
<1> QED BY <1>6, <1>7

(* The command by its parts. *)
LEMMA Parts ==
  ASSUME OneCommand, IInv, AInv, NEW c \in Commands, cmd[c] # Free
  PROVE  \E s \in Sources, r \in MaybeRoot, q \in MaybeRoot :
           /\ s = cmd[c].source /\ r = cmd[c].root /\ q = cmd[c].prev
           /\ cmd[c] \in Command /\ CommandOK(cmd[c]) /\ Beside(s, q)
           /\ Intact(cmd[c]) /\ s \notin torn => Agrees(s)
           /\ root[s] \in MaybeRoot
<1>1. /\ cmd[c] \in Command /\ CommandOK(cmd[c]) /\ Beside(cmd[c].source, cmd[c].prev)
      /\ cmd[c].source \in Sources /\ cmd[c].root \in MaybeRoot /\ cmd[c].prev \in MaybeRoot
  BY Acting
<1>2. root[cmd[c].source] \in MaybeRoot
  BY <1>1 DEF IInv, Types
<1> QED BY <1>1, <1>2 DEF CommandOK

LEMMA AttachCheckAgree ==
  ASSUME OneCommand, IInv, AInv, NEW c \in Commands, AttachCheck(c)
  PROVE  AInv'
<1>1. /\ cmd[c] # Free /\ cmd[c].step = "check"
      /\ UNCHANGED <<root, mount, marker>> /\ torn' = torn
  BY DEF AttachCheck, At, Fails, store
<1>2. PICK s \in Sources, r \in MaybeRoot, q \in MaybeRoot :
        /\ s = cmd[c].source /\ r = cmd[c].root /\ q = cmd[c].prev
        /\ cmd[c] \in Command /\ CommandOK(cmd[c])
        /\ Intact(cmd[c]) /\ s \notin torn => Agrees(s)
        /\ root[s] \in MaybeRoot
  BY <1>1, Parts
<1>3. s \notin torn => Agrees(s)
  BY <1>1, <1>2 DEF Intact
<1>4. CASE ~Apart(s, r)
  <2>1. cmd'[c] = Free
    BY <1>2, <1>4 DEF AttachCheck, Fails, IInv, Types
  <2> QED BY <1>1, <1>2, <1>3, <2>1, ReduceIdle
<1>5. CASE Apart(s, r)
  <2> DEFINE stepped == [cmd[c] EXCEPT !.step = "set"]
  <2>1. /\ stepped \in Command /\ stepped.op = cmd[c].op /\ stepped.source = s
        /\ stepped.root = r /\ stepped.step = "set"
    BY <1>2 DEF Command, Steps
  <2>2. cmd'[c] = [stepped EXCEPT !.prev = root[s]]
    BY <1>2, <1>5 DEF AttachCheck, IInv, Types
  <2> HIDE DEF stepped
  <2>3. /\ cmd'[c] \in Command /\ cmd'[c].op = cmd[c].op /\ cmd'[c].source = s
        /\ cmd'[c].root = r /\ cmd'[c].step = "set" /\ cmd'[c].prev = root[s]
    BY <1>2, <2>1, <2>2 DEF Command
  <2>4. cmd[c].op = "attach"
    BY <1>1, <1>2 DEF CommandOK, Turn
  <2>5. r \in Roots /\ Beside(s, r)
    BY <1>1, <1>2, <1>5, <2>4, ApartBeside DEF CommandOK
  <2>6. Beside(s, r)' /\ (s \notin torn' => Agrees(s)')
    BY <1>1, <1>3, <2>5 DEF Beside, Agrees
  <2>7. CommandOK(cmd[c])'
    BY <1>1, <2>3, <2>4, <2>5, <2>6 DEF CommandOK, Turn, Compared, Moved, Intact
  <2>8. cmd'[c] # Free
    BY <2>3, FreeAssumption
  <2> QED BY <1>1, <1>2, <2>3, <2>7, <2>8, ReduceIdle
<1> QED BY <1>4, <1>5

LEMMA SetRootAgree ==
  ASSUME OneCommand, IInv, AInv, NEW c \in Commands, SetRoot(c)
  PROVE  AInv'
<1>1. /\ cmd[c] # Free /\ cmd[c].step = "set"
      /\ UNCHANGED <<mount, marker>> /\ torn' = torn
      /\ DOMAIN marker = Roots /\ DOMAIN mount = Sources
  BY DEF SetRoot, At, Fails, AInv
<1>2. PICK s \in Sources, r \in MaybeRoot, q \in MaybeRoot :
        /\ s = cmd[c].source /\ r = cmd[c].root /\ q = cmd[c].prev
        /\ cmd[c] \in Command /\ CommandOK(cmd[c])
        /\ Intact(cmd[c]) /\ s \notin torn => Agrees(s)
  BY <1>1, Parts
<1>3. s \notin torn => Agrees(s)
  BY <1>1, <1>2 DEF Intact
<1>4. CASE TakenBy(s, r)
  <2>1. cmd'[c] = Free /\ root' = root
    BY <1>2, <1>4 DEF SetRoot, Fails, IInv, Types
  <2> QED BY <1>1, <1>2, <1>3, <2>1, ReduceIdle
<1>5. CASE ~TakenBy(s, r)
  <2>1. /\ root' = [root EXCEPT ![s] = r] /\ Goto(c, AfterSet(cmd[c]))
    BY <1>2, <1>5 DEF SetRoot
  <2>2. /\ root'[s] = r /\ \A o \in Sources \ {s} : root'[o] = root[o]
    BY <2>1 DEF IInv, Types
  <2>3. /\ cmd'[c] # Free /\ cmd'[c].step = AfterSet(cmd[c]) /\ cmd'[c].op = cmd[c].op
        /\ cmd'[c].source = s /\ cmd'[c].root = r /\ cmd'[c].prev = q
    BY <1>1, <1>2, <2>1, Going DEF Steps, AfterSet
  <2>4. /\ cmd[c].op \in {"bind", "attach"} /\ r \in Roots /\ Beside(s, r)
        /\ q = root[s] /\ (cmd[c].op = "bind" => mount[s] = None)
    BY <1>1, <1>2 DEF CommandOK, Turn, Compared
  <2>5. /\ AfterSet(cmd[c]) \in {"clear", "mark"}
        /\ AfterSet(cmd[c]) = "clear" => cmd[c].op = "bind"
    BY DEF AfterSet
  <2>6. Beside(s, r)'
    BY <2>2, <2>4 DEF Beside
  <2>7. s \notin torn => /\ q # None => marker[q] = s
                         /\ mount[s] \in {None, q}
    BY <1>3, <2>4 DEF Agrees
  <2>8. CommandOK(cmd[c])'
    BY <1>1, <2>2, <2>3, <2>4, <2>5, <2>6, <2>7
    DEF CommandOK, Turn, Compared, Moved, Intact
  <2> QED BY <1>1, <1>2, <2>2, <2>3, <2>8, ReduceStep
<1> QED BY <1>4, <1>5

LEMMA ForgetAgree ==
  ASSUME OneCommand, IInv, AInv, NEW c \in Commands, Forget(c)
  PROVE  AInv'
<1>1. /\ cmd[c] # Free /\ cmd[c].step = "forget" /\ Goto(c, "unmark")
      /\ UNCHANGED <<marker, torn>>
      /\ DOMAIN marker = Roots /\ DOMAIN mount = Sources
  BY DEF Forget, At, AInv
<1>2. PICK s \in Sources, r \in MaybeRoot, q \in MaybeRoot :
        /\ s = cmd[c].source /\ r = cmd[c].root /\ q = cmd[c].prev
        /\ CommandOK(cmd[c])
  BY <1>1, Parts
<1>3. cmd[c].op = "remove"
  BY <1>1, <1>2 DEF CommandOK, Turn
<1>4. /\ root'[s] = None /\ mount'[s] = None /\ DOMAIN mount' = Sources
      /\ \A o \in Sources \ {s} : root'[o] = root[o] /\ mount'[o] = mount[o]
  BY <1>1, <1>2 DEF Forget, IInv, Types
<1>5. /\ cmd'[c] # Free /\ cmd'[c].step = "unmark" /\ cmd'[c].op = cmd[c].op
      /\ cmd'[c].source = s /\ cmd'[c].root = r /\ cmd'[c].prev = q
  BY <1>1, <1>2, Going DEF Steps
<1>6. CommandOK(cmd[c])'
  BY <1>3, <1>4, <1>5 DEF CommandOK, Turn, Compared, Moved, Intact
<1> QED BY <1>1, <1>2, <1>4, <1>5, <1>6, ReduceStep

LEMMA ClearRowsAgree ==
  ASSUME OneCommand, IInv, AInv, NEW c \in Commands, ClearRows(c)
  PROVE  AInv'
<1>1. /\ cmd[c] # Free /\ UNCHANGED <<root, mount, marker, torn>>
      /\ \/ cmd[c].step = "clear" /\ Goto(c, "mark")
         \/ cmd[c].step = "reset" /\ Goto(c, "pass")
  BY DEF ClearRows, At
<1>2. PICK s \in Sources, r \in MaybeRoot, q \in MaybeRoot :
        /\ s = cmd[c].source /\ r = cmd[c].root /\ q = cmd[c].prev
        /\ CommandOK(cmd[c])
  BY <1>1, Parts
<1>3. /\ cmd'[c] # Free /\ cmd'[c].op = cmd[c].op
      /\ cmd'[c].source = s /\ cmd'[c].root = r /\ cmd'[c].prev = q
      /\ \/ cmd[c].step = "clear" /\ cmd'[c].step = "mark"
         \/ cmd[c].step = "reset" /\ cmd'[c].step = "pass"
  BY <1>1, <1>2, Going DEF Steps
<1>4. Beside(s, r)' = Beside(s, r)
  BY <1>1 DEF Beside
<1>5. CommandOK(cmd[c])'
  BY <1>1, <1>2, <1>3, <1>4 DEF CommandOK, Turn, Compared, Moved, Intact
<1> QED BY <1>1, <1>2, <1>3, <1>5, ReduceIdle

LEMMA MarkAgree ==
  ASSUME OneCommand, IInv, AInv, NEW c \in Commands, Mark(c)
  PROVE  AInv'
<1>1. /\ cmd[c] # Free /\ cmd[c].step = "mark" /\ UNCHANGED <<root, mount, torn>>
      /\ Goto(c, IF cmd[c].op = "bind" THEN "unmark" ELSE "reset")
      /\ DOMAIN marker = Roots /\ DOMAIN mount = Sources
  BY DEF Mark, At, store, AInv
<1>2. PICK s \in Sources, r \in MaybeRoot, q \in MaybeRoot :
        /\ s = cmd[c].source /\ r = cmd[c].root /\ q = cmd[c].prev
        /\ CommandOK(cmd[c])
  BY <1>1, Parts
<1>3. cmd[c].op \in {"bind", "attach"} /\ r \in Roots /\ Beside(s, r)
  BY <1>1, <1>2 DEF CommandOK, Turn, Compared
<1>4. /\ DOMAIN marker' = Roots /\ marker'[r] = s
      /\ \A x \in Roots : x # r => marker'[x] = marker[x]
  BY <1>1, <1>2, <1>3 DEF Mark
<1>5. /\ cmd'[c] # Free /\ cmd'[c].op = cmd[c].op
      /\ cmd'[c].source = s /\ cmd'[c].root = r /\ cmd'[c].prev = q
      /\ cmd'[c].step = IF cmd[c].op = "bind" THEN "unmark" ELSE "reset"
  BY <1>1, <1>2, Going DEF Steps
<1>6. Beside(s, r)' = Beside(s, r) /\ \A x \in Roots : marker'[x] = marker[x] \/ Beside(s, x)
  BY <1>1, <1>3, <1>4 DEF Beside
<1>7. q \notin {None, r} => q \in Roots
  BY <1>2 DEF MaybeRoot
<1>8. CommandOK(cmd[c])'
  BY <1>1, <1>2, <1>3, <1>4, <1>5, <1>6, <1>7 DEF CommandOK, Turn, Compared, Moved, Intact
<1> QED BY <1>1, <1>2, <1>4, <1>5, <1>6, <1>8, ReduceStep

LEMMA PassAgree ==
  ASSUME OneCommand, IInv, AInv, NEW c \in Commands, Pass(c)
  PROVE  AInv'
<1>1. /\ cmd[c] # Free /\ cmd[c].step = "pass" /\ UNCHANGED <<root, mount, marker, torn>>
      /\ \/ cmd[c].op = "sync" /\ cmd' = [cmd EXCEPT ![c] = Free]
         \/ cmd[c].op = "attach" /\ (Goto(c, "mount") \/ Goto(c, "undo mark"))
  BY DEF Pass, At, Fails
<1>2. PICK s \in Sources, r \in MaybeRoot, q \in MaybeRoot :
        /\ s = cmd[c].source /\ r = cmd[c].root /\ q = cmd[c].prev
        /\ CommandOK(cmd[c])
        /\ Intact(cmd[c]) /\ s \notin torn => Agrees(s)
  BY <1>1, Parts
<1>3. CASE cmd[c].op = "sync" /\ cmd' = [cmd EXCEPT ![c] = Free]
  <2>1. cmd'[c] = Free
    BY <1>3 DEF IInv, Types
  <2>2. Intact(cmd[c])
    BY <1>3 DEF Intact
  <2> QED BY <1>1, <1>2, <2>1, <2>2, ReduceIdle
<1>4. ASSUME NEW step \in {"mount", "undo mark"}, Goto(c, step), cmd[c].op = "attach"
      PROVE  AInv'
  <2>1. /\ cmd'[c] # Free /\ cmd'[c].op = cmd[c].op /\ cmd'[c].step = step
        /\ cmd'[c].source = s /\ cmd'[c].root = r /\ cmd'[c].prev = q
    BY <1>1, <1>2, <1>4, Going DEF Steps
  <2>2. Beside(s, r)' = Beside(s, r)
    BY <1>1 DEF Beside
  <2>3. CommandOK(cmd[c])'
    BY <1>1, <1>2, <1>4, <2>1, <2>2 DEF CommandOK, Turn, Compared, Moved, Intact
  <2> QED BY <1>1, <1>2, <2>1, <2>3, ReduceIdle
<1> QED BY <1>1, <1>3, <1>4

LEMMA MountAgree ==
  ASSUME OneCommand, IInv, AInv, NEW c \in Commands, Mount(c)
  PROVE  AInv'
<1>1. /\ cmd[c] # Free /\ cmd[c].step = "mount" /\ UNCHANGED <<root, marker>>
      /\ DOMAIN marker = Roots /\ DOMAIN mount = Sources
  BY DEF Mount, At, AInv
<1>2. PICK s \in Sources, r \in MaybeRoot, q \in MaybeRoot :
        /\ s = cmd[c].source /\ r = cmd[c].root /\ q = cmd[c].prev
        /\ CommandOK(cmd[c])
  BY <1>1, Parts
<1>3. CASE /\ cmd' = [cmd EXCEPT ![c] = Free] /\ torn' = torn \cup {s}
           /\ UNCHANGED mount
  <2>1. cmd'[c] = Free
    BY <1>3 DEF IInv, Types
  <2> QED BY <1>1, <1>2, <1>3, <2>1, ReduceIdle
<1>4. CASE mount' = [mount EXCEPT ![s] = r] /\ Goto(c, "unmark") /\ UNCHANGED torn
  <2>1. /\ cmd'[c] # Free /\ cmd'[c].op = cmd[c].op /\ cmd'[c].step = "unmark"
        /\ cmd'[c].source = s /\ cmd'[c].root = r /\ cmd'[c].prev = q
    BY <1>1, <1>2, <1>4, Going DEF Steps
  <2>2. /\ mount'[s] = r /\ DOMAIN mount' = Sources
        /\ \A o \in Sources \ {s} : mount'[o] = mount[o]
    BY <1>1, <1>4
  <2>3. Beside(s, r)' = Beside(s, r)
    BY <1>1 DEF Beside
  <2>4. cmd[c].op = "attach"
    BY <1>1, <1>2 DEF CommandOK, Turn
  <2>5. CommandOK(cmd[c])'
    BY <1>1, <1>2, <2>1, <2>2, <2>3, <2>4 DEF CommandOK, Turn, Compared, Moved, Intact
  <2> QED BY <1>1, <1>2, <1>4, <2>1, <2>2, <2>5, ReduceStep
<1> QED BY <1>2, <1>3, <1>4 DEF Mount

LEMMA UnmarkAgree ==
  ASSUME OneCommand, IInv, AInv, NEW c \in Commands, Unmark(c)
  PROVE  AInv'
<1>1. /\ cmd[c] # Free /\ cmd[c].step = "unmark" /\ UNCHANGED <<root, mount>>
      /\ DOMAIN marker = Roots /\ DOMAIN mount = Sources
  BY DEF Unmark, At, AInv, store
<1>2. PICK s \in Sources, r \in MaybeRoot, q \in MaybeRoot :
        /\ s = cmd[c].source /\ r = cmd[c].root /\ q = cmd[c].prev
        /\ CommandOK(cmd[c]) /\ Beside(s, q)
        /\ root[s] \in MaybeRoot
  BY <1>1, Parts
<1>3. cmd'[c] = Free /\ torn' = torn \ {s}
  BY <1>2 DEF Unmark, Done, IInv, Types
<1>4. /\ DOMAIN marker' = Roots
      /\ \A x \in Roots : marker'[x] = IF x \in {q} \ {None, r} THEN None ELSE marker[x]
  BY <1>2 DEF Unmark, LeftRoot
<1>5. \A x \in Roots : marker'[x] = marker[x] \/ Beside(s, x)
  BY <1>2, <1>4
<1>6. Agrees(s)'
  <2>1. mount[s] \in {None, root[s]}
    BY <1>1, <1>2 DEF CommandOK
  <2>2. CASE cmd[c].op \in {"bind", "attach"}
    <3>1. root[s] = r /\ marker[r] = s /\ r \in Roots
      BY <1>1, <1>2, <2>2 DEF CommandOK, Compared, Moved
    <3> QED BY <1>1, <1>4, <2>1, <3>1 DEF Agrees
  <2>3. CASE cmd[c].op \in {"unbind", "remove"}
    <3>1. root[s] = None
      BY <1>1, <1>2, <2>3 DEF CommandOK
    <3> QED BY <1>1, <2>1, <3>1 DEF Agrees
  <2> QED BY <1>1, <1>2, <2>2, <2>3 DEF CommandOK, Turn
<1> QED BY <1>1, <1>2, <1>3, <1>4, <1>5, <1>6, ReduceStep

LEMMA UndoMarkAgree ==
  ASSUME OneCommand, IInv, AInv, NEW c \in Commands, UndoMark(c)
  PROVE  AInv'
<1>1. /\ cmd[c] # Free /\ cmd[c].step = "undo mark" /\ UNCHANGED <<root, mount, torn>>
      /\ Goto(c, "undo set")
      /\ DOMAIN marker = Roots /\ DOMAIN mount = Sources
  BY DEF UndoMark, At, store, AInv
<1>2. PICK s \in Sources, r \in MaybeRoot, q \in MaybeRoot :
        /\ s = cmd[c].source /\ r = cmd[c].root /\ q = cmd[c].prev
        /\ CommandOK(cmd[c])
  BY <1>1, Parts
<1>3. cmd[c].op = "attach" /\ r \in Roots /\ Beside(s, r)
  BY <1>1, <1>2 DEF CommandOK, Turn, Compared
<1>4. /\ DOMAIN marker' = Roots
      /\ \A x \in Roots : x # r => marker'[x] = marker[x]
  BY <1>1, <1>2, <1>3 DEF UndoMark
<1>5. /\ cmd'[c] # Free /\ cmd'[c].op = cmd[c].op /\ cmd'[c].step = "undo set"
      /\ cmd'[c].source = s /\ cmd'[c].root = r /\ cmd'[c].prev = q
  BY <1>1, <1>2, Going DEF Steps
<1>6. Beside(s, r)' = Beside(s, r) /\ \A x \in Roots : marker'[x] = marker[x] \/ Beside(s, x)
  BY <1>1, <1>3, <1>4 DEF Beside
<1>7. q \notin {None, r} => q \in Roots
  BY <1>2 DEF MaybeRoot
<1>8. CommandOK(cmd[c])'
  BY <1>1, <1>2, <1>3, <1>4, <1>5, <1>6, <1>7 DEF CommandOK, Turn, Compared, Moved, Intact
<1> QED BY <1>1, <1>2, <1>4, <1>5, <1>6, <1>8, ReduceStep

(* The root the source had is still free: it was beside the others'. *)
LEMMA UndoSetAgree ==
  ASSUME OneCommand, IInv, AInv, NEW c \in Commands, UndoSet(c)
  PROVE  AInv'
<1>1. /\ cmd[c] # Free /\ cmd[c].step = "undo set" /\ UNCHANGED <<mount, marker>>
      /\ DOMAIN marker = Roots /\ DOMAIN mount = Sources
  BY DEF UndoSet, At, AInv
<1>2. PICK s \in Sources, r \in MaybeRoot, q \in MaybeRoot :
        /\ s = cmd[c].source /\ r = cmd[c].root /\ q = cmd[c].prev
        /\ CommandOK(cmd[c]) /\ Beside(s, q)
  BY <1>1, Parts
<1>3. ~(q # None /\ TakenBy(s, q))
  <2>1. ASSUME q # None, NEW o \in Sources \ {s}, root[o] = q PROVE FALSE
    <3>1. q \in Roots
      BY <2>1 DEF MaybeRoot
    <3> QED BY <1>2, <2>1, <3>1, RootsAssumption DEF Beside
  <2> QED BY <2>1 DEF TakenBy
<1>4. /\ root' = [root EXCEPT ![s] = q] /\ Goto(c, "undo clear")
      /\ torn' = IF q = r THEN torn \cup {s} ELSE torn
  BY <1>2, <1>3 DEF UndoSet
<1>5. root'[s] = q /\ \A o \in Sources \ {s} : root'[o] = root[o]
  BY <1>4 DEF IInv, Types
<1>6. /\ cmd'[c] # Free /\ cmd'[c].op = cmd[c].op /\ cmd'[c].step = "undo clear"
      /\ cmd'[c].source = s /\ cmd'[c].root = r /\ cmd'[c].prev = q
  BY <1>1, <1>2, <1>4, Going DEF Steps
<1>7. cmd[c].op = "attach" /\ r \in Roots /\ Beside(s, r)
  BY <1>1, <1>2 DEF CommandOK, Turn, Compared
<1>8. Beside(s, r)'
  BY <1>5, <1>7 DEF Beside
<1>9. s \notin torn' => Agrees(s)'
  <2>1. s \notin torn' => q # r /\ s \notin torn
    BY <1>4
  <2>2. s \notin torn => /\ q \notin {None, r} => marker[q] = s
                         /\ mount[s] \in {None, q}
    BY <1>1, <1>2, <1>7 DEF CommandOK, Compared, Moved
  <2> QED BY <1>1, <1>5, <2>1, <2>2 DEF Agrees
<1>10. CommandOK(cmd[c])'
  BY <1>1, <1>6, <1>7, <1>8, <1>9 DEF CommandOK, Turn, Compared, Moved, Intact
<1> QED BY <1>1, <1>2, <1>4, <1>5, <1>6, <1>10, ReduceStep

LEMMA UndoClearAgree ==
  ASSUME OneCommand, IInv, AInv, NEW c \in Commands, UndoClear(c)
  PROVE  AInv'
<1>1. /\ cmd[c] # Free /\ cmd[c].step = "undo clear"
      /\ UNCHANGED <<root, mount, marker, torn>>
      /\ cmd' = [cmd EXCEPT ![c] = Free]
  BY DEF UndoClear, At, Fails
<1>2. PICK s \in Sources, r \in MaybeRoot, q \in MaybeRoot :
        /\ s = cmd[c].source /\ (Intact(cmd[c]) /\ s \notin torn => Agrees(s))
  BY <1>1, Parts
<1>3. cmd'[c] = Free /\ Intact(cmd[c])
  BY <1>1 DEF Intact, IInv, Types
<1> QED BY <1>1, <1>2, <1>3, ReduceIdle

LEMMA NextAgree ==
  ASSUME OneCommand, IInv, AInv, [Next]_vars
  PROVE  AInv'
<1>1. ASSUME UNCHANGED <<root, mount, marker, torn, cmd>> PROVE AInv'
  <2>1. Busy' = Busy /\ \A s \in Sources : Agrees(s)' = Agrees(s)
    BY <1>1 DEF Busy, Agrees
  <2>2. ASSUME NEW c \in Commands, cmd[c] # Free PROVE CommandOK(cmd[c])'
    <3>1. PICK k : k = cmd[c]
      OBVIOUS
    <3>2. CommandOK(k) /\ cmd'[c] = k
      BY <1>1, <2>2, <3>1 DEF AInv
    <3>3. /\ Agrees(k.source)' = Agrees(k.source)
          /\ Beside(k.source, k.root)' = Beside(k.source, k.root)
      BY <1>1 DEF Agrees, Beside
    <3>4. CommandOK(k)'
      BY <1>1, <3>2, <3>3 DEF CommandOK, Turn, Compared, Moved, Intact
    <3> QED BY <3>2, <3>4
  <2> QED BY <1>1, <2>1, <2>2 DEF AInv
<1>2. ASSUME NEW s \in Sources, NEW b \in Buckets, Add(s, b) PROVE AInv'
  BY <1>1, <1>2 DEF Add
<1>3. ASSUME NEW c \in Commands, Begin(c) PROVE AInv'
  BY <1>3, BeginAgree
<1>4. ASSUME NEW c \in Commands, Continue(c) PROVE AInv'
  BY <1>4, AcceptAgree, AttachCheckAgree, SetRootAgree, ForgetAgree, ClearRowsAgree,
     MarkAgree, PassAgree, MountAgree, UnmarkAgree, UndoMarkAgree, UndoSetAgree,
     UndoClearAgree
  DEF Continue
<1>5. ASSUME NEW c \in Commands, Die(c) PROVE AInv'
  <2>1. /\ cmd[c] # Free /\ torn' = torn \cup {cmd[c].source}
        /\ UNCHANGED <<root, mount, marker>> /\ cmd'[c] = Free
    BY <1>5 DEF Die, store, IInv, Types
  <2> QED BY <2>1, ReduceIdle
<1>6. CASE UNCHANGED vars
  BY <1>1, <1>6 DEF vars
<1> QED BY <1>2, <1>3, <1>4, <1>5, <1>6 DEF Next

(* Between commands the binding in the store, the marker in the directory  *)
(* and the mount agree for every source whose last command was not left    *)
(* unfinished, wherever commands die or are rolled back, as long as they   *)
(* run one at a time (control_plane.rs:1461, 299, 1924).                   *)
THEOREM RecordsStayTogether ==
  ASSUME OneCommand
  PROVE  Spec => []RecordsAgree
<1>1. Init => IInv /\ AInv
  BY InitInv, InitAgree
<1>2. IInv /\ AInv /\ [Next]_vars => (IInv /\ AInv)'
  BY NextInv, NextAgree
<1>3. AInv => RecordsAgree
  BY AgreeSuffices
<1> QED BY <1>1, <1>2, <1>3, PTL DEF Spec

-----------------------------------------------------------------------------
(***************************************************************************)
(* A pass finds no rows of another root or another place.  For a source    *)
(* that is no filesystem the rows are of its root and its place, except    *)
(* while a command is about to clear them or to record a filesystem (PInv); *)
(* an attach has cleared them itself.                                      *)
(***************************************************************************)
Own(s) == rows[s] \in {None, [root |-> root[s], place |-> backing[s]]}

RowsOK(k) ==
  /\ k.op \in {"bind", "attach"} => backing[k.source] # None
  /\ k.op = "attach" /\ k.step # "accept" => accepted[k.source]
  /\ k.op = "attach" /\ k.step = "pass" => rows[k.source] = None
  /\ k.op = "sync" => k.root = root[k.source] /\ k.root # None /\ ~accepted[k.source]

Under(s, steps) ==
  \E c \in Commands : cmd[c] # Free /\ cmd[c].source = s /\ cmd[c].step \in steps

SourceOK(s) ==
  root[s] # None =>
    /\ backing[s] # None \/ Under(s, {"forget"})
    /\ accepted[s] \/ Own(s) \/ Under(s, {"accept", "clear", "forget"})

PInv ==
  /\ DOMAIN backing = Sources /\ DOMAIN accepted = Sources /\ DOMAIN rows = Sources
  /\ \A c \in Commands : cmd[c] # Free => RowsOK(cmd[c])
  /\ \A s \in Sources : SourceOK(s)

(* The steps before which a command must not die. *)
CleansUp == {"accept", "clear", "forget"} \cap DiesAt = {}

LEMMA PassOwn ==
  ASSUME OneCommand, IInv, AInv, PInv, NEW c \in Commands, At(c, "pass")
  PROVE  rows[cmd[c].source] \in {None, PassedOver(c)}
<1>1. PICK s \in Sources, r \in MaybeRoot, q \in MaybeRoot :
        /\ s = cmd[c].source /\ r = cmd[c].root /\ CommandOK(cmd[c])
        /\ root[s] \in MaybeRoot
  BY Parts DEF At
<1>2. cmd[c].op \in {"sync", "attach"} /\ RowsOK(cmd[c]) /\ SourceOK(s)
  BY <1>1 DEF At, CommandOK, Turn, PInv
<1>3. CASE cmd[c].op = "attach"
  BY <1>1, <1>2, <1>3 DEF RowsOK, At
<1>4. CASE cmd[c].op = "sync"
  <2>1. ~accepted[s] /\ r = root[s] /\ r # None
    BY <1>1, <1>2, <1>4 DEF RowsOK
  <2>2. ~Under(s, {"accept", "clear", "forget"})
    BY <1>1 DEF Under, OneCommand, At
  <2>3. root[s] # None
    BY <2>1
  <2> QED BY <1>1, <1>2, <1>4, <2>1, <2>2, <2>3 DEF SourceOK, Own, PassedOver
<1> QED BY <1>2, <1>3, <1>4

(* A step of the only command, for s: what it knew and what it leaves. *)
LEMMA ReduceRows ==
  ASSUME OneCommand, IInv, AInv, PInv, NEW c \in Commands, NEW s \in Sources,
         cmd[c] # Free => s = cmd[c].source,
         DOMAIN backing' = Sources, DOMAIN accepted' = Sources, DOMAIN rows' = Sources,
         \A o \in Sources \ {s} :
           /\ root'[o] = root[o] /\ backing'[o] = backing[o]
           /\ accepted'[o] = accepted[o] /\ rows'[o] = rows[o],
         cmd'[c] # Free => RowsOK(cmd[c])',
         root'[s] # None =>
           /\ \/ backing'[s] # None
              \/ cmd'[c] # Free /\ cmd'[c].source = s /\ cmd'[c].step = "forget"
           /\ \/ accepted'[s]
              \/ rows'[s] \in {None, [root |-> root'[s], place |-> backing'[s]]}
              \/ /\ cmd'[c] # Free /\ cmd'[c].source = s
                 /\ cmd'[c].step \in {"accept", "clear", "forget"}
  PROVE  PInv'
<1>1. \A d \in Commands : d = c
  BY DEF OneCommand
<1>2. \A o \in Sources \ {s} : ~Under(o, {"forget"}) /\ ~Under(o, {"accept", "clear", "forget"})
  BY <1>1 DEF Under
<1>3. \A o \in Sources \ {s} : SourceOK(o)'
  BY <1>2 DEF PInv, SourceOK, Own
<1>4. SourceOK(s)'
  BY DEF SourceOK, Own, Under
<1> QED BY <1>1, <1>3, <1>4 DEF PInv

(* ... that changes neither root, backing, accepted nor rows. *)
LEMMA ReduceRowsIdle ==
  ASSUME OneCommand, IInv, AInv, PInv, NEW c \in Commands, cmd[c] # Free,
         UNCHANGED <<root, backing, accepted, rows>>,
         cmd[c].step \notin {"accept", "clear", "forget"},
         cmd'[c] # Free => RowsOK(cmd[c])'
  PROVE  PInv'
<1>1. PICK s \in Sources : s = cmd[c].source
  BY Acting
<1>2. ~Under(s, {"forget"}) /\ ~Under(s, {"accept", "clear", "forget"})
  BY DEF Under, OneCommand
<1>3. SourceOK(s)
  BY DEF PInv
<1> QED BY <1>1, <1>2, <1>3, ReduceRows DEF PInv, SourceOK, Own

(* A command that ends where it is not about to clear rows. *)
LEMMA EndRows ==
  ASSUME OneCommand, IInv, AInv, PInv, NEW c \in Commands, cmd[c] # Free,
         UNCHANGED <<root, backing, accepted, rows>>,
         cmd[c].step \notin {"accept", "clear", "forget"},
         cmd' = [cmd EXCEPT ![c] = Free]
  PROVE  PInv'
<1>1. cmd'[c] = Free
  BY DEF IInv, Types
<1> QED BY <1>1, ReduceRowsIdle

(* The command by its parts, and what is known of its source. *)
LEMMA RowParts ==
  ASSUME OneCommand, IInv, AInv, PInv, NEW c \in Commands, cmd[c] # Free
  PROVE  \E s \in Sources, r \in MaybeRoot, q \in MaybeRoot :
           /\ s = cmd[c].source /\ r = cmd[c].root /\ q = cmd[c].prev
           /\ cmd[c] \in Command /\ CommandOK(cmd[c]) /\ RowsOK(cmd[c])
           /\ root[s] \in MaybeRoot
           /\ root[s] # None =>
                /\ backing[s] # None \/ cmd[c].step = "forget"
                /\ \/ accepted[s] \/ Own(s)
                   \/ cmd[c].step \in {"accept", "clear", "forget"}
<1>1. PICK s \in Sources, r \in MaybeRoot, q \in MaybeRoot :
           /\ s = cmd[c].source /\ r = cmd[c].root /\ q = cmd[c].prev
           /\ cmd[c] \in Command /\ CommandOK(cmd[c])
           /\ root[s] \in MaybeRoot
  BY Parts
<1>2. RowsOK(cmd[c]) /\ SourceOK(s)
  BY DEF PInv
<1>3. /\ Under(s, {"forget"}) => cmd[c].step = "forget"
      /\ Under(s, {"accept", "clear", "forget"}) =>
           cmd[c].step \in {"accept", "clear", "forget"}
  BY DEF Under, OneCommand
<1>4. root[s] # None =>
        /\ backing[s] # None \/ cmd[c].step = "forget"
        /\ \/ accepted[s] \/ Own(s)
           \/ cmd[c].step \in {"accept", "clear", "forget"}
  BY <1>2, <1>3 DEF SourceOK
<1> QED BY <1>1, <1>2, <1>4

-----------------------------------------------------------------------------
LEMMA InitRows == Init => PInv
BY DEF Init, PInv, SourceOK

LEMMA BeginRows ==
  ASSUME OneCommand, IInv, AInv, PInv, NEW c \in Commands, Begin(c)
  PROVE  PInv'
<1>1. PICK s \in Sources :
        \/ Unbind(c, s) \/ RemoveSource(c, s) \/ Sync(c, s)
        \/ \E r \in Roots : Bind(c, s, r)
        \/ \E r \in MaybeRoot : Adopt(c, s, r)
  BY DEF Begin
<1>2. cmd[c] = Free
  BY <1>1 DEF Unbind, RemoveSource, Sync, Bind, Adopt
<1>3. ~Under(s, {"forget"}) /\ ~Under(s, {"accept", "clear", "forget"})
  BY <1>2 DEF Under, OneCommand
<1>4. root[s] # None => backing[s] # None /\ (accepted[s] \/ Own(s))
  BY <1>3 DEF PInv, SourceOK
<1>5. DOMAIN backing = Sources /\ DOMAIN accepted = Sources /\ DOMAIN rows = Sources
  BY DEF PInv
<1>6. ASSUME NEW op \in {"bind", "unbind", "remove", "sync", "attach"},
             NEW r \in MaybeRoot, NEW step \in Steps,
             cmd' = [cmd EXCEPT ![c] = Started(op, s, r, step)]
      PROVE  /\ cmd'[c] # Free /\ cmd'[c].op = op /\ cmd'[c].source = s
             /\ cmd'[c].root = r /\ cmd'[c].prev = root[s] /\ cmd'[c].step = step
  <2>1. root[s] \in MaybeRoot
    BY DEF IInv, Types
  <2>2. Started(op, s, r, step) \in Command
    BY <2>1 DEF Started, Command
  <2>3. cmd'[c] = Started(op, s, r, step)
    BY <1>6 DEF IInv, Types
  <2> QED BY <2>2, <2>3, FreeAssumption DEF Started
<1>7. CASE Unbind(c, s)
  <2>1. cmd'[c].op = "unbind" /\ None \in MaybeRoot
    BY <1>6, <1>7 DEF Unbind, MaybeRoot, Steps
  <2>2. root'[s] = None /\ \A o \in Sources \ {s} : root'[o] = root[o]
    BY <1>7 DEF Unbind, IInv, Types
  <2>3. UNCHANGED <<backing, accepted, rows>>
    BY <1>7 DEF Unbind
  <2>4. RowsOK(cmd[c])'
    BY <2>1 DEF RowsOK
  <2> QED BY <1>2, <1>5, <2>2, <2>3, <2>4, ReduceRows
<1>8. CASE RemoveSource(c, s)
  <2>1. /\ cmd'[c].op = "remove" /\ cmd'[c].source = s /\ cmd'[c].step = "forget"
        /\ cmd'[c] # Free
    BY <1>6, <1>8 DEF RemoveSource, MaybeRoot, Steps
  <2>2. /\ DOMAIN backing' = Sources
        /\ \A o \in Sources \ {s} : backing'[o] = backing[o]
    BY <1>5, <1>8 DEF RemoveSource
  <2>3. UNCHANGED <<root, accepted, rows>>
    BY <1>8 DEF RemoveSource
  <2>4. RowsOK(cmd[c])'
    BY <2>1 DEF RowsOK
  <2> QED BY <1>2, <1>5, <2>1, <2>2, <2>3, <2>4, ReduceRows
<1>9. CASE Sync(c, s)
  <2>1. root[s] \in MaybeRoot
    BY DEF IInv, Types
  <2>2. cmd'[c].op = "sync" /\ cmd'[c].source = s /\ cmd'[c].root = root[s]
    BY <1>6, <1>9, <2>1 DEF Sync, Steps
  <2>3. UNCHANGED <<root, backing, accepted, rows>> /\ ~accepted[s] /\ root[s] # None
    BY <1>9 DEF Sync, store, Public, Managed
  <2>4. RowsOK(cmd[c])'
    BY <2>2, <2>3 DEF RowsOK
  <2> QED BY <1>2, <1>4, <1>5, <2>3, <2>4, ReduceRows DEF Own
<1>10. ASSUME NEW r \in Roots, Bind(c, s, r) PROVE PInv'
  <2>1. cmd'[c].op = "bind" /\ cmd'[c].source = s
    BY <1>6, <1>10 DEF Bind, MaybeRoot, Steps
  <2>2. UNCHANGED <<root, backing, accepted, rows>> /\ backing[s] # None
    BY <1>10 DEF Bind, store, Public
  <2>3. RowsOK(cmd[c])'
    BY <2>1, <2>2 DEF RowsOK
  <2> QED BY <1>2, <1>4, <1>5, <2>2, <2>3, ReduceRows DEF Own
<1>11. ASSUME NEW r \in MaybeRoot, Adopt(c, s, r) PROVE PInv'
  <2>1. /\ cmd'[c].op = "attach" /\ cmd'[c].source = s /\ cmd'[c].step = "accept"
        /\ cmd'[c] # Free
    BY <1>6, <1>11 DEF Adopt, Steps
  <2>2. /\ DOMAIN backing' = Sources /\ backing'[s] = Shared
        /\ \A o \in Sources \ {s} : backing'[o] = backing[o]
    BY <1>5, <1>11 DEF Adopt, Stored
  <2>3. UNCHANGED <<root, accepted, rows>>
    BY <1>11 DEF Adopt
  <2>4. Shared # None
    BY SourcesAssumption
  <2>5. RowsOK(cmd[c])'
    BY <2>1, <2>2, <2>4 DEF RowsOK
  <2> QED BY <1>2, <1>5, <2>1, <2>2, <2>3, <2>4, <2>5, ReduceRows
<1> QED BY <1>1, <1>7, <1>8, <1>9, <1>10, <1>11

LEMMA AcceptRows ==
  ASSUME OneCommand, IInv, AInv, PInv, NEW c \in Commands, Accept(c)
  PROVE  PInv'
<1>1. cmd[c] # Free /\ cmd[c].step = "accept" /\ UNCHANGED <<root, backing, rows>>
  BY DEF Accept, At
<1>2. PICK s \in Sources, r \in MaybeRoot, q \in MaybeRoot :
        /\ s = cmd[c].source /\ CommandOK(cmd[c]) /\ RowsOK(cmd[c])
        /\ root[s] # None => backing[s] # None \/ cmd[c].step = "forget"
  BY <1>1, RowParts
<1>3. cmd[c].op = "attach"
  BY <1>1, <1>2 DEF CommandOK, Turn
<1>4. /\ DOMAIN accepted' = Sources /\ accepted'[s]
      /\ \A o \in Sources \ {s} : accepted'[o] = accepted[o]
  BY <1>2 DEF Accept, PInv
<1>5. cmd'[c] # Free => RowsOK(cmd[c])'
  <2>1. CASE Goto(c, "check")
    <3>1. cmd'[c].step = "check" /\ cmd'[c].op = "attach" /\ cmd'[c].source = s
      BY <1>1, <1>2, <1>3, <2>1, Going DEF Steps
    <3> QED BY <1>1, <1>2, <1>3, <1>4, <3>1 DEF RowsOK
  <2>2. CASE cmd' = [cmd EXCEPT ![c] = Free]
    BY <2>2 DEF IInv, Types
  <2> QED BY <2>1, <2>2 DEF Accept, Fails
<1> QED BY <1>1, <1>2, <1>4, <1>5, ReduceRows DEF PInv

LEMMA AttachCheckRows ==
  ASSUME OneCommand, IInv, AInv, PInv, NEW c \in Commands, AttachCheck(c)
  PROVE  PInv'
<1>1. cmd[c] # Free /\ cmd[c].step = "check" /\ UNCHANGED <<root, backing, accepted, rows>>
  BY DEF AttachCheck, At, store
<1>2. PICK s \in Sources, r \in MaybeRoot, q \in MaybeRoot :
        /\ s = cmd[c].source /\ r = cmd[c].root
        /\ cmd[c] \in Command /\ CommandOK(cmd[c]) /\ RowsOK(cmd[c])
        /\ root[s] \in MaybeRoot
  BY <1>1, RowParts
<1>3. CASE ~Apart(s, r)
  BY <1>1, <1>2, <1>3, EndRows DEF AttachCheck, Fails
<1>4. CASE Apart(s, r)
  <2> DEFINE stepped == [cmd[c] EXCEPT !.step = "set"]
  <2>1. stepped \in Command /\ stepped.op = cmd[c].op /\ stepped.source = s
        /\ stepped.step = "set"
    BY <1>2 DEF Command, Steps
  <2>2. cmd'[c] = [stepped EXCEPT !.prev = root[s]]
    BY <1>2, <1>4 DEF AttachCheck, IInv, Types
  <2> HIDE DEF stepped
  <2>3. cmd'[c].op = cmd[c].op /\ cmd'[c].source = s /\ cmd'[c].step = "set"
    BY <1>2, <2>1, <2>2 DEF Command
  <2>4. cmd[c].op = "attach"
    BY <1>1, <1>2 DEF CommandOK, Turn
  <2>5. RowsOK(cmd[c])'
    BY <1>1, <1>2, <2>3, <2>4 DEF RowsOK
  <2> QED BY <1>1, <2>5, ReduceRowsIdle
<1> QED BY <1>3, <1>4

(* Bind at the root the source had leaves the rows, which are of that root; *)
(* at any other it goes on to clear them.                                   *)
LEMMA SetRootRows ==
  ASSUME OneCommand, IInv, AInv, PInv, NEW c \in Commands, SetRoot(c)
  PROVE  PInv'
<1>1. cmd[c] # Free /\ cmd[c].step = "set" /\ UNCHANGED <<backing, accepted, rows>>
  BY DEF SetRoot, At
<1>2. PICK s \in Sources, r \in MaybeRoot, q \in MaybeRoot :
        /\ s = cmd[c].source /\ r = cmd[c].root /\ q = cmd[c].prev
        /\ CommandOK(cmd[c]) /\ RowsOK(cmd[c])
        /\ root[s] # None =>
             \/ accepted[s] \/ Own(s)
             \/ cmd[c].step \in {"accept", "clear", "forget"}
  BY <1>1, RowParts
<1>3. CASE TakenBy(s, r)
  BY <1>1, <1>2, <1>3, EndRows DEF SetRoot, Fails
<1>4. CASE ~TakenBy(s, r)
  <2>1. root' = [root EXCEPT ![s] = r] /\ Goto(c, AfterSet(cmd[c]))
    BY <1>2, <1>4 DEF SetRoot
  <2>2. root'[s] = r /\ \A o \in Sources \ {s} : root'[o] = root[o]
    BY <2>1 DEF IInv, Types
  <2>3. /\ cmd'[c] # Free /\ cmd'[c].step = AfterSet(cmd[c]) /\ cmd'[c].op = cmd[c].op
        /\ cmd'[c].source = s
    BY <1>1, <1>2, <2>1, Going DEF Steps, AfterSet
  <2>4. cmd[c].op \in {"bind", "attach"} /\ q = root[s]
    BY <1>1, <1>2 DEF CommandOK, Turn
  <2>5. /\ backing[s] # None
        /\ cmd[c].op = "attach" => accepted[s]
    BY <1>1, <1>2, <2>4 DEF RowsOK
  <2>6. cmd'[c].step # "pass"
    BY <2>3 DEF AfterSet
  <2>7. RowsOK(cmd[c])'
    BY <1>1, <2>3, <2>4, <2>5, <2>6 DEF RowsOK
  <2>8. accepted'[s] \/ Own(s)' \/ cmd'[c].step = "clear" \/ root'[s] = None
    <3>1. CASE cmd[c].op = "bind" /\ q # r
      BY <1>2, <2>3, <3>1 DEF AfterSet
    <3>2. CASE q = r
      BY <1>1, <1>2, <2>2, <2>4, <3>2 DEF Own
    <3> QED BY <1>1, <2>4, <2>5, <3>1, <3>2
  <2>9. DOMAIN backing' = Sources /\ DOMAIN accepted' = Sources /\ DOMAIN rows' = Sources
    BY <1>1 DEF PInv
  <2> QED BY <1>1, <1>2, <2>2, <2>3, <2>5, <2>7, <2>8, <2>9, ReduceRows DEF Own
<1> QED BY <1>3, <1>4

LEMMA ForgetRows ==
  ASSUME OneCommand, IInv, AInv, PInv, NEW c \in Commands, Forget(c)
  PROVE  PInv'
<1>1. /\ cmd[c] # Free /\ cmd[c].step = "forget" /\ Goto(c, "unmark")
      /\ UNCHANGED <<backing, accepted>>
  BY DEF Forget, At
<1>2. PICK s \in Sources, r \in MaybeRoot, q \in MaybeRoot :
        s = cmd[c].source /\ CommandOK(cmd[c])
  BY <1>1, RowParts
<1>3. cmd'[c].op = "remove"
  BY <1>1, <1>2, Going DEF CommandOK, Turn, Steps
<1>4. /\ root'[s] = None /\ DOMAIN rows' = Sources
      /\ \A o \in Sources \ {s} : root'[o] = root[o] /\ rows'[o] = rows[o]
  BY <1>2 DEF Forget, IInv, Types, PInv
<1>5. RowsOK(cmd[c])'
  BY <1>3 DEF RowsOK
<1> QED BY <1>1, <1>2, <1>4, <1>5, ReduceRows DEF PInv

LEMMA ClearRowsRows ==
  ASSUME OneCommand, IInv, AInv, PInv, NEW c \in Commands, ClearRows(c)
  PROVE  PInv'
<1>1. /\ cmd[c] # Free /\ UNCHANGED <<root, backing, accepted>>
      /\ \/ cmd[c].step = "clear" /\ Goto(c, "mark")
         \/ cmd[c].step = "reset" /\ Goto(c, "pass")
  BY DEF ClearRows, At
<1>2. PICK s \in Sources, r \in MaybeRoot, q \in MaybeRoot :
        /\ s = cmd[c].source /\ CommandOK(cmd[c]) /\ RowsOK(cmd[c])
        /\ root[s] # None => backing[s] # None \/ cmd[c].step = "forget"
  BY <1>1, RowParts
<1>3. /\ cmd'[c].op = cmd[c].op /\ cmd'[c].source = s
  BY <1>1, <1>2, Going DEF Steps
<1>4. cmd[c].op \in {"bind", "attach"}
  BY <1>1, <1>2 DEF CommandOK, Turn
<1>5. /\ rows'[s] = None /\ DOMAIN rows' = Sources
      /\ \A o \in Sources \ {s} : rows'[o] = rows[o]
  BY <1>2 DEF ClearRows, PInv
<1>6. cmd[c].op = "attach" => accepted[s]
  BY <1>1, <1>2, <1>4 DEF RowsOK
<1>7. RowsOK(cmd[c])'
  BY <1>1, <1>2, <1>3, <1>4, <1>5, <1>6 DEF RowsOK
<1>8. root[s] # None => backing[s] # None
  BY <1>1, <1>2
<1> QED BY <1>1, <1>2, <1>5, <1>7, <1>8, ReduceRows DEF PInv

(* Steps of bind and attach that touch only markers and mounts. *)
LEMMA MarkRows ==
  ASSUME OneCommand, IInv, AInv, PInv, NEW c \in Commands,
         Mark(c) \/ Mount(c) \/ UndoMark(c)
  PROVE  PInv'
<1>1. /\ cmd[c] # Free /\ UNCHANGED <<root, backing, accepted, rows>>
      /\ cmd[c].step \in {"mark", "mount", "undo mark"}
      /\ \/ cmd' = [cmd EXCEPT ![c] = Free]
         \/ Goto(c, "unmark") \/ Goto(c, "reset") \/ Goto(c, "undo set")
  BY DEF Mark, Mount, UndoMark, At, store
<1>2. PICK s \in Sources, r \in MaybeRoot, q \in MaybeRoot :
        /\ s = cmd[c].source /\ CommandOK(cmd[c]) /\ RowsOK(cmd[c])
  BY <1>1, RowParts
<1>3. CASE cmd' = [cmd EXCEPT ![c] = Free]
  BY <1>1, <1>3, EndRows
<1>4. CASE Goto(c, "unmark") \/ Goto(c, "reset") \/ Goto(c, "undo set")
  <2>1. /\ cmd'[c].op = cmd[c].op /\ cmd'[c].source = s
        /\ cmd'[c].step \notin {"accept", "pass"}
    BY <1>1, <1>2, <1>4, Going DEF Steps
  <2>2. cmd[c].op \in {"bind", "attach"}
    BY <1>1, <1>2 DEF CommandOK, Turn
  <2>3. RowsOK(cmd[c])'
    BY <1>1, <1>2, <2>1, <2>2 DEF RowsOK
  <2> QED BY <1>1, <2>3, ReduceRowsIdle
<1> QED BY <1>1, <1>3, <1>4

LEMMA PassRows ==
  ASSUME OneCommand, IInv, AInv, PInv, NEW c \in Commands, Pass(c)
  PROVE  PInv'
<1>1. /\ cmd[c] # Free /\ cmd[c].step = "pass" /\ UNCHANGED <<root, backing, accepted>>
      /\ \/ /\ cmd[c].op = "sync" /\ cmd' = [cmd EXCEPT ![c] = Free]
            /\ rows' = [rows EXCEPT ![cmd[c].source] = PassedOver(c)]
         \/ /\ cmd[c].op = "attach" /\ (Goto(c, "mount") \/ Goto(c, "undo mark"))
            /\ rows' \in {rows, [rows EXCEPT ![cmd[c].source] = PassedOver(c)]}
  BY DEF Pass, At, Fails
<1>2. PICK s \in Sources, r \in MaybeRoot, q \in MaybeRoot :
        /\ s = cmd[c].source /\ r = cmd[c].root /\ CommandOK(cmd[c]) /\ RowsOK(cmd[c])
        /\ root[s] # None => backing[s] # None \/ cmd[c].step = "forget"
  BY <1>1, RowParts
<1>3. DOMAIN rows' = Sources /\ \A o \in Sources \ {s} : rows'[o] = rows[o]
  BY <1>1, <1>2 DEF PInv
<1>4. root[s] # None => backing[s] # None
  BY <1>1, <1>2
<1>5. CASE cmd[c].op = "sync"
  <2>1. cmd'[c] = Free
    BY <1>1, <1>5 DEF IInv, Types
  <2>2. rows'[s] = [root |-> root[s], place |-> backing[s]]
    BY <1>1, <1>2, <1>5 DEF PassedOver, RowsOK, PInv
  <2> QED BY <1>1, <1>2, <1>3, <1>4, <2>1, <2>2, ReduceRows DEF PInv
<1>6. CASE cmd[c].op = "attach"
  <2>1. cmd'[c].op = "attach" /\ cmd'[c].source = s /\ cmd'[c].step \notin {"accept", "pass"}
    BY <1>1, <1>2, <1>6, Going DEF Steps
  <2>2. accepted[s] /\ backing[s] # None
    BY <1>1, <1>2, <1>6 DEF RowsOK
  <2>3. RowsOK(cmd[c])'
    BY <1>1, <2>1, <2>2 DEF RowsOK
  <2> QED BY <1>1, <1>2, <1>3, <2>2, <2>3, ReduceRows DEF PInv
<1> QED BY <1>1, <1>5, <1>6

LEMMA UndoSetRows ==
  ASSUME OneCommand, IInv, AInv, PInv, NEW c \in Commands, UndoSet(c)
  PROVE  PInv'
<1>1. cmd[c] # Free /\ cmd[c].step = "undo set" /\ UNCHANGED <<backing, accepted, rows>>
  BY DEF UndoSet, At
<1>2. PICK s \in Sources, r \in MaybeRoot, q \in MaybeRoot :
        /\ s = cmd[c].source /\ q = cmd[c].prev /\ CommandOK(cmd[c]) /\ RowsOK(cmd[c])
  BY <1>1, RowParts
<1>3. CASE q # None /\ TakenBy(s, q)
  BY <1>1, <1>2, <1>3, EndRows DEF UndoSet, Fails
<1>4. CASE ~(q # None /\ TakenBy(s, q))
  <2>1. root' = [root EXCEPT ![s] = q] /\ Goto(c, "undo clear")
    BY <1>2, <1>4 DEF UndoSet
  <2>2. \A o \in Sources \ {s} : root'[o] = root[o]
    BY <2>1 DEF IInv, Types
  <2>3. cmd[c].op = "attach"
    BY <1>1, <1>2 DEF CommandOK, Turn
  <2>4. cmd'[c].op = "attach" /\ cmd'[c].source = s /\ cmd'[c].step = "undo clear"
    BY <1>1, <1>2, <2>1, <2>3, Going DEF Steps
  <2>5. accepted[s] /\ backing[s] # None
    BY <1>1, <1>2, <2>3 DEF RowsOK
  <2>6. RowsOK(cmd[c])'
    BY <1>1, <2>4, <2>5 DEF RowsOK
  <2> QED BY <1>1, <1>2, <2>2, <2>5, <2>6, ReduceRows DEF PInv
<1> QED BY <1>3, <1>4

LEMMA UndoClearRows ==
  ASSUME OneCommand, IInv, AInv, PInv, NEW c \in Commands, UndoClear(c)
  PROVE  PInv'
<1>1. /\ cmd[c] # Free /\ cmd[c].step = "undo clear"
      /\ UNCHANGED <<root, backing, accepted>> /\ cmd' = [cmd EXCEPT ![c] = Free]
  BY DEF UndoClear, At, Fails
<1>2. PICK s \in Sources, r \in MaybeRoot, q \in MaybeRoot :
        /\ s = cmd[c].source
        /\ root[s] # None => backing[s] # None \/ cmd[c].step = "forget"
  BY <1>1, RowParts
<1>3. cmd'[c] = Free
  BY <1>1 DEF IInv, Types
<1>4. /\ rows'[s] = None /\ DOMAIN rows' = Sources
      /\ \A o \in Sources \ {s} : rows'[o] = rows[o]
  BY <1>2 DEF UndoClear, PInv
<1> QED BY <1>1, <1>2, <1>3, <1>4, ReduceRows DEF PInv

(* A source is added under a name that is not taken: it has no root, or its *)
(* removal is about to take it away.                                        *)
LEMMA AddRows ==
  ASSUME AddsNew, OneCommand, IInv, AInv, PInv,
         NEW s \in Sources, NEW b \in Buckets, Add(s, b)
  PROVE  PInv'
<1>1. /\ cmd' = cmd /\ accepted' = accepted /\ rows' = rows /\ root' = root
      /\ backing[s] = None /\ DOMAIN backing' = Sources
      /\ \A o \in Sources : backing'[o] = IF o = s THEN b ELSE backing[o]
  BY DEF Add, Stored, PInv
<1>2. b # None
  BY SourcesAssumption
<1>3. ASSUME NEW c \in Commands, cmd[c] # Free PROVE RowsOK(cmd[c])'
  <2>1. RowsOK(cmd[c])
    BY <1>3 DEF PInv
  <2>2. cmd[c].source \in Sources
    BY <1>3, Acting
  <2>3. PICK k : k = cmd[c]
    OBVIOUS
  <2>4. RowsOK(k) /\ k.source \in Sources /\ cmd'[c] = k
    BY <1>1, <2>1, <2>2, <2>3
  <2>5. RowsOK(k)'
    BY <1>1, <1>2, <2>4 DEF RowsOK
  <2> QED BY <2>4, <2>5
<1>4. ASSUME NEW o \in Sources PROVE SourceOK(o)'
  <2>1. SourceOK(o)
    BY DEF PInv
  <2>2. /\ Under(o, {"forget"})' = Under(o, {"forget"})
        /\ Under(o, {"accept", "clear", "forget"})' = Under(o, {"accept", "clear", "forget"})
    BY <1>1 DEF Under
  <2>3. CASE o = s
    <3>1. root[s] = None \/ Under(s, {"forget"})
      BY <1>1, <2>1, <2>3 DEF SourceOK
    <3>2. Under(s, {"forget"}) => Under(s, {"accept", "clear", "forget"})
      BY DEF Under
    <3> QED BY <1>1, <2>2, <2>3, <3>1, <3>2 DEF SourceOK
  <2>4. CASE o # s
    BY <1>1, <2>1, <2>2, <2>4 DEF SourceOK, Own
  <2> QED BY <2>3, <2>4
<1> QED BY <1>1, <1>3, <1>4 DEF PInv

LEMMA NextRows ==
  ASSUME OneCommand, AddsNew, CleansUp, IInv, AInv, PInv, [Next]_vars
  PROVE  PInv'
<1>1. ASSUME NEW s \in Sources, NEW b \in Buckets, Add(s, b) PROVE PInv'
  BY <1>1, AddRows
<1>2. ASSUME NEW c \in Commands, Begin(c) PROVE PInv'
  BY <1>2, BeginRows
<1>3. ASSUME NEW c \in Commands, Unmark(c) PROVE PInv'
  BY <1>3, EndRows DEF Unmark, Done, At, store
<1>4. ASSUME NEW c \in Commands, Continue(c) PROVE PInv'
  BY <1>3, <1>4, AcceptRows, AttachCheckRows, SetRootRows, ForgetRows, ClearRowsRows,
     MarkRows, PassRows, UndoSetRows, UndoClearRows
  DEF Continue
<1>5. ASSUME NEW c \in Commands, Die(c) PROVE PInv'
  BY <1>5, EndRows DEF Die, store, CleansUp
<1>6. CASE UNCHANGED vars
  <2>1. UNCHANGED <<cmd, root, backing, accepted, rows>>
    BY <1>6 DEF vars
  <2>2. \A s \in Sources : SourceOK(s)' = SourceOK(s)
    BY <2>1 DEF SourceOK, Own, Under
  <2>3. \A c \in Commands : RowsOK(cmd[c])' = RowsOK(cmd[c])
    BY <2>1 DEF RowsOK
  <2> QED BY <2>1, <2>2, <2>3 DEF PInv
<1> QED BY <1>1, <1>2, <1>4, <1>5, <1>6 DEF Next

(* No pass takes rows of another root or another place for its own, as     *)
(* long as commands run one at a time, sources are added under new names,  *)
(* and none dies just before it clears rows (bind, source remove) or       *)
(* records a filesystem: after such a death the rows of the former root    *)
(* stay (control_plane.rs:1473, 327).                                      *)
THEOREM PassesSeeOwnRows ==
  ASSUME OneCommand, AddsNew, CleansUp
  PROVE  Spec => PassesOnOwnRows
<1>1. Init => IInv /\ AInv /\ PInv
  BY InitInv, InitAgree, InitRows
<1>2. IInv /\ AInv /\ PInv /\ [Next]_vars => (IInv /\ AInv /\ PInv)'
  BY NextInv, NextAgree, NextRows
<1>3. IInv /\ AInv /\ PInv /\ [Next]_vars =>
        [\A c \in Commands : At(c, "pass") /\ Pass(c) =>
           rows[cmd[c].source] \in {None, PassedOver(c)}]_vars
  BY PassOwn
<1> QED BY <1>1, <1>2, <1>3, PTL DEF Spec, PassesOnOwnRows
=============================================================================
