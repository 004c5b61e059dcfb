------------------------------ MODULE CommitLog ------------------------------
(***************************************************************************)
(* What the governance layer promises of the accepted commits of one       *)
(* filesystem: one line of commits, each accepted on top of the one before *)
(* it, and none accepted before the one before it has reached the backing  *)
(* source.  AgentFsCommit implements it under an exclusive head lock.      *)
(***************************************************************************)
CONSTANTS Commit, None   \* None is not a commit

VARIABLES
  log,      \* <<commit, parent>> for every accepted commit
  head,     \* the last of them, None at first
  settled   \* those whose files are in the backing source

vars == <<log, head, settled>>

Accepted == {entry[1] : entry \in log}

Init == log = {} /\ head = None /\ settled = {}

Accept(c) ==
  /\ c \notin Accepted
  /\ head = None \/ head \in settled
  /\ log' = log \cup {<<c, head>>}
  /\ head' = c
  /\ UNCHANGED settled

Settle ==
  /\ head # None
  /\ settled' = settled \cup {head}
  /\ UNCHANGED <<log, head>>

Next == Settle \/ \E c \in Commit : Accept(c)

Spec == Init /\ [][Next]_vars

TypeOK ==
  /\ log \subseteq Commit \X (Commit \cup {None})
  /\ head \in Commit \cup {None}
  /\ settled \subseteq Commit

(* The accepted commits never fork: no two of them have the same parent    *)
(* (parent_commit_id of the commit records).                               *)
NoFork == \A x, y \in log : x[2] = y[2] => x = y

(* Every accepted commit but the head has reached the backing source.      *)
OnlyHeadUnsettled == Accepted \subseteq settled \cup {head}
==============================================================================
