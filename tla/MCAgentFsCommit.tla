--------------------------- MODULE MCAgentFsCommit ---------------------------
(* Small instances of AgentFsCommit: agents a and b have local roots, m has *)
(* none and decides on proposals.                                           *)
EXTENDS AgentFsCommit

CONSTANTS a, b, m, p, q, x

TwoIds == {1, 2}
TwoTokens == {1, 2}
==============================================================================
