------------------------------- MODULE MCFuseFs -------------------------------
EXTENDS FuseFs
CONSTANTS d, f, g
TwoFiles == {<<f>>, <<g>>}
DeepTree == {<<d>>, <<d, f>>, <<d, g>>, <<d, f, g>>}
OwnGroups == [u \in Users |-> u]
Default == [read |-> Classes, write |-> {"owner"}]
OneMode == {Default}
Alike == Permutations(Handles) \cup Permutations(Chunks) \cup Permutations({f, g})
=============================================================================
