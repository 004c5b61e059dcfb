---------------------------- MODULE MCSyncEngine ----------------------------
(* Small trees for SyncEngine. *)
EXTENDS SyncEngine

CONSTANTS d, f, g, c1, c2

(* one file *)
OneFile == {f}
(* a directory with a file in it *)
SmallTree == {d, f}

NoDirs == {}
OneDir == {d}

FlatAbove == [p \in Paths |-> {}]
TreeAbove == [p \in Paths |-> IF p = f THEN {d} ELSE {}]

TwoContents == {c1, c2}
=============================================================================
