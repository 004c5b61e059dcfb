--------------------------- MODULE MCControlService ---------------------------
(* Small instances of ControlService: m1 has the database, m2 calls the    *)
(* server.                                                                 *)
EXTENDS ControlService, TLC

CONSTANTS m1, m2, a, b, p, l, k

Policy == Profiles \X Names
Symmetry == Permutations(Labels) \cup Permutations(Names)
===============================================================================
