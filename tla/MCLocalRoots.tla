----------------------------- MODULE MCLocalRoots -----------------------------
EXTENDS LocalRoots
CONSTANTS away, top, sub
(* sub is a directory in top *)
Nested == [x \in Roots |-> IF x = away THEN {away} ELSE {top, sub}]
=============================================================================
