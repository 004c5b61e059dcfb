----------------------------- MODULE MCPathSync -----------------------------
(* PathSync over three contents. *)
EXTENDS PathSync

CONSTANTS v1, v2, v3
Versions == {v1, v2, v3}
=============================================================================
