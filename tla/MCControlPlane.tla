---------------------------- MODULE MCControlPlane ----------------------------
(* Small instances of ControlPlane for TLC.                                *)
EXTENDS ControlPlane, TLC

CONSTANTS r1, r2, b1, b2

Alike == Permutations({r1, r2}) \cup Permutations({b1, b2})
=============================================================================
