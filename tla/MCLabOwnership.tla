---------------------------- MODULE MCLabOwnership ----------------------------
(* Small instances of LabOwnership for TLC.                                *)
EXTENDS LabOwnership, TLC

CONSTANTS s1, s2, c1, m1, r1, r2

Commands == Permutations({r1, r2})
=============================================================================
