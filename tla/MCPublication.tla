---------------------------- MODULE MCPublication -----------------------------
(***************************************************************************)
(* Instances of Publication for TLC.  A distribution beside "stable", for  *)
(* the branch that auto-creation gives that suite.                         *)
(***************************************************************************)
EXTENDS Publication, TLC

CONSTANTS i1, i2, u1, u2

MCDists == {"stable", "main"}
MCItems == {i1, i2}
MCUploaders == {u1, u2}

Symmetry == Permutations(MCItems) \cup Permutations(MCUploaders) \cup Permutations(Admins)

===============================================================================
