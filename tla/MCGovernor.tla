------------------------------ MODULE MCGovernor ------------------------------
(***************************************************************************)
(* Small instances of the Governor for TLC.  Readers are interchangeable,  *)
(* but liveness is checked, so symmetry is not used.                       *)
(***************************************************************************)
EXTENDS Governor

===============================================================================
