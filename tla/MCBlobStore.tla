----------------------------- MODULE MCBlobStore ------------------------------
(***************************************************************************)
(* Instances of BlobStore for TLC: more writers than contents, so that     *)
(* some write the same.                                                    *)
(***************************************************************************)
EXTENDS BlobStore
===============================================================================
