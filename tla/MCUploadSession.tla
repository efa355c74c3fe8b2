--------------------------- MODULE MCUploadSession ---------------------------
(***************************************************************************)
(* Instances of UploadSession for TLC.                                     *)
(***************************************************************************)
EXTENDS UploadSession, TLC

\* What requests carry: nothing, one file, or the two files of the changes file.
OneOf(kinds) == {<<[name |-> f, what |-> k]>> : f \in {"a", "b"}, k \in kinds}

Whole == <<[name |-> "a", what |-> "good"], [name |-> "b", what |-> "good"]>>

Unlisted == <<[name |-> "c", what |-> "good"]>>

MCUploads ==
  {<<>>, Whole, Unlisted} \cup OneOf({"good"})
    \cup {<<[name |-> "a", what |-> k]>> : k \in {"corrupt", "unverified"}}

Symmetry == Permutations(Requests)

==============================================================================
