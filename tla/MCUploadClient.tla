--------------------------- MODULE MCUploadClient ---------------------------
(***************************************************************************)
(* Instances of UploadClient for TLC.                                      *)
(***************************************************************************)
EXTENDS UploadClient, TLC

CONSTANTS c1, q1, q2, q3

\* One request for the changes file and one for each of its files.
MCTurns == c1 :> <<q1, q2, q3>>

\* All is good, or one file that may be sent is not.
MCDisks ==
  LET AllGood == [f \in Files \cup Debs |-> "good"]
  IN {AllGood, [AllGood EXCEPT !["a"] = "corrupt", !["d"] = "missing"],
      [AllGood EXCEPT !["b"] = "missing", !["d"] = "corrupt"]}

\* What another program sends.
MCUploads == {<<>>, <<[name |-> "b", what |-> "good"]>>}

==============================================================================
