--------------------------- MODULE MCUploadShared ---------------------------
(***************************************************************************)
(* Two clients may use one upload session at the same time, and one is     *)
(* then told of the other's errors; shared remembers the requests that     *)
(* have met another one in their session.                                  *)
(***************************************************************************)
EXTENDS MCUploadSession

VARIABLE shared

Talking(s) == {r \in Requests : target[r] = s /\ pc[r] # "answered"}

MCInit == Init /\ shared = {}

MCNext ==
  /\ Next
  /\ shared' = shared \cup UNION {Talking(s)' : s \in {t \in Sessions : \E q, r \in Talking(t)' : q # r}}

MCSpec == MCInit /\ [][MCNext]_<<vars, shared>>

(***************************************************************************)
(* "Instant feedback on all failures" (README.md:12): a client one of      *)
(* whose files was refused is not told that all is well, unless another    *)
(* client has used its session at the same time (the two share one s.err,  *)
(* upload_session.go:170).                                                 *)
(***************************************************************************)
RefusalReported == \A r \in Requests \ shared : answer[r] = "ok" => r \notin rejected

(***************************************************************************)
(* What makes it inductive: requests that talk to one session at the same  *)
(* time have all been seen to, and a refused one that has met none is told *)
(* so with its next exchange.                                              *)
(***************************************************************************)
SharedInv ==
  \A q, r \in Requests, s \in Sessions :
    q \in Talking(s) /\ r \in Talking(s) /\ q # r => q \in shared /\ r \in shared

ToldInv ==
  \A r \in rejected \ shared :
    \/ pc[r] \in {"check", "refusing"} /\ err[target[r]]
    \/ pc[r] = "answered" /\ answer[r] # "ok"

RefusalInv == SharedInv /\ ToldInv

===============================================================================
