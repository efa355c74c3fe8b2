------------------------------- MODULE BlobSet --------------------------------
(***************************************************************************)
(* What the blob store promises its writers: a set of contents.  Between   *)
(* the call of Close and its answer the content is put into the set, in    *)
(* one step; or the writer is excused, because the content is in the set   *)
(* at some moment in between; or the disk fails.  An "ok" is never given   *)
(* before the content is put, a "refused" only to a writer that has been   *)
(* excused.  What a writer puts is what it has written when it calls.      *)
(* Blobs are removed by the collector, a crash may lose some.              *)
(***************************************************************************)
CONSTANTS Writers, Contents

VARIABLES
  stored,     \* the contents in the store
  content,    \* what each writer has written
  call        \* where each writer's call of Close is

vars == <<stored, content, call>>

Write(w, c) ==
  /\ call[w] = "idle"
  /\ content' = [content EXCEPT ![w] = c]
  /\ UNCHANGED <<stored, call>>

Close(w) ==
  /\ call[w] = "idle"
  /\ call' = [call EXCEPT ![w] = "called"]
  /\ UNCHANGED <<stored, content>>

Put(w) ==
  /\ call[w] = "called"
  /\ stored' = stored \cup {content[w]}
  /\ call' = [call EXCEPT ![w] = "put"]
  /\ UNCHANGED content

Excuse(w) ==
  /\ call[w] = "called"
  /\ content[w] \in stored
  /\ call' = [call EXCEPT ![w] = "excused"]
  /\ UNCHANGED <<stored, content>>

Fail(w) ==
  /\ call[w] = "called"
  /\ call' = [call EXCEPT ![w] = "failing"]
  /\ UNCHANGED <<stored, content>>

Return(w, from, to) ==
  /\ call[w] = from
  /\ call' = [call EXCEPT ![w] = to]
  /\ UNCHANGED <<stored, content>>

Answer(w) == Return(w, "put", "ok") \/ Return(w, "excused", "refused") \/ Return(w, "failing", "failed")

Remove(c) ==
  /\ stored' = stored \ {c}
  /\ UNCHANGED <<content, call>>

Crash ==
  /\ stored' \in SUBSET stored
  /\ call' = [w \in Writers |-> IF call[w] \in {"ok", "refused", "failed"} THEN call[w] ELSE "lost"]
  /\ UNCHANGED content

Init ==
  /\ stored \in SUBSET Contents
  /\ content \in [Writers -> Contents]
  /\ call = [w \in Writers |-> "idle"]

Next ==
  \/ \E w \in Writers, c \in Contents : Write(w, c)
  \/ \E w \in Writers : Close(w) \/ Put(w) \/ Excuse(w) \/ Fail(w) \/ Answer(w)
  \/ \E c \in Contents : Remove(c)
  \/ Crash

Spec == Init /\ [][Next]_vars

===============================================================================
