------------------------------ MODULE BlobStore -------------------------------
(***************************************************************************)
(* store.go: how blobs get into the content addressed store.               *)
(*                                                                         *)
(* Store() opens a temporary file and starts a goroutine that waits for    *)
(* Close(); it then syncs the file, looks whether the blob is there, links *)
(* the file to the blob's name if it is not, removes the temporary name,   *)
(* and answers.  Requests write at the same time, the same content too;    *)
(* the collector unlinks; the machine can stop between any two steps.      *)
(*                                                                         *)
(* A file is "whole" once it is synced, "volatile" before; a crash may     *)
(* tear a volatile file.  Directories are not synced, so it may also lose  *)
(* names.  A Write that fails is not hashed but may leave something in the *)
(* file, which is then "broken": not what its name will say.  Every caller *)
(* closes with Close(), so the extra link of CloseAndLink is left out.     *)
(***************************************************************************)
CONSTANTS
  Writers,    \* writers; each stores one blob
  Contents    \* what they store

VARIABLES
  blob,       \* of each content, the file under its name: "none", "volatile", "whole", "torn",
              \* "broken"
  temp,       \* of each writer, the file under its temporary name
  content,    \* what each writer writes, as far as it is hashed
  pc,         \* where each writer, or its goroutine, is
  outcome     \* what each goroutine will answer: "none" (not known yet), "ok", "refused"
              \* (the blob's name exists already) or "failed" (the disk)

vars == <<blob, temp, content, pc, outcome>>

Goto(w, place) == pc' = [pc EXCEPT ![w] = place]

\* On every path the temporary name goes first, then comes the answer.
Settle(w, result) ==
  /\ Goto(w, "remove")
  /\ outcome' = [outcome EXCEPT ![w] = result]

------------------------------------------------------------------------------
Store(w) ==
  /\ pc[w] = "new"
  /\ temp' = [temp EXCEPT ![w] = "volatile"]
  /\ Goto(w, "open")
  /\ UNCHANGED <<blob, content, outcome>>

\* A Write fails and the caller goes on regardless (AddRelease, and the merge with every
\* entry, drop the error of Encode).  The blob gets the name of what has been hashed.
WriteFails(w) ==
  /\ pc[w] = "open"
  /\ temp' \in {temp, [temp EXCEPT ![w] = "broken"]}
  /\ \E c \in Contents : content' = [content EXCEPT ![w] = c]
  /\ UNCHANGED <<blob, pc, outcome>>

\* A Write or the sender fails, and the caller returns without Close: CopyToStore and
\* others do.  The goroutine waits for ever, and the temporary file stays.
Abandon(w) ==
  /\ pc[w] = "open"
  /\ Goto(w, "abandoned")
  /\ UNCHANGED <<blob, temp, content, outcome>>

\* Close, after the last Write.
Close(w) ==
  /\ pc[w] = "open"
  /\ Goto(w, "sync")
  /\ UNCHANGED <<blob, temp, content, outcome>>

\* Mutant: the file is closed without a sync.
SyncNot(w) ==
  /\ pc[w] = "sync"
  /\ Goto(w, "stat")
  /\ UNCHANGED <<blob, temp, content, outcome>>

Sync(w) ==
  /\ pc[w] = "sync"
  /\ temp' = [temp EXCEPT ![w] = IF @ = "volatile" THEN "whole" ELSE @]
  /\ Goto(w, "stat")
  /\ UNCHANGED <<blob, content, outcome>>

\* Sync, the close of the file or MkdirAll fail.
SyncFails(w) ==
  /\ pc[w] = "sync"
  /\ Settle(w, "failed")
  /\ UNCHANGED <<blob, temp, content>>

Present(w) == blob[content[w]] # "none"

\* Mutant: a blob that is not there is not linked.
StatOnly(w) ==
  /\ pc[w] = "stat"
  /\ Settle(w, "ok")
  /\ UNCHANGED <<blob, temp, content>>

Stat(w) ==
  /\ pc[w] = "stat"
  /\ IF Present(w) THEN Settle(w, "ok") ELSE Goto(w, "link") /\ UNCHANGED outcome
  /\ UNCHANGED <<blob, temp, content>>

Link(w) ==
  /\ pc[w] = "link" /\ ~Present(w)
  /\ blob' = [blob EXCEPT ![content[w]] = temp[w]]
  /\ Settle(w, "ok")
  /\ UNCHANGED <<temp, content>>

\* Mutant: the goroutine returns without an answer when the link fails.
LinkFailsSilently(w) ==
  /\ pc[w] = "link"
  /\ Goto(w, "stuck")
  /\ UNCHANGED <<blob, temp, content, outcome>>

\* Mutant: the temporary file is kept when the link fails.
LinkFailsDirty(w) ==
  /\ pc[w] = "link"
  /\ Goto(w, "answer")
  /\ outcome' = [outcome EXCEPT ![w] = IF Present(w) THEN "refused" ELSE "failed"]
  /\ UNCHANGED <<blob, temp, content>>

\* os.Link fails: the name has come to exist since the Stat, or the disk.
LinkFails(w) ==
  /\ pc[w] = "link"
  /\ Settle(w, IF Present(w) THEN "refused" ELSE "failed")
  /\ UNCHANGED <<blob, temp, content>>

\* os.Remove of the temporary name.
RemoveTemp(w) ==
  /\ pc[w] = "remove"
  /\ temp' = [temp EXCEPT ![w] = "none"]
  /\ Goto(w, "answer")
  /\ UNCHANGED <<blob, content, outcome>>

\* writer.complete: Close returns.
Complete(w) ==
  /\ pc[w] = "answer"
  /\ Goto(w, "answered")
  /\ UNCHANGED <<blob, temp, content, outcome>>

\* The collector.
UnLink(c) ==
  /\ blob[c] # "none"
  /\ blob' = [blob EXCEPT ![c] = "none"]
  /\ UNCHANGED <<temp, content, pc, outcome>>

Files == {"none", "volatile", "whole", "torn", "broken"}

\* What a crash may leave of a file, temporary files that nobody removes included: all
\* that was in it is on the disk by chance, or not.
Remains(f) == IF f = "volatile" THEN {"whole", "torn"} ELSE {f}

Crash ==
  /\ blob' \in [Contents -> Files]
  /\ \A c \in Contents : blob'[c] \in Remains(blob[c]) \cup {"none"}
  /\ temp' \in [Writers -> Files]
  /\ \A w \in Writers : temp'[w] \in Remains(temp[w])
  /\ pc' = [w \in Writers |-> IF pc[w] = "answered" THEN "answered" ELSE "lost"]
  /\ UNCHANGED <<content, outcome>>

------------------------------------------------------------------------------
\* Some blobs are there.
Init ==
  /\ blob \in [Contents -> {"none", "whole"}]
  /\ temp = [w \in Writers |-> "none"]
  /\ content \in [Writers -> Contents]
  /\ pc = [w \in Writers |-> "new"]
  /\ outcome = [w \in Writers |-> "none"]

GoroutineStep(w) ==
  Sync(w) \/ SyncFails(w) \/ Stat(w) \/ Link(w) \/ LinkFails(w) \/ RemoveTemp(w) \/ Complete(w)

Next ==
  \/ \E w \in Writers : Store(w) \/ WriteFails(w) \/ Abandon(w) \/ Close(w) \/ GoroutineStep(w)
  \/ \E c \in Contents : UnLink(c)
  \/ Crash

Spec == Init /\ [][Next]_vars

\* The goroutine runs; no system call hangs.
FairSpec == Spec /\ \A w \in Writers : WF_vars(GoroutineStep(w))

------------------------------------------------------------------------------
PCs == {"new", "open", "abandoned", "sync", "stat", "link", "remove", "answer", "answered", "lost"}

TypeOK ==
  /\ blob \in [Contents -> Files]
  /\ temp \in [Writers -> Files]
  /\ content \in [Writers -> Contents]
  /\ pc \in [Writers -> PCs]
  /\ outcome \in [Writers -> {"none", "ok", "refused", "failed"}]

(***************************************************************************)
(* What is under the name of a blob has all been synced before it got that *)
(* name, whenever the machine stopped and whoever else was writing the     *)
(* same; and it is what the name says, unless a Write of it has failed and *)
(* its caller went on ("broken").                                          *)
(***************************************************************************)
NoTornBlob == \A c \in Contents : blob[c] \in {"none", "whole", "broken"}

(***************************************************************************)
(* "we must ensure it is deleted before we return success" (store.go:126): *)
(* a writer that has its answer, success or not, has no temporary file.    *)
(***************************************************************************)
NoTempAfterAnswer == \A w \in Writers : pc[w] = "answered" => temp[w] = "none"

(***************************************************************************)
(* What makes the two inductive: nothing but a synced file is linked, and  *)
(* the temporary name is gone before the answer.                           *)
(***************************************************************************)
PlaceInv ==
  \A w \in Writers :
    /\ pc[w] \in {"open", "sync"} => temp[w] \in {"volatile", "broken"}
    /\ pc[w] \in {"stat", "link"} => temp[w] \in {"whole", "broken"}
    /\ pc[w] = "answer" => temp[w] = "none"

\* An outcome is known from the moment there is one.
OutcomeInv ==
  \A w \in Writers : pc[w] \in {"remove", "answer", "answered"} => outcome[w] # "none"

StoreInv == TypeOK /\ NoTornBlob /\ NoTempAfterAnswer /\ PlaceInv /\ OutcomeInv

(***************************************************************************)
(* The store implements the set of blobs: for a writer that finds its blob *)
(* there, Stat puts it; for the others, Link does; and a writer refused    *)
(* has lost the race between the two to another one of the same content.   *)
(***************************************************************************)
CallOf(place, result) ==
  IF place \in {"new", "open", "abandoned"} THEN "idle"
  ELSE IF place \in {"sync", "stat", "link"} THEN "called"
  ELSE IF place = "lost" THEN "lost"
  ELSE IF place = "answered" THEN result
  ELSE IF result = "ok" THEN "put"
  ELSE IF result = "refused" THEN "excused" ELSE "failing"

Abstract == INSTANCE BlobSet WITH
  stored <- {c \in Contents : blob[c] # "none"},
  call <- [w \in Writers |-> CallOf(pc[w], outcome[w])]

ImplementsBlobSet == Abstract!Spec

(***************************************************************************)
(* Close returns, unless the machine stops first: each path of the         *)
(* goroutine answers on the channel.                                       *)
(***************************************************************************)
CloseReturns == \A w \in Writers : pc[w] = "sync" ~> pc[w] \in {"answered", "lost"}

===============================================================================
