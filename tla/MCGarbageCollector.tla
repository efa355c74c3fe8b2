-------------------------- MODULE MCGarbageCollector --------------------------
(***************************************************************************)
(* Small instances of the collector: upload sessions that may send the     *)
(* same content, and admin requests of every kind.  A request for a new    *)
(* blob and a collection may overlap, since neither excludes the other;    *)
(* raced remembers that they have, and that is the only way anything goes  *)
(* wrong.                                                                  *)
(***************************************************************************)
EXTENDS GarbageCollector, TLC

VARIABLES
  raced,   \* an admin request and a collection have overlapped
  late     \* the blobs stored since the collection under way has marked

mcVars == <<vars, raced, late>>

MCInit == Init /\ raced = FALSE /\ late = {}

MCNext ==
  /\ Next
  /\ raced' = (raced \/ (phase' # "idle" /\ job'.owner \in Admins))
  /\ late' = IF phase' \in {"sweep", "refs"} THEN late \cup (store' \ store) ELSE {}

MCSpec == MCInit /\ [][MCNext]_mcVars

Symmetric == Permutations(Sessions) \cup Permutations(Admins) \cup Permutations(Contents)

(***************************************************************************)
(* Unless an admin request and a collection have overlapped, whatever the  *)
(* history of a distribution refers to is on disk.  The changes files,     *)
(* which a session stores before it holds the collector, are left out.     *)
(***************************************************************************)
UploadedHistoryKept == raced \/ {b \in Reachable : b[1] # "changes"} \subseteq store

(***************************************************************************)
(* Unless they have overlapped, no collection meets a release, an index or *)
(* a ref that it cannot read (the collector's goroutine would dereference  *)
(* nil, archivestore.go:92 and 113, and end the process).                  *)
(***************************************************************************)
NeverPanics == raced \/ phase # "panic"

(***************************************************************************)
(* A collection is complete: when it ends, whatever was in the store when  *)
(* it marked and no head refers to is gone, uploads that were refused or   *)
(* have expired included, unless it has been stored again since.           *)
(***************************************************************************)
CollectionComplete ==
  [][phase = "refs" /\ phase' = "idle" => raced \/ store \subseteq Reachable \cup late]_mcVars

===============================================================================
