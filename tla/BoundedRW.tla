------------------------------ MODULE BoundedRW ------------------------------
(***************************************************************************)
(* What godinstall's handlers expect of the Governor: readers share the    *)
(* repository, at most Max of them at a time (no limit when Max is 0), and *)
(* a writer has the repository to itself ("Locks to ensure the repo update *)
(* is atomic", server.go:27).  No queueing, tokens or mutexes here: only   *)
(* who is inside.                                                          *)
(***************************************************************************)
EXTENDS Naturals, FiniteSets

CONSTANTS Readers, Writers, Max

VARIABLES inside    \* the goroutines that hold the repository

TypeOK == inside \subseteq (Readers \cup Writers)

Init == inside = {}

\* A request handler starts to read the repository.
EnterReader(r) ==
  /\ r \in Readers \ inside
  /\ inside \cap Writers = {}
  /\ Max # 0 => Cardinality(inside) < Max
  /\ inside' = inside \cup {r}

\* A writer starts to change the repository.
EnterWriter(w) ==
  /\ w \in Writers
  /\ inside = {}
  /\ inside' = {w}

Leave(p) ==
  /\ p \in inside
  /\ inside' = inside \ {p}

Next ==
  \/ \E r \in Readers : EnterReader(r)
  \/ \E w \in Writers : EnterWriter(w)
  \/ \E p \in Readers \cup Writers : Leave(p)

Spec == Init /\ [][Next]_inside

(***************************************************************************)
(* A writer is alone: what makes a regeneration atomic for every request.  *)
(***************************************************************************)
WriterAlone == \A w \in inside \cap Writers : inside = {w}

==============================================================================
