------------------------------ MODULE HistoryTrim ------------------------------
(***************************************************************************)
(* trim.go, the trimming walk of archivestore.go and log_handlers.go: how  *)
(* far back the history of a distribution can be read.                     *)
(*                                                                         *)
(* A distribution is a chain of releases; release n's parent is n - 1 and  *)
(* release 1 is the root.  A release carries TrimAfter, the number of its  *)
(* parents whose assets are kept, or 0.  TrimHistory sets it while an      *)
(* upload builds a release; a child starts with its parent's.  The         *)
(* collector marks from the head, the log shows from the head, and both    *)
(* stop where TrimAfter says.                                              *)
(*                                                                         *)
(* Uploads, configuration changes and log requests hold the Governor's     *)
(* lock, and no collection runs during an upload (GarbageCollector), so    *)
(* only TrimHistory's loop is cut into steps.  The assets of a release are *)
(* those its index refers to, so an index stands for them all.             *)
(***************************************************************************)
EXTENDS Integers, Sequences

CONSTANTS
  Lengths,       \* values of AutoTrimLength that are configured
  MaxReleases    \* bound on the chain, for TLC

ASSUME LengthsAssumption == Lengths \subseteq Int
ASSUME MaxReleasesAssumption == MaxReleases \in Nat

VARIABLES
  rel,         \* the chain: rel[n] = [index, trimAfter, autoTrim, length]
  disk,        \* the indexes in the store
  pending,     \* a collection has been asked for
  pc,          \* "idle", "trim" in TrimHistory's loop, "panic" when the process has ended
  child,       \* the release being built
  curr,        \* TrimHistory's curr, 0 for the parent of the root
  count,       \* what MakeLengthTrimmer's closure still lets pass
  trimCount,   \* TrimHistory's locals
  activeTrim

loopVars == <<child, curr, count, trimCount, activeTrim>>
vars == <<rel, disk, pending, pc, loopVars>>

Tip == Len(rel)

Releases == [index : Nat, trimAfter : Nat, autoTrim : BOOLEAN, length : Lengths]

(***************************************************************************)
(* Where the walks stop: at the first release from the head with a         *)
(* TrimAfter, and TrimAfter parents further.                               *)
(***************************************************************************)
Trimming(chain) == {n \in 1..Len(chain) : chain[n].trimAfter > 0}

Newest(S) == CHOOSE n \in S : \A m \in S : m <= n

Window(chain) ==
  IF Trimming(chain) = {}
  THEN 1..Len(chain)
  ELSE LET n == Newest(Trimming(chain))
       IN {m \in 1..Len(chain) : m >= n - chain[n].trimAfter}

\* Mutant: the collector's walk stops one release earlier than the log's.
MarkedShort(chain) ==
  {m \in Window(chain) : m - 1 \in Window(chain) \/ m = Len(chain) \/ m = 1}

\* The releases whose assets gcWalkRelease marks.
Marked(chain) == Window(chain)

\* The releases the log shows: the root has no Release file and is left out.
Shown(chain) == Window(chain) \ ({1} \ {Len(chain)})

------------------------------------------------------------------------------
(***************************************************************************)
(* NewRelease, for an upload: a child of the head with a new index, which  *)
(* may be one the chain has had before.  With AutoTrim, TrimHistory runs   *)
(* before the release is stored.                                           *)
(***************************************************************************)
Publish(r) ==
  /\ rel' = Append(rel, r)
  /\ pending' = TRUE
  /\ pc' = "idle"

Upload(k) ==
  LET new == [rel[Tip] EXCEPT !.index = k]
  IN /\ pc = "idle" /\ Tip < MaxReleases
     /\ disk' = disk \cup {k}
     /\ IF new.autoTrim
        THEN /\ pc' = "trim"
             /\ child' = new
             /\ curr' = Tip
             /\ count' = new.length
             /\ trimCount' = 0 /\ activeTrim' = 0
             /\ UNCHANGED <<rel, pending>>
        ELSE Publish(new) /\ UNCHANGED loopVars

\* The bottom of the chain, or the end of an earlier trim, comes first: nothing to trim.
ShortEnough == curr = 0 \/ activeTrim = 1

HistoryShort ==
  /\ pc = "trim" /\ ShortEnough
  /\ Publish(child)
  /\ UNCHANGED <<disk, loopVars>>

\* MakeLengthTrimmer's closure keeps while its count is not negative.
Trims == count < 0

TrimStep ==
  /\ pc = "trim" /\ ~ShortEnough /\ ~Trims
  /\ LET t      == rel[curr].trimAfter
         active == IF t # 0 /\ t < activeTrim THEN t ELSE activeTrim
     IN activeTrim' = IF active > 1 THEN active - 1 ELSE active
  /\ count' = count - 1
  /\ trimCount' = trimCount + 1
  /\ curr' = curr - 1
  /\ UNCHANGED <<rel, disk, pending, pc, child>>

\* Mutant: the releases beyond the cut are counted, not those before it.
TrimEndRest ==
  /\ pc = "trim" /\ ~ShortEnough /\ Trims
  /\ Publish(IF trimCount > 0 THEN [child EXCEPT !.trimAfter = curr] ELSE child)
  /\ UNCHANGED <<disk, loopVars>>

\* Mutant: TrimAfter is counted from the parent of the release it is set on.
TrimEndLong ==
  /\ pc = "trim" /\ ~ShortEnough /\ Trims
  /\ Publish([child EXCEPT !.trimAfter = trimCount + 1])
  /\ UNCHANGED <<disk, loopVars>>

TrimEnd ==
  /\ pc = "trim" /\ ~ShortEnough /\ Trims
  /\ Publish(IF trimCount > 0 THEN [child EXCEPT !.trimAfter = trimCount] ELSE child)
  /\ UNCHANGED <<disk, loopVars>>

(***************************************************************************)
(* PUT config: a child of the head with the same index and TrimAfter.      *)
(* Nothing is trimmed and no collection asked for.                         *)
(***************************************************************************)
Configure(auto, length) ==
  LET h == rel[Tip]
  IN /\ pc = "idle" /\ Tip < MaxReleases
     /\ <<auto, length>> # <<h.autoTrim, h.length>>
     /\ rel' = Append(rel, [h EXCEPT !.autoTrim = auto, !.length = length])
     /\ UNCHANGED <<disk, pending, pc, loopVars>>

\* A marked index that is not in the store is a nil pointer: the process ends.
Collect ==
  /\ pc = "idle" /\ pending
  /\ LET used == {rel[n].index : n \in Marked(rel)}
     IN IF used \subseteq disk
        THEN disk' = used /\ pending' = FALSE /\ UNCHANGED pc
        ELSE pc' = "panic" /\ UNCHANGED <<disk, pending>>
  /\ UNCHANGED <<rel, loopVars>>

------------------------------------------------------------------------------
NoRelease == [index |-> 0, trimAfter |-> 0, autoTrim |-> FALSE, length |-> 0]

\* A distribution has been created: its root, with the empty index.
Init ==
  /\ \E auto \in BOOLEAN, length \in Lengths :
       rel = <<[index |-> 0, trimAfter |-> 0, autoTrim |-> auto, length |-> length]>>
  /\ disk = {0}
  /\ pending = FALSE
  /\ pc = "idle"
  /\ child = NoRelease
  /\ curr = 0 /\ count = 0 /\ trimCount = 0 /\ activeTrim = 0

\* The indexes of the chain and one that is new.
Indexes == {rel[n].index : n \in 1..Tip} \cup {Tip}

Next ==
  \/ \E k \in Indexes : Upload(k)
  \/ HistoryShort \/ TrimStep \/ TrimEnd
  \/ \E auto \in BOOLEAN, length \in Lengths : Configure(auto, length)
  \/ Collect

Spec == Init /\ [][Next]_vars

------------------------------------------------------------------------------
TypeOK ==
  /\ rel \in Seq(Releases) /\ rel # <<>>
  /\ disk \subseteq Nat
  /\ pending \in BOOLEAN
  /\ pc \in {"idle", "trim", "panic"}
  /\ curr \in Nat /\ trimCount \in Nat /\ activeTrim \in Nat /\ count \in Int
  /\ pc = "trim" => child \in Releases

(***************************************************************************)
(* An admin has raised AutoTrimLength at some point of the chain.  The     *)
(* next trim then reaches further back than the last one did, to releases  *)
(* the collector may have swept.  Nothing else goes wrong:                 *)
(***************************************************************************)
Raised == \E n \in 2..Tip : rel[n].length > rel[n - 1].length

(***************************************************************************)
(* "Only fully accessible releases are shown in the log" (README.md:193):  *)
(* what the log shows between two uploads is in the store, whatever        *)
(* lengths were configured, and when, before the last collection, as long  *)
(* as none was raised.                                                     *)
(***************************************************************************)
HistoryAccessible == ~Raised /\ pc = "idle" => \A n \in Shown(rel) : rel[n].index \in disk

(***************************************************************************)
(* As long as none was raised, no collection meets an index it cannot open *)
(* (archivestore.go:92-94).                                                *)
(***************************************************************************)
NeverPanics == ~Raised => pc # "panic"

(***************************************************************************)
(* As long as none was raised, history only moves forward: a release the   *)
(* log no longer shows never comes back, so the collector never wants what *)
(* it has swept.                                                           *)
(***************************************************************************)
WindowMoves ==
  [][~Raised' => \A n \in Shown(rel') : n <= Len(rel) => n \in Shown(rel)]_vars

(***************************************************************************)
(* An upload with AutoTrim leaves at most AutoTrimLength + 1 parents of    *)
(* the new head to read (trim.go:36), however long the history was and     *)
(* whatever its releases' own TrimAfter, as long as none was raised.       *)
(***************************************************************************)
Parents(chain) == Window(chain) \ {Len(chain)}

TrimsToLength ==
  [][~Raised /\ pc = "trim" /\ pc' = "idle" /\ child.length >= 0 =>
       \A n \in Parents(rel') : Len(rel') - n <= child.length + 1]_vars

(***************************************************************************)
(* The inductive invariant, while no length has been raised.  Once a       *)
(* release has a TrimAfter its children have one, and it is longer than    *)
(* the configured length; so the window starts at Low(n), which never goes *)
(* back; and what is in it is on disk.  In the loop, no earlier trim is    *)
(* ever active.                                                            *)
(***************************************************************************)
Low(n) == IF rel[n].trimAfter = 0 THEN 1 ELSE n - rel[n].trimAfter

TrimInv ==
  \A n \in 1..Tip :
    /\ rel[n].trimAfter < n
    /\ rel[n].trimAfter > 0 =>
         /\ rel[n].length < rel[n].trimAfter
         /\ rel[Tip].trimAfter > 0

LoopInv ==
  pc = "trim" =>
    /\ child = [rel[Tip] EXCEPT !.index = child.index]
    /\ child.index \in disk
    /\ curr <= Tip
    /\ trimCount = Tip - curr
    /\ count = child.length - trimCount
    /\ trimCount > 0 => count >= -1
    /\ activeTrim = 0

DiskInv == \A n \in Low(Tip)..Tip : rel[n].index \in disk

HistoryInv == TypeOK /\ TrimInv /\ LoopInv /\ DiskInv /\ pc # "panic"

===============================================================================
