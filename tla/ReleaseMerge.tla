----------------------------- MODULE ReleaseMerge -----------------------------
(***************************************************************************)
(* releaseindex.go and prune.go: an upload is merged into the index of a   *)
(* release, and the pruner decides entry by entry what the new index       *)
(* leaves out.                                                             *)
(*                                                                         *)
(* The old index is a stream, sorted by name and then by descending        *)
(* version.  mergeEntryIntoRelease walks it once, with the new entry       *)
(* waiting at the right, and asks a pruner that remembers only where in    *)
(* the stream it is.  One turn of its loop is one step here.               *)
(*                                                                         *)
(* A read of the old index that fails, for whatever reason, ends the loop  *)
(* as its end does, and a write of the new one that fails is not noticed:  *)
(* the merge goes on with what it has.                                     *)
(*                                                                         *)
(* An entry stands for a source and its version.  The architectures of its *)
(* packages are not in it, because neither ReleaseIndexEntryOrder nor the  *)
(* pruner looks at them.  Versions are compared as numbers;                *)
(* DebVersionCompare orders the strings they stand for.  Nothing else runs *)
(* meanwhile: the updater has the write lock (Governor).                   *)
(***************************************************************************)
EXTENDS Integers, Sequences, FiniteSets

CONSTANTS
  Entries,    \* what can be uploaded: [name, epoch, version, revision]
  RuleSets,   \* what PruneRules can be set to: sequences of [names, versions, revisions]
  None

ASSUME EntriesAssumption ==
  Entries \subseteq [name : Nat, epoch : Nat, version : Nat, revision : Nat]

\* A rule's number of versions or of revisions when it says "*".
Unlimited == -1

Rules == [names : SUBSET Nat, versions : Nat \cup {Unlimited}, revisions : Nat \cup {Unlimited}]

ASSUME RulesAssumption ==
  /\ RuleSets \subseteq Seq(Rules)
  /\ None \notin Nat \cup Rules \cup {"add", "prune", "skippresent", "skipprune"}

VARIABLES
  index,      \* the entries of the head's index
  rules,      \* the head's prune rules
  pc,         \* "idle", "merge", "panic" when the updater has dereferenced nil
  uploaded,   \* the entry that was last uploaded
  left,       \* what is left of the old index
  err,        \* the next entry of it could not be read
  right,      \* the new entry, until it has been placed
  merged,     \* the index being written
  pruner,     \* what the pruner's closure remembers
  actions,    \* the log of the new release
  dropped     \* history: the entries that could not be written

mergeVars == <<uploaded, left, err, right, merged, pruner, actions, dropped>>
vars == <<index, rules, pc, mergeVars>>

------------------------------------------------------------------------------
(***************************************************************************)
(* ReleaseIndexEntryOrder.                                                 *)
(***************************************************************************)
Newer(a, b) ==
  \/ a.epoch > b.epoch
  \/ a.epoch = b.epoch /\ a.version > b.version
  \/ a.epoch = b.epoch /\ a.version = b.version /\ a.revision > b.revision

Before(a, b) ==
  \/ a.name < b.name
  \/ a.name = b.name /\ Newer(a, b)

(***************************************************************************)
(* The pruner.  It sees the entries in order and counts, within a package, *)
(* the versions, and within a version the revisions, seen so far.          *)
(***************************************************************************)
FreshPruner ==
  [name |-> None, epoch |-> 0, version |-> 0, versions |-> 0,
   revision |-> 0, revisions |-> 0, rule |-> None]

Matching(rs, n) == {i \in 1..Len(rs) : n \in rs[i].names}

\* The first rule that matches; nil when none does.
RuleFor(rs, n) ==
  IF Matching(rs, n) = {}
  THEN None
  ELSE rs[CHOOSE i \in Matching(rs, n) : \A j \in Matching(rs, n) : i <= j]

NewPackage(p, e)  == e.name # p.name
NewVersion(p, e)  == e.version # p.version \/ e.epoch # p.epoch
NewRevision(p, e) == e.revision # p.revision

Seen(p, e) ==
  [name |-> e.name, epoch |-> e.epoch, version |-> e.version, revision |-> e.revision,
   versions |-> IF NewPackage(p, e) THEN 1
                ELSE IF NewVersion(p, e) THEN p.versions + 1 ELSE p.versions,
   revisions |-> IF NewPackage(p, e) \/ NewVersion(p, e) THEN 1
                 ELSE IF NewRevision(p, e) THEN p.revisions + 1 ELSE p.revisions,
   rule |-> IF NewPackage(p, e) THEN RuleFor(rules, e.name) ELSE p.rule]

\* The rule is looked at for every entry but the first of a package and repeats.
Counted(p, e) == ~NewPackage(p, e) /\ (NewVersion(p, e) \/ NewRevision(p, e))

Panics(p, e) == Counted(p, e) /\ p.rule = None

\* Mutant: the limit is off by one.
ExceedsEarly(seen, limit) == limit # Unlimited /\ seen > limit

Exceeds(seen, limit) == limit # Unlimited /\ seen > limit + 1

Prunes(p, e) ==
  /\ Counted(p, e)
  /\ \/ Exceeds(Seen(p, e).versions, p.rule.versions)
     \/ Exceeds(Seen(p, e).revisions, p.rule.revisions)

------------------------------------------------------------------------------
Log(type, e) == [type |-> type, entry |-> e]

\* NextEntry fails, at the end of the index or before it.
NextEntry == err' \in {FALSE, left' # <<>>}

Reading == left # <<>> /\ ~err

Upload(e) ==
  /\ pc = "idle"
  /\ pc' = "merge"
  /\ uploaded' = e
  /\ left' = index /\ NextEntry
  /\ right' = <<e>> /\ merged' = <<>> /\ dropped' = {}
  /\ pruner' = FreshPruner
  /\ actions' = <<>>
  /\ UNCHANGED <<index, rules>>

\* Nobody looks at the error of AddEntry.
AddEntry(e) ==
  \/ merged' = Append(merged, e) /\ UNCHANGED dropped
  \/ dropped' = dropped \cup {e} /\ UNCHANGED merged

(***************************************************************************)
(* The pruner has been given e: it is written or left out, and logged as   *)
(* kept or as pruned (None: not logged).  A pruner that has no rule ends   *)
(* the process.                                                            *)
(***************************************************************************)
Place(e, kept, pruned) ==
  IF Panics(pruner, e)
  THEN pc' = "panic" /\ UNCHANGED <<merged, pruner, actions, dropped>>
  ELSE /\ pruner' = Seen(pruner, e)
       /\ IF Prunes(pruner, e) THEN UNCHANGED <<merged, dropped>> ELSE AddEntry(e)
       /\ LET type == IF Prunes(pruner, e) THEN pruned ELSE kept
          IN actions' = IF type = None THEN actions ELSE Append(actions, Log(type, e))
       /\ UNCHANGED pc

\* The next entry of the old index comes before the new one, or the new one is placed.
PlaceOld ==
  /\ pc = "merge" /\ Reading
  /\ right # <<>> => Before(Head(left), right[1])
  /\ Place(Head(left), None, "prune")
  /\ left' = Tail(left) /\ NextEntry
  /\ UNCHANGED <<index, rules, uploaded, right>>

\* Mutant: an entry that is there already is logged as present although it is left out.
PlaceSameQuietly ==
  /\ pc = "merge" /\ Reading /\ right # <<>>
  /\ Head(left) = right[1]
  /\ Place(Head(left), "skippresent", "skippresent")
  /\ left' = Tail(left) /\ NextEntry /\ right' = <<>>
  /\ UNCHANGED <<index, rules, uploaded>>

\* The new entry is there already: the old one stays.
PlaceSame ==
  /\ pc = "merge" /\ Reading /\ right # <<>>
  /\ Head(left) = right[1]
  /\ Place(Head(left), "skippresent", "skipprune")
  /\ left' = Tail(left) /\ NextEntry /\ right' = <<>>
  /\ UNCHANGED <<index, rules, uploaded>>

\* Mutant: the new entry is placed as soon as its package is reached.
PlaceNewEarly ==
  /\ pc = "merge" /\ right # <<>>
  /\ Reading => right[1].name <= Head(left).name
  /\ Place(right[1], "add", "prune")
  /\ right' = <<>>
  /\ UNCHANGED <<index, rules, uploaded, left, err>>

\* The new entry's place is reached, or the end of what can be read of the old index.
PlaceNew ==
  /\ pc = "merge" /\ right # <<>>
  /\ Reading => Before(right[1], Head(left))
  /\ Place(right[1], "add", "prune")
  /\ right' = <<>>
  /\ UNCHANGED <<index, rules, uploaded, left, err>>

Logged(types) == {actions[i].entry : i \in {j \in 1..Len(actions) : actions[j].type \in types}}

\* Mutant: an upload that only adds changes nothing.
RealChangeDropsAdd(types) == "prune" \in types

\* AddUpload's realchange: entries that were there already are no change.
RealChange(types) == types \cap {"add", "prune"} # {}

Merged == pc = "merge" /\ ~Reading /\ right = <<>>

\* AddUpload goes on with a new release, or returns.
Finish ==
  /\ Merged
  /\ pc' = "idle"
  /\ index' = IF RealChange({actions[i].type : i \in 1..Len(actions)}) THEN merged ELSE index
  /\ UNCHANGED <<rules, mergeVars>>

\* PUT config: the rules are not parsed before they are used.
SetRules(rs) ==
  /\ pc = "idle" /\ rs # rules
  /\ rules' = rs
  /\ UNCHANGED <<index, pc, mergeVars>>

------------------------------------------------------------------------------
Init ==
  /\ index = <<>>
  /\ rules \in RuleSets
  /\ pc = "idle"
  /\ uploaded = None
  /\ left = <<>> /\ right = <<>> /\ merged = <<>> /\ actions = <<>>
  /\ err = FALSE /\ dropped = {}
  /\ pruner = FreshPruner

Next ==
  \/ \E e \in Entries : Upload(e)
  \/ PlaceOld \/ PlaceSame \/ PlaceNew
  \/ Finish
  \/ \E rs \in RuleSets : SetRules(rs)

Spec == Init /\ [][Next]_vars

------------------------------------------------------------------------------
Types == {"add", "prune", "skippresent", "skipprune"}

TypeOK ==
  /\ index \in Seq(Entries) /\ left \in Seq(Entries) /\ merged \in Seq(Entries)
  /\ right \in Seq(Entries) /\ Len(right) <= 1
  /\ err \in BOOLEAN /\ dropped \subseteq Entries
  /\ rules \in RuleSets
  /\ pc \in {"idle", "merge", "panic"}
  /\ uploaded \in Entries \cup {None}
  /\ actions \in Seq([type : Types, entry : Entries])
  /\ pruner \in [name : Nat \cup {None}, epoch : Nat, version : Nat, versions : Nat,
                 revision : Nat, revisions : Nat, rule : Rules \cup {None}]

Items(s) == {s[i] : i \in 1..Len(s)}

(***************************************************************************)
(* The index is sorted and has no entry twice: what the merge and the      *)
(* pruner, which both look one entry ahead, rest on.                       *)
(***************************************************************************)
Sorted(s) == \A i, j \in 1..Len(s) : i < j => Before(s[i], s[j])

IndexSorted == Sorted(index)

\* What the merge is given: what could be read of the old index, and the upload.
Given == (Items(index) \ Items(left)) \cup {uploaded}

(***************************************************************************)
(* README.md:155-156 and 165-166, on sets: of a package, the newest        *)
(* version and as many historical ones as the rule retains; of each, the   *)
(* newest revision and as many historical ones as the rule retains.  A     *)
(* package is a source name here: that "Different architectures are        *)
(* treated as different packages" (166) is not what the code does          *)
(* (prune.go:39-40, releaseindex.go:133-143).                              *)
(***************************************************************************)
NewerVersions(S, e) ==
  {<<x.epoch, x.version>> :
     x \in {y \in S : /\ y.name = e.name
                      /\ \/ y.epoch > e.epoch
                         \/ y.epoch = e.epoch /\ y.version > e.version}}

NewerRevisions(S, e) ==
  {x \in S : /\ x.name = e.name /\ x.epoch = e.epoch /\ x.version = e.version
             /\ x.revision > e.revision}

AtMost(S, limit) == limit = Unlimited \/ Cardinality(S) <= limit

Retained(S) ==
  {e \in S : LET r == RuleFor(rules, e.name)
             IN r # None => /\ AtMost(NewerVersions(S, e), r.versions)
                            /\ AtMost(NewerRevisions(S, e), r.revisions)}

(***************************************************************************)
(* One pass of the merge with its forgetful pruner computes exactly that   *)
(* of what it was given, but for entries that could not be written,        *)
(* whatever was uploaded and whatever the rules were before.               *)
(***************************************************************************)
MergesByRule == Merged => Items(merged) = Retained(Given) \ dropped

(***************************************************************************)
(* The log of a release explains its index: what is gone has been pruned,  *)
(* as a PRUNE or, for the entry that was uploaded again, as a SKIPPRUNE;   *)
(* what has come has been added.  Only what could not be read or written   *)
(* is missing without a line in the log.                                   *)
(***************************************************************************)
LogExplains ==
  Merged => Items(merged) = (((Items(index) \ Items(left)) \ Logged({"prune", "skipprune"}))
                               \cup Logged({"add"})) \ dropped

(***************************************************************************)
(* "0 will keep the most recent" (README.md:155): whatever the rules, the  *)
(* newest version of a package, of those the merge was given, stays in the *)
(* index or gets there, unless it could not be written.                    *)
(***************************************************************************)
NewestOf(S) == {e \in S : \A x \in S : x.name = e.name => (x = e \/ Newer(e, x))}

NewestKept ==
  [][pc = "merge" /\ pc' = "idle" =>
       NewestOf(Given) \ dropped \subseteq Items(index')]_vars

(***************************************************************************)
(* The inductive invariant behind these.  The entries the merge has gone   *)
(* past come before those it has still to place; what it has written is    *)
(* those, but for what it logged as pruned or could not write; and it has  *)
(* asked the pruner about no other package than those it has gone past, so *)
(* that the newest entry of a package is the first the pruner sees of it.  *)
(***************************************************************************)
Placed == (Items(index) \ Items(left)) \cup (IF right = <<>> THEN {uploaded} ELSE {})

PlaceInv ==
  /\ uploaded \in Entries /\ right \in {<<>>, <<uploaded>>}
  /\ Sorted(left) /\ Sorted(merged)
  /\ Items(left) \subseteq Items(index)
  /\ Reading => \A x \in Placed, y \in Items(left) : Before(x, y)
  /\ right # <<>> => \A x \in Placed : Before(x, uploaded)
  /\ dropped \subseteq Placed

LogInv ==
  /\ Logged(Types) \subseteq Placed
  /\ Items(merged) = (((Items(index) \ Items(left)) \ Logged({"prune", "skipprune"}))
                        \cup Logged({"add"})) \ dropped

NewestInv ==
  /\ pruner.name # None => \E x \in Placed : x.name = pruner.name
  /\ NewestOf(Placed) \ dropped \subseteq Items(merged)
  /\ right = <<>> /\ Logged({"add", "prune"}) = {} => uploaded \in Items(index)

MergeInv ==
  /\ TypeOK /\ Sorted(index)
  /\ pc = "merge" => PlaceInv /\ LogInv /\ NewestInv

(***************************************************************************)
(* The pruner forgets all but the last entry l of the set S it was given.  *)
(* What it remembers of l is what the rules need of S: the rule, and how   *)
(* many versions and revisions of the package are newer.                   *)
(***************************************************************************)
Last(S, l) == l \in S /\ \A x \in S : x = l \/ Before(x, l)

Remembers(p, S, l) ==
  /\ p.name = l.name /\ p.epoch = l.epoch /\ p.version = l.version /\ p.revision = l.revision
  /\ p.rule = RuleFor(rules, l.name)
  /\ IsFiniteSet(NewerVersions(S, l)) /\ p.versions = Cardinality(NewerVersions(S, l)) + 1
  /\ IsFiniteSet(NewerRevisions(S, l)) /\ p.revisions = Cardinality(NewerRevisions(S, l)) + 1

PrunerInv ==
  pc = "merge" =>
    /\ Items(merged) = Retained(Placed) \ dropped
    /\ IF Placed = {} THEN pruner.name = None
       ELSE \E l \in Placed : Last(Placed, l) /\ Remembers(pruner, Placed, l)

===============================================================================
