-------------------------- MODULE ReleaseMergeProofs --------------------------
(***************************************************************************)
(* Proofs about ReleaseMerge: for any entries and any rules, the index     *)
(* stays sorted, the log of a release explains its index, no upload loses  *)
(* the newest version of a package, and the index has just what its rules  *)
(* retain.  And about the order all of this rests on (DebVersion):         *)
(* DebVersionCompare orders any two versions as the policy manual does,    *)
(* and by that order versions can be taken for numbers, as the merge's     *)
(* model takes them.                                                       *)
(***************************************************************************)
EXTENDS ReleaseMerge, DebVersion, FiniteSetTheorems, WellFoundedInduction, TLAPS

PrunerRecord ==
  [name : Nat \cup {None}, epoch : Nat, version : Nat, versions : Nat,
   revision : Nat, revisions : Nat, rule : Rules \cup {None}]

LogLine == [type : Types, entry : Entries]

------------------------------------------------------------------------------
(***************************************************************************)
(* The order, and sequences as the sets of their items.                    *)
(***************************************************************************)
LEMMA EntryFields ==
  ASSUME NEW e \in Entries
  PROVE  e.name \in Nat /\ e.epoch \in Nat /\ e.version \in Nat /\ e.revision \in Nat
  BY EntriesAssumption

LEMMA BeforeIsStrict ==
  ASSUME NEW a \in Entries, NEW b \in Entries, NEW c \in Entries
  PROVE  /\ ~Before(a, a)
         /\ Before(a, b) => ~Before(b, a) /\ a # b
         /\ Before(a, b) /\ Before(b, c) => Before(a, c)
  BY EntryFields DEF Before, Newer

\* Of a package, what comes before is newer.
LEMMA BeforeIsNewer ==
  ASSUME NEW a \in Entries, NEW b \in Entries, Before(a, b)
  PROVE  a.name <= b.name /\ (a.name = b.name => ~Newer(b, a))
  BY EntryFields DEF Before, Newer

LEMMA ItemsOfEmpty == Items(<<>>) = {}
  BY DEF Items

LEMMA ItemsOfAppend ==
  ASSUME NEW S, NEW s \in Seq(S), NEW e \in S
  PROVE  Items(Append(s, e)) = Items(s) \cup {e}
<1>1. Len(Append(s, e)) = Len(s) + 1 /\ Len(s) \in Nat
  OBVIOUS
<1>2. \A i \in 1..Len(s) : Append(s, e)[i] = s[i]
  OBVIOUS
<1>3. Append(s, e)[Len(s) + 1] = e
  OBVIOUS
<1>4. 1..(Len(s) + 1) = 1..Len(s) \cup {Len(s) + 1}
  BY <1>1
<1> QED BY <1>1, <1>2, <1>3, <1>4 DEF Items

LEMMA ItemsOfTail ==
  ASSUME NEW S, NEW s \in Seq(S), s # <<>>
  PROVE  Head(s) \in S /\ Tail(s) \in Seq(S) /\ Items(s) = {Head(s)} \cup Items(Tail(s))
<1>1. /\ Len(s) \in Nat \ {0} /\ Len(Tail(s)) = Len(s) - 1 /\ Head(s) = s[1]
      /\ Tail(s) \in Seq(S) /\ Head(s) \in S
  OBVIOUS
<1>2. \A i \in 1..Len(Tail(s)) : Tail(s)[i] = s[i + 1]
  OBVIOUS
<1>3. ASSUME NEW x \in Items(s) PROVE x = Head(s) \/ x \in Items(Tail(s))
  <2>1. PICK i \in 1..Len(s) : x = s[i]
    BY DEF Items
  <2>2. CASE i = 1
    BY <1>1, <2>1, <2>2
  <2>3. CASE i # 1
    <3>1. i - 1 \in 1..Len(Tail(s)) /\ Tail(s)[i - 1] = s[i]
      BY <1>1, <1>2, <2>1, <2>3
    <3> QED BY <2>1, <3>1 DEF Items
  <2> QED BY <2>2, <2>3
<1>4. ASSUME NEW x \in Items(Tail(s)) PROVE x \in Items(s)
  <2>1. PICK i \in 1..Len(Tail(s)) : x = Tail(s)[i]
    BY DEF Items
  <2>2. i + 1 \in 1..Len(s) /\ x = s[i + 1]
    BY <1>1, <1>2, <2>1
  <2> QED BY <2>2 DEF Items
<1>5. Head(s) \in Items(s)
  BY <1>1 DEF Items
<1> QED BY <1>1, <1>3, <1>4, <1>5

LEMMA SortedAppend ==
  ASSUME NEW s \in Seq(Entries), NEW e \in Entries, Sorted(s), \A x \in Items(s) : Before(x, e)
  PROVE  Sorted(Append(s, e))
<1> SUFFICES ASSUME NEW i \in 1..Len(Append(s, e)), NEW j \in 1..Len(Append(s, e)), i < j
             PROVE  Before(Append(s, e)[i], Append(s, e)[j])
  BY DEF Sorted
<1>1. Len(Append(s, e)) = Len(s) + 1 /\ Len(s) \in Nat /\ i \in 1..Len(s) /\ Append(s, e)[i] = s[i]
  OBVIOUS
<1>2. CASE j \in 1..Len(s)
  <2>1. Append(s, e)[j] = s[j]
    BY <1>2
  <2> QED BY <1>1, <1>2, <2>1 DEF Sorted
<1>3. CASE j = Len(s) + 1
  <2>1. Append(s, e)[j] = e
    BY <1>3
  <2> QED BY <1>1, <2>1 DEF Items
<1> QED BY <1>1, <1>2, <1>3

LEMMA SortedTail ==
  ASSUME NEW s \in Seq(Entries), s # <<>>, Sorted(s)
  PROVE  Sorted(Tail(s)) /\ \A x \in Items(Tail(s)) : Before(Head(s), x)
<1>1. /\ Len(s) \in Nat \ {0} /\ Len(Tail(s)) = Len(s) - 1 /\ Head(s) = s[1]
      /\ Tail(s) \in Seq(Entries)
  OBVIOUS
<1>2. \A i \in 1..Len(Tail(s)) : Tail(s)[i] = s[i + 1] /\ i + 1 \in 1..Len(s)
  OBVIOUS
<1>3. Sorted(Tail(s))
  <2> SUFFICES ASSUME NEW i \in 1..Len(Tail(s)), NEW j \in 1..Len(Tail(s)), i < j
               PROVE  Before(Tail(s)[i], Tail(s)[j])
    BY DEF Sorted
  <2>1. i + 1 \in 1..Len(s) /\ j + 1 \in 1..Len(s) /\ i + 1 < j + 1
    BY <1>1, <1>2
  <2>2. Before(s[i + 1], s[j + 1])
    BY <2>1 DEF Sorted
  <2> QED BY <1>2, <2>2
<1>4. ASSUME NEW x \in Items(Tail(s)) PROVE Before(Head(s), x)
  <2>1. PICK i \in 1..Len(Tail(s)) : x = Tail(s)[i]
    BY DEF Items
  <2>2. 1 \in 1..Len(s) /\ i + 1 \in 1..Len(s) /\ 1 < i + 1
    BY <1>1, <1>2, <2>1
  <2>3. Before(s[1], s[i + 1])
    BY <2>2 DEF Sorted
  <2> QED BY <1>1, <1>2, <2>1, <2>3
<1> QED BY <1>3, <1>4

\* The log.
LEMMA LoggedInEmpty ==
  ASSUME actions = <<>>
  PROVE  \A types : Logged(types) = {}
  BY DEF Logged

LEMMA LoggedMore ==
  ASSUME actions \in Seq(LogLine), NEW t \in Types, NEW e \in Entries,
         actions' = Append(actions, Log(t, e))
  PROVE  /\ actions' \in Seq(LogLine)
         /\ \A types : Logged(types)' = Logged(types) \cup (IF t \in types THEN {e} ELSE {})
<1> DEFINE n == Len(actions)
<1>1. Log(t, e) \in LogLine /\ Log(t, e).type = t /\ Log(t, e).entry = e
  BY DEF Log, LogLine
<1>2. /\ actions' \in Seq(LogLine) /\ Len(actions') = n + 1 /\ n \in Nat
      /\ \A i \in 1..n : actions'[i] = actions[i]
      /\ actions'[n + 1] = Log(t, e)
  BY <1>1
<1>3. 1..(n + 1) = 1..n \cup {n + 1}
  BY <1>2
<1>4. ASSUME NEW types
      PROVE  Logged(types)' = Logged(types) \cup (IF t \in types THEN {e} ELSE {})
  <2>1. {j \in 1..Len(actions') : actions'[j].type \in types} =
          {j \in 1..n : actions[j].type \in types} \cup (IF t \in types THEN {n + 1} ELSE {})
    BY <1>1, <1>2, <1>3
  <2> QED BY <1>1, <1>2, <2>1 DEF Logged
<1> QED BY <1>2, <1>4

------------------------------------------------------------------------------
(***************************************************************************)
(* The pruner.                                                             *)
(***************************************************************************)
\* The first of the rules that match is one of them.
LEMMA FirstMatching ==
  ASSUME NEW S \in SUBSET Nat, S # {}
  PROVE  (CHOOSE i \in S : \A j \in S : i <= j) \in S
<1> DEFINE Less == {ss \in Nat \X Nat : ss[1] < ss[2]}
<1>1. IsWellFoundedOn(Less, Nat)
  BY NatLessThanWellFounded DEF OpToRel
<1> HIDE DEF Less
<1>2. PICK x \in S : \A y \in S : ~(<<y, x>> \in Less)
  BY <1>1, WFMin
<1>3. ASSUME NEW y \in S, y < x PROVE FALSE
  <2>1. x \in Nat /\ y \in Nat
    OBVIOUS
  <2>2. <<y, x>> \in {ss \in Nat \X Nat : ss[1] < ss[2]}
    BY <1>3, <2>1
  <2> QED BY <1>2, <2>2 DEF Less
<1>4. \A y \in S : x <= y
  BY <1>3
<1> QED BY <1>4

LEMMA RuleForType ==
  ASSUME rules \in RuleSets, NEW n
  PROVE  RuleFor(rules, n) \in Rules \cup {None}
<1>1. rules \in Seq(Rules) /\ Matching(rules, n) \in SUBSET Nat
      /\ Matching(rules, n) \subseteq 1..Len(rules)
  BY RulesAssumption DEF Matching
<1>2. CASE Matching(rules, n) = {}
  BY <1>2 DEF RuleFor
<1>3. CASE Matching(rules, n) # {}
  <2>1. (CHOOSE i \in Matching(rules, n) : \A j \in Matching(rules, n) : i <= j) \in 1..Len(rules)
    BY <1>1, <1>3, FirstMatching
  <2> QED BY <1>1, <1>3, <2>1 DEF RuleFor
<1> QED BY <1>2, <1>3

LEMMA SeenType ==
  ASSUME rules \in RuleSets, NEW p \in PrunerRecord, NEW e \in Entries
  PROVE  Seen(p, e) \in PrunerRecord /\ Seen(p, e).name = e.name
<1>1. RuleFor(rules, e.name) \in Rules \cup {None}
  BY RuleForType
<1> QED BY <1>1, EntryFields DEF Seen, PrunerRecord

\* The first entry of a package is never left out.
LEMMA FirstOfPackage ==
  ASSUME NEW p, NEW e, Prunes(p, e)
  PROVE  e.name = p.name
  BY DEF Prunes, Counted, NewPackage

------------------------------------------------------------------------------
(***************************************************************************)
(* One turn of the loop.                                                   *)
(***************************************************************************)
LEMMA MergeTypes ==
  ASSUME MergeInv, pc = "merge"
  PROVE  /\ uploaded \in Entries /\ pruner \in PrunerRecord /\ actions \in Seq(LogLine)
         /\ merged \in Seq(Entries) /\ left \in Seq(Entries) /\ rules \in RuleSets
         /\ Items(index) \in SUBSET Entries /\ Items(left) \in SUBSET Entries
         /\ Placed \in SUBSET Entries /\ dropped \subseteq Placed
<1>1. /\ uploaded \in Entries /\ pruner \in PrunerRecord /\ actions \in Seq(LogLine)
      /\ merged \in Seq(Entries) /\ left \in Seq(Entries) /\ rules \in RuleSets
      /\ index \in Seq(Entries)
  BY DEF MergeInv, PlaceInv, TypeOK, PrunerRecord, LogLine
<1>2. Items(index) \in SUBSET Entries /\ Items(left) \in SUBSET Entries
  BY <1>1 DEF Items
<1>3. dropped \subseteq Placed
  BY DEF MergeInv, PlaceInv
<1> QED BY <1>1, <1>2, <1>3 DEF Placed

LEMMA MergedIsPlaced ==
  ASSUME MergeInv, pc = "merge"
  PROVE  Items(merged) \subseteq Placed /\ Items(merged) \cap dropped = {}
  BY DEF MergeInv, LogInv, Placed, Types, Logged

\* An entry that is not pruned is written or dropped.
LEMMA Written ==
  ASSUME merged \in Seq(Entries), Sorted(merged), NEW e \in Entries,
         \A x \in Items(merged) : Before(x, e), e \notin dropped, Items(merged) \cap dropped = {},
         IF Prunes(pruner, e) THEN UNCHANGED <<merged, dropped>> ELSE AddEntry(e)
  PROVE  /\ merged' \in Seq(Entries) /\ Sorted(merged)'
         /\ Items(merged)' = (Items(merged) \cup (IF Prunes(pruner, e) THEN {} ELSE {e})) \ dropped'
         /\ dropped \subseteq dropped' /\ dropped' \subseteq dropped \cup {e}
<1>1. CASE merged' = merged
  <2>1. dropped' = IF Prunes(pruner, e) THEN dropped ELSE dropped \cup {e}
    <3>1. ~Prunes(pruner, e) => Append(merged, e) # merged
      OBVIOUS
    <3> QED BY <1>1, <3>1 DEF AddEntry
  <2>2. Items(merged)' = Items(merged) /\ Sorted(merged)'
    BY <1>1 DEF Items, Sorted
  <2>3. e \notin Items(merged)
    BY BeforeIsStrict
  <2> QED BY <1>1, <2>1, <2>2, <2>3
<1>2. CASE merged' # merged
  <2>1. ~Prunes(pruner, e) /\ merged' = Append(merged, e) /\ dropped' = dropped
    BY <1>2 DEF AddEntry
  <2>2. Items(merged)' = Items(merged) \cup {e} /\ Sorted(merged)' /\ merged' \in Seq(Entries)
    BY <2>1, ItemsOfAppend, SortedAppend
  <2> QED BY <2>1, <2>2
<1> QED BY <1>1, <1>2

\* An entry is placed, the pruner does not panic: e is from the old index, or new.
LEMMA PlaceStep ==
  ASSUME MergeInv, pc = "merge", NEW e \in Entries,
         NEW kept \in Types \cup {None}, NEW pruned \in Types,
         ~Panics(pruner, e), Place(e, kept, pruned), index' = index, uploaded' = uploaded,
         \A x \in Placed : Before(x, e), Placed' = Placed \cup {e},
         \/ kept = "add" /\ pruned = "prune" /\ left' = left
         \/ /\ kept \in {None, "skippresent"} /\ pruned \in {"prune", "skipprune"}
            /\ Items(left) = {e} \cup Items(left)' /\ e \notin Items(left)'
            /\ e \in Items(index)
  PROVE  /\ pc' = "merge"
         /\ merged' \in Seq(Entries) /\ actions' \in Seq(LogLine) /\ pruner' \in PrunerRecord
         /\ Sorted(merged)' /\ LogInv' /\ pruner'.name = e.name
         /\ NewestOf(Placed)' \ dropped' \subseteq Items(merged)' /\ dropped' \subseteq Placed'
         /\ Logged({"add", "prune"}) \subseteq Logged({"add", "prune"})'
         /\ kept = "add" => e \in Logged({"add", "prune"})'
<1>1. /\ pc' = "merge" /\ pruner' = Seen(pruner, e)
      /\ IF Prunes(pruner, e) THEN UNCHANGED <<merged, dropped>> ELSE AddEntry(e)
      /\ LET type == IF Prunes(pruner, e) THEN pruned ELSE kept
         IN actions' = IF type = None THEN actions ELSE Append(actions, Log(type, e))
  BY DEF Place
<1>2. pruner' \in PrunerRecord /\ pruner'.name = e.name
  BY <1>1, MergeTypes, SeenType
<1>3. /\ Sorted(merged) /\ Items(merged) \subseteq Placed /\ Items(merged) \cap dropped = {}
      /\ dropped \subseteq Placed
  BY MergedIsPlaced DEF MergeInv, PlaceInv
<1>5. e \notin Placed
  BY MergeTypes, BeforeIsStrict
<1>4. /\ merged' \in Seq(Entries) /\ Sorted(merged)'
      /\ Items(merged)' = (Items(merged) \cup (IF Prunes(pruner, e) THEN {} ELSE {e})) \ dropped'
      /\ dropped \subseteq dropped' /\ dropped' \subseteq dropped \cup {e}
  BY <1>1, <1>3, <1>5, MergeTypes, Written
<1>6. /\ actions' \in Seq(LogLine)
      /\ \A types \in SUBSET Types :
           Logged(types)' = Logged(types) \cup (IF (IF Prunes(pruner, e) THEN pruned ELSE kept) \in types
                                                THEN {e} ELSE {})
  <2>1. CASE Prunes(pruner, e)
    <3>1. actions' = Append(actions, Log(pruned, e))
      BY <1>1, <2>1, RulesAssumption DEF Types
    <3> QED BY <2>1, <3>1, MergeTypes, LoggedMore
  <2>2. CASE ~Prunes(pruner, e) /\ kept # None
    <3>1. actions' = Append(actions, Log(kept, e)) /\ kept \in Types
      BY <1>1, <2>2
    <3> QED BY <2>2, <3>1, MergeTypes, LoggedMore
  <2>3. CASE ~Prunes(pruner, e) /\ kept = None
    <3>1. actions' = actions
      BY <1>1, <2>3
    <3>2. \A types : Logged(types)' = Logged(types)
      BY <3>1 DEF Logged
    <3> QED BY <2>3, <3>1, <3>2, MergeTypes, RulesAssumption DEF Types
  <2> QED BY <2>1, <2>2, <2>3
<1>7. LogInv'
  <2> DEFINE T == {"prune", "skipprune"}
  <2>1. /\ Logged(Types) \subseteq Placed
        /\ Items(merged) = (((Items(index) \ Items(left)) \ Logged(T)) \cup Logged({"add"})) \ dropped
    BY DEF MergeInv, LogInv
  <2>2. Logged(Types)' \subseteq Placed'
    BY <1>6, <2>1
  <2>3. Logged(T) \subseteq Placed /\ Logged({"add"}) \subseteq Placed
    BY <2>1 DEF Logged, Types
  <2>4. /\ Logged(T)' = Logged(T) \cup (IF Prunes(pruner, e) THEN {e} ELSE {})
        /\ Logged({"add"})' =
             Logged({"add"}) \cup (IF ~Prunes(pruner, e) /\ kept = "add" THEN {e} ELSE {})
    BY <1>6, RulesAssumption DEF Types
  <2>5. Items(merged)' =
          (((Items(index)' \ Items(left)') \ Logged(T)') \cup Logged({"add"})') \ dropped'
    <3>1. CASE kept = "add" /\ left' = left
      BY <1>3, <1>4, <1>5, <2>1, <2>3, <2>4, <3>1
    <3>2. CASE /\ kept \in {None, "skippresent"} /\ Items(left) = {e} \cup Items(left)'
               /\ e \notin Items(left)' /\ e \in Items(index)
      BY <1>3, <1>4, <1>5, <2>1, <2>3, <2>4, <3>2, RulesAssumption
    <3> QED BY <3>1, <3>2
  <2> QED BY <2>2, <2>5 DEF LogInv
<1>8. NewestOf(Placed)' \ dropped' \subseteq Items(merged)'
  <2>1. NewestOf(Placed) \ dropped \subseteq Items(merged)
    BY DEF MergeInv, NewestInv
  <2>2. ASSUME NEW x \in NewestOf(Placed'), x \in Placed PROVE x \in NewestOf(Placed)
    BY <2>2 DEF NewestOf
  <2>3. ASSUME e \in NewestOf(Placed'), Prunes(pruner, e) PROVE FALSE
    <3>1. e.name = pruner.name /\ pruner.name # None
      BY <2>3, FirstOfPackage, EntryFields, RulesAssumption
    <3>2. PICK x \in Placed : x.name = e.name
      BY <3>1 DEF MergeInv, NewestInv
    <3>3. x \in Entries /\ x # e /\ ~Newer(e, x)
      BY <1>5, <3>2, MergeTypes, BeforeIsNewer
    <3> QED BY <2>3, <3>2, <3>3 DEF NewestOf
  <2>4. NewestOf(Placed') \subseteq Placed'
    BY DEF NewestOf
  <2>5. NewestOf(Placed') \ dropped' \subseteq Items(merged)'
    BY <1>4, <2>1, <2>2, <2>3, <2>4
  <2> QED BY <2>5 DEF NewestOf
<1>9. /\ Logged({"add", "prune"}) \subseteq Logged({"add", "prune"})'
      /\ kept = "add" => e \in Logged({"add", "prune"})'
  BY <1>6, RulesAssumption DEF Types
<1> QED BY <1>1, <1>2, <1>3, <1>4, <1>6, <1>7, <1>8, <1>9

\* The process ends: nothing is said of the merge any more.
LEMMA PanicStep ==
  ASSUME MergeInv, NEW e, NEW kept, NEW pruned, Panics(pruner, e), Place(e, kept, pruned),
         left' \in Seq(Entries), right' \in Seq(Entries), Len(right') <= 1, err' \in BOOLEAN,
         UNCHANGED <<index, rules, uploaded>>
  PROVE  MergeInv'
<1>1. pc' = "panic" /\ UNCHANGED <<merged, pruner, actions, dropped>>
  BY DEF Place
<1> QED BY <1>1 DEF MergeInv, TypeOK

\* What PlaceStep says, put together.
LEMMA MergeGoesOn ==
  ASSUME MergeInv, PlaceInv', NewestInv', LogInv', UNCHANGED <<index, rules, uploaded>>,
         merged' \in Seq(Entries), actions' \in Seq(LogLine), pruner' \in PrunerRecord,
         left' \in Seq(Entries), right' \in Seq(Entries), Len(right') <= 1, err' \in BOOLEAN,
         pc' = "merge", dropped' \subseteq Entries
  PROVE  MergeInv'
  BY DEF MergeInv, TypeOK, LogLine, PrunerRecord

LEMMA PlaceOldStep ==
  ASSUME MergeInv, PlaceOld
  PROVE  MergeInv'
<1> DEFINE e == Head(left)
<1>1. /\ pc = "merge" /\ Reading /\ left # <<>> /\ left' = Tail(left) /\ Place(e, None, "prune")
      /\ err' \in BOOLEAN
      /\ right # <<>> => Before(e, right[1])
      /\ UNCHANGED <<index, rules, uploaded, right>>
  BY DEF PlaceOld, NextEntry, Reading
<1>2. /\ e \in Entries /\ left' \in Seq(Entries) /\ Items(left) = {e} \cup Items(left)'
      /\ Sorted(left)' /\ \A x \in Items(left)' : Before(e, x)
  BY <1>1, MergeTypes, ItemsOfTail, SortedTail DEF MergeInv, PlaceInv
<1>3. right' \in Seq(Entries) /\ Len(right') <= 1
  BY <1>1 DEF MergeInv, TypeOK
<1> HIDE DEF e
<1>4. CASE Panics(pruner, e)
  BY <1>1, <1>2, <1>3, <1>4, PanicStep
<1>5. CASE ~Panics(pruner, e)
  <2>1. e \in Items(index) /\ e \notin Items(left)' /\ \A x \in Placed : Before(x, e)
    BY <1>1, <1>2, MergeTypes, BeforeIsStrict DEF MergeInv, PlaceInv
  <2>2. Placed' = Placed \cup {e}
    BY <1>1, <1>2, <2>1 DEF Placed
  <2>3. /\ pc' = "merge"
        /\ merged' \in Seq(Entries) /\ actions' \in Seq(LogLine) /\ pruner' \in PrunerRecord
        /\ Sorted(merged)' /\ LogInv' /\ pruner'.name = e.name
        /\ NewestOf(Placed)' \ dropped' \subseteq Items(merged)' /\ dropped' \subseteq Placed'
        /\ Logged({"add", "prune"}) \subseteq Logged({"add", "prune"})'
    BY <1>1, <1>2, <1>5, <2>1, <2>2, PlaceStep DEF Types
  <2>4. PlaceInv'
    <3>1. right # <<>> => right[1] = uploaded
      BY <1>1 DEF MergeInv, PlaceInv
    <3> QED BY <1>1, <1>2, <2>2, <2>3, <3>1 DEF MergeInv, PlaceInv
  <2>5. NewestInv'
    BY <1>1, <2>2, <2>3 DEF MergeInv, NewestInv
  <2> QED BY <1>1, <1>2, <1>3, <2>2, <2>3, <2>4, <2>5, MergeTypes, MergeGoesOn
<1> QED BY <1>4, <1>5

LEMMA PlaceSameStep ==
  ASSUME MergeInv, PlaceSame
  PROVE  MergeInv'
<1> DEFINE e == Head(left)
<1>1. /\ pc = "merge" /\ Reading /\ left # <<>> /\ left' = Tail(left)
      /\ right # <<>> /\ right' = <<>> /\ err' \in BOOLEAN
      /\ Place(e, "skippresent", "skipprune") /\ e = right[1]
      /\ UNCHANGED <<index, rules, uploaded>>
  BY DEF PlaceSame, NextEntry, Reading
<1>2. /\ e \in Entries /\ left' \in Seq(Entries) /\ Items(left) = {e} \cup Items(left)'
      /\ Sorted(left)' /\ \A x \in Items(left)' : Before(e, x)
  BY <1>1, MergeTypes, ItemsOfTail, SortedTail DEF MergeInv, PlaceInv
<1>3. right' \in Seq(Entries) /\ Len(right') <= 1
  BY <1>1
<1>4. e = uploaded
  BY <1>1 DEF MergeInv, PlaceInv
<1> HIDE DEF e
<1>5. CASE Panics(pruner, e)
  BY <1>1, <1>2, <1>3, <1>5, PanicStep
<1>6. CASE ~Panics(pruner, e)
  <2>1. e \in Items(index) /\ e \notin Items(left)' /\ \A x \in Placed : Before(x, e)
    BY <1>1, <1>2, MergeTypes, BeforeIsStrict DEF MergeInv, PlaceInv
  <2>2. Placed' = Placed \cup {e}
    BY <1>1, <1>2, <1>4, <2>1 DEF Placed
  <2>3. /\ pc' = "merge"
        /\ merged' \in Seq(Entries) /\ actions' \in Seq(LogLine) /\ pruner' \in PrunerRecord
        /\ Sorted(merged)' /\ LogInv' /\ pruner'.name = e.name
        /\ NewestOf(Placed)' \ dropped' \subseteq Items(merged)' /\ dropped' \subseteq Placed'
    BY <1>1, <1>2, <1>6, <2>1, <2>2, PlaceStep DEF Types
  <2>4. PlaceInv'
    BY <1>1, <1>2, <2>2, <2>3 DEF MergeInv, PlaceInv
  <2>5. NewestInv'
    BY <1>1, <1>4, <2>1, <2>2, <2>3 DEF MergeInv, NewestInv
  <2> QED BY <1>1, <1>2, <1>3, <2>2, <2>3, <2>4, <2>5, MergeTypes, MergeGoesOn
<1> QED BY <1>5, <1>6

LEMMA PlaceNewStep ==
  ASSUME MergeInv, PlaceNew
  PROVE  MergeInv'
<1>1. /\ pc = "merge" /\ right # <<>> /\ right' = <<>> /\ Place(right[1], "add", "prune")
      /\ Reading => Before(right[1], Head(left))
      /\ UNCHANGED <<index, rules, uploaded, left, err>>
  BY DEF PlaceNew
<1>2. right[1] = uploaded /\ uploaded \in Entries
  BY <1>1 DEF MergeInv, PlaceInv
<1>3. right' \in Seq(Entries) /\ Len(right') <= 1 /\ left' \in Seq(Entries) /\ err' \in BOOLEAN
  BY <1>1, MergeTypes DEF MergeInv, TypeOK
<1>4. Reading => \A x \in Items(left) : Before(uploaded, x)
  <2>1. CASE ~Reading
    BY <2>1
  <2>2. CASE Reading /\ left # <<>>
    <3>1. /\ Head(left) \in Entries /\ Items(left) = {Head(left)} \cup Items(Tail(left))
          /\ \A x \in Items(Tail(left)) : Before(Head(left), x)
      BY <1>1, <2>2, MergeTypes, ItemsOfTail, SortedTail DEF MergeInv, PlaceInv
    <3>2. Items(left) \in SUBSET Entries
      BY <1>1, MergeTypes
    <3> QED BY <1>1, <1>2, <2>2, <3>1, <3>2, BeforeIsStrict
  <2> QED BY <2>1, <2>2 DEF Reading
<1>5. CASE Panics(pruner, uploaded)
  BY <1>1, <1>2, <1>3, <1>5, PanicStep
<1>6. CASE ~Panics(pruner, uploaded)
  <2>1. \A x \in Placed : Before(x, uploaded)
    BY <1>1 DEF MergeInv, PlaceInv
  <2>2. Placed' = Placed \cup {uploaded}
    BY <1>1 DEF Placed
  <2>3. /\ pc' = "merge"
        /\ merged' \in Seq(Entries) /\ actions' \in Seq(LogLine) /\ pruner' \in PrunerRecord
        /\ Sorted(merged)' /\ LogInv' /\ pruner'.name = uploaded.name
        /\ NewestOf(Placed)' \ dropped' \subseteq Items(merged)' /\ dropped' \subseteq Placed'
        /\ uploaded \in Logged({"add", "prune"})'
    BY <1>1, <1>2, <1>6, <2>1, <2>2, PlaceStep DEF Types
  <2>4. PlaceInv'
    BY <1>1, <1>2, <1>4, <2>2, <2>3 DEF MergeInv, PlaceInv, Reading
  <2>5. NewestInv'
    BY <1>1, <2>2, <2>3 DEF MergeInv, NewestInv
  <2> QED BY <1>1, <1>3, <2>2, <2>3, <2>4, <2>5, MergeTypes, MergeGoesOn
<1> QED BY <1>5, <1>6

\* The merge begins with nothing placed, and ends with a sorted index.
LEMMA UploadStep ==
  ASSUME MergeInv, NEW e \in Entries, Upload(e)
  PROVE  MergeInv'
<1> USE DEF Upload
<1>1. right' \in Seq(Entries) /\ Len(right') <= 1 /\ right' # <<>>
  OBVIOUS
<1>2. TypeOK' /\ Sorted(index)'
  <2>1. err' \in BOOLEAN
    BY DEF NextEntry
  <2> QED BY <1>1, <2>1 DEF MergeInv, TypeOK, FreshPruner, mergeVars
<1>3. Placed' = {} /\ \A types : Logged(types)' = {}
  BY <1>1 DEF Placed, Logged
<1>4. Items(merged') = {} /\ Sorted(merged')
  BY ItemsOfEmpty DEF Sorted
<1>5. PlaceInv' /\ LogInv' /\ NewestInv'
  BY <1>1, <1>3, <1>4 DEF MergeInv, PlaceInv, LogInv, NewestInv, FreshPruner, NewestOf
<1> QED BY <1>2, <1>5 DEF MergeInv

LEMMA FinishStep ==
  ASSUME MergeInv, Finish
  PROVE  MergeInv'
  BY DEF MergeInv, PlaceInv, TypeOK, Finish, Merged, mergeVars

LEMMA InitMerge == Init => MergeInv
<1> SUFFICES ASSUME Init PROVE MergeInv
  OBVIOUS
<1>1. err \in BOOLEAN
  BY Zenon DEF Init
<1> QED BY <1>1 DEF Init, MergeInv, TypeOK, FreshPruner, Sorted

LEMMA NextMerge == MergeInv /\ [Next]_vars => MergeInv'
<1> SUFFICES ASSUME MergeInv, [Next]_vars PROVE MergeInv'
  OBVIOUS
<1>1. ASSUME NEW e \in Entries, Upload(e) PROVE MergeInv'
  BY <1>1, UploadStep
<1>2. CASE PlaceOld \/ PlaceSame \/ PlaceNew \/ Finish
  BY <1>2, PlaceOldStep, PlaceSameStep, PlaceNewStep, FinishStep
<1>3. ASSUME NEW rs \in RuleSets, SetRules(rs) PROVE MergeInv'
  BY <1>3 DEF SetRules, MergeInv, TypeOK, mergeVars
<1>4. CASE UNCHANGED vars
  <2>1. UNCHANGED <<index, rules, pc, uploaded, left, right, merged, pruner, actions,
              err, dropped>>
    BY <1>4 DEF vars, mergeVars
  <2>2. TypeOK' /\ Sorted(index)'
    BY <2>1 DEF MergeInv, TypeOK
  <2>3. Placed' = Placed /\ \A types : Logged(types)' = Logged(types)
    BY <2>1 DEF Placed, Logged
  <2>4. pc = "merge" => PlaceInv' /\ LogInv' /\ NewestInv'
    BY <2>1, <2>3 DEF MergeInv, PlaceInv, LogInv, NewestInv, Reading
  <2> QED BY <2>1, <2>2, <2>4 DEF MergeInv
<1> QED BY <1>1, <1>2, <1>3, <1>4 DEF Next

------------------------------------------------------------------------------
\* The inductive invariant holds in every reachable state.
THEOREM MergeInvariant == Spec => []MergeInv
<1> QED BY InitMerge, NextMerge, PTL DEF Spec

\* The index is sorted and has no entry twice.
THEOREM IndexStaysSorted == Spec => []IndexSorted
<1>1. MergeInv => IndexSorted
  BY DEF MergeInv, IndexSorted
<1> QED BY <1>1, MergeInvariant, PTL

\* What a release's log says is how its index differs from the one before, but for entries
\* that could not be read or written.
THEOREM LogIsComplete == Spec => []LogExplains
<1>1. MergeInv => LogExplains
  BY DEF MergeInv, LogInv, LogExplains, Merged
<1> QED BY <1>1, MergeInvariant, PTL

\* No upload, under any rules, costs a package its newest version, but by a failing disk.
THEOREM NewestStays == Spec => NewestKept
<1>1. ASSUME MergeInv, [Next]_vars, pc = "merge", pc' = "idle"
      PROVE  NewestOf(Given) \ dropped \subseteq Items(index')
  <2>1. Finish
    BY <1>1 DEF Next, vars, mergeVars, Upload, PlaceOld, PlaceSame, PlaceNew, Place, SetRules
  <2>2. right = <<>> /\ Given = Placed
    BY <2>1 DEF Finish, Merged, Given, Placed
  <2>3. NewestOf(Given) \ dropped \subseteq Items(merged)
    BY <1>1, <2>2 DEF MergeInv, NewestInv
  <2>4. CASE index' = merged
    BY <2>3, <2>4
  <2>5. CASE index' # merged
    <3>1. index' = index /\ {actions[i].type : i \in 1..Len(actions)} \cap {"add", "prune"} = {}
      BY <2>1, <2>5 DEF Finish, RealChange
    <3>2. Logged({"add", "prune"}) = {}
      BY <3>1 DEF Logged
    <3>3. uploaded \in Items(index)
      BY <1>1, <2>2, <3>2 DEF MergeInv, NewestInv
    <3> QED BY <3>1, <3>3 DEF NewestOf, Given
  <2> QED BY <2>4, <2>5
<1>2. MergeInv /\ [Next]_vars =>
        [pc = "merge" /\ pc' = "idle" => NewestOf(Given) \ dropped \subseteq Items(index')]_vars
  BY <1>1
<1> QED BY <1>2, MergeInvariant, PTL DEF Spec, NewestKept

------------------------------------------------------------------------------
(***************************************************************************)
(* The pruner's counters are the cardinalities of the rule.                *)
(***************************************************************************)
\* What comes after an entry does not change what is newer than it.
LEMMA NewerOfMore ==
  ASSUME NEW S \in SUBSET Entries, NEW e \in Entries, \A x \in S : Before(x, e)
  PROVE  \A x \in S \cup {e} : /\ NewerVersions(S \cup {e}, x) = NewerVersions(S, x)
                               /\ NewerRevisions(S \cup {e}, x) = NewerRevisions(S, x)
<1> SUFFICES ASSUME NEW x \in S \cup {e}
             PROVE  /\ NewerVersions(S \cup {e}, x) = NewerVersions(S, x)
                    /\ NewerRevisions(S \cup {e}, x) = NewerRevisions(S, x)
  OBVIOUS
<1>1. x = e \/ Before(x, e)
  OBVIOUS
<1>2. ~(/\ e.name = x.name
        /\ \/ e.epoch > x.epoch
           \/ e.epoch = x.epoch /\ e.version > x.version)
  BY <1>1, EntryFields DEF Before, Newer
<1>3. ~(/\ e.name = x.name /\ e.epoch = x.epoch /\ e.version = x.version
        /\ e.revision > x.revision)
  BY <1>1, EntryFields DEF Before, Newer
<1> QED BY <1>2, <1>3 DEF NewerVersions, NewerRevisions

\* So the rules retain of S and e what they retain of S, and e if they retain e.
LEMMA RetainedOfMore ==
  ASSUME NEW S \in SUBSET Entries, NEW e \in Entries, \A x \in S : Before(x, e)
  PROVE  Retained(S \cup {e}) =
           Retained(S) \cup
           (IF LET r == RuleFor(rules, e.name)
               IN r # None => /\ AtMost(NewerVersions(S, e), r.versions)
                              /\ AtMost(NewerRevisions(S, e), r.revisions)
            THEN {e} ELSE {})
  BY NewerOfMore DEF Retained

\* The first entry of a package has nothing newer.
LEMMA NewerInNewPackage ==
  ASSUME NEW S \in SUBSET Entries, NEW e \in Entries, \A x \in S : x.name # e.name
  PROVE  NewerVersions(S, e) = {} /\ NewerRevisions(S, e) = {}
  BY DEF NewerVersions, NewerRevisions

\* The first entry of a version has one newer version more than the entry before it.
LEMMA NewerInNewVersion ==
  ASSUME NEW S \in SUBSET Entries, NEW e \in Entries, NEW l \in S, Last(S, l), Before(l, e),
         l.name = e.name, l.epoch # e.epoch \/ l.version # e.version
  PROVE  /\ NewerVersions(S, e) = NewerVersions(S, l) \cup {<<l.epoch, l.version>>}
         /\ <<l.epoch, l.version>> \notin NewerVersions(S, l)
         /\ NewerRevisions(S, e) = {}
<1>1. l.epoch > e.epoch \/ (l.epoch = e.epoch /\ l.version > e.version)
  BY EntryFields DEF Before, Newer
<1>2. \A x \in S : x.name = l.name =>
        \/ x.epoch > l.epoch
        \/ x.epoch = l.epoch /\ x.version >= l.version
  BY EntryFields DEF Last, Before, Newer
<1>3. ASSUME NEW v
      PROVE  v \in NewerVersions(S, e) <=> v \in NewerVersions(S, l) \cup {<<l.epoch, l.version>>}
  <2>1. ASSUME v \in NewerVersions(S, e)
        PROVE  v \in NewerVersions(S, l) \cup {<<l.epoch, l.version>>}
    <3>1. PICK x \in S : v = <<x.epoch, x.version>> /\ x.name = e.name
      BY <2>1 DEF NewerVersions
    <3>2. \/ x.epoch = l.epoch /\ x.version = l.version
          \/ x.epoch > l.epoch
          \/ x.epoch = l.epoch /\ x.version > l.version
      BY <1>2, <3>1, EntryFields
    <3> QED BY <3>1, <3>2 DEF NewerVersions
  <2>2. ASSUME v \in NewerVersions(S, l)
        PROVE  v \in NewerVersions(S, e)
    <3>1. PICK x \in S : /\ v = <<x.epoch, x.version>> /\ x.name = l.name
                         /\ \/ x.epoch > l.epoch
                            \/ x.epoch = l.epoch /\ x.version > l.version
      BY <2>2 DEF NewerVersions
    <3>2. x.epoch > e.epoch \/ (x.epoch = e.epoch /\ x.version > e.version)
      BY <1>1, <3>1, EntryFields
    <3> QED BY <3>1, <3>2 DEF NewerVersions
  <2>3. <<l.epoch, l.version>> \in NewerVersions(S, e)
    BY <1>1 DEF NewerVersions
  <2> QED BY <2>1, <2>2, <2>3
<1>4. <<l.epoch, l.version>> \notin NewerVersions(S, l)
  BY EntryFields DEF NewerVersions
<1>5. NewerRevisions(S, e) = {}
  BY <1>1, <1>2, EntryFields DEF NewerRevisions
<1> QED BY <1>3, <1>4, <1>5

\* Another revision of a version has one newer revision more than the one before it.
LEMMA NewerInNewRevision ==
  ASSUME NEW S \in SUBSET Entries, NEW e \in Entries, NEW l \in S, Last(S, l), Before(l, e),
         l.name = e.name, l.epoch = e.epoch, l.version = e.version
  PROVE  /\ NewerVersions(S, e) = NewerVersions(S, l)
         /\ NewerRevisions(S, e) = NewerRevisions(S, l) \cup {l}
         /\ l \notin NewerRevisions(S, l) /\ l.revision > e.revision
<1>1. l.revision > e.revision
  BY EntryFields DEF Before, Newer
<1>2. \A x \in S : x.name = l.name /\ x.epoch = l.epoch /\ x.version = l.version =>
                     x = l \/ x.revision > l.revision
  BY EntryFields DEF Last, Before, Newer
<1>3. NewerRevisions(S, e) = NewerRevisions(S, l) \cup {l}
  BY <1>1, <1>2, EntryFields DEF NewerRevisions
<1>4. l \notin NewerRevisions(S, l)
  BY EntryFields DEF NewerRevisions
<1> QED BY <1>1, <1>3, <1>4 DEF NewerVersions

\* A count that exceeds a rule is a rule that is exceeded.
LEMMA ExceedsIsMore ==
  ASSUME NEW S, IsFiniteSet(S), NEW limit \in Nat \cup {Unlimited}
  PROVE  Exceeds(Cardinality(S) + 1, limit) <=> ~AtMost(S, limit)
  BY FS_CardinalityType DEF Exceeds, AtMost, Unlimited

LEMMA NoneNewer ==
  ASSUME NEW limit \in Nat \cup {Unlimited}
  PROVE  AtMost({}, limit)
  BY FS_EmptySet DEF AtMost, Unlimited

\* The pruner keeps what the rules retain, and remembers of the entries what it needs.
LEMMA PrunerSees ==
  ASSUME NEW S \in SUBSET Entries, NEW e \in Entries, \A x \in S : Before(x, e),
         NEW p \in PrunerRecord, rules \in RuleSets, ~Panics(p, e),
         IF S = {} THEN p.name = None ELSE \E l \in S : Last(S, l) /\ Remembers(p, S, l)
  PROVE  /\ Remembers(Seen(p, e), S, e)
         /\ LET r == RuleFor(rules, e.name)
            IN ~Prunes(p, e) <=> (r # None => /\ AtMost(NewerVersions(S, e), r.versions)
                                              /\ AtMost(NewerRevisions(S, e), r.revisions))
<1> DEFINE r == RuleFor(rules, e.name)
<1> DEFINE V == NewerVersions(S, e)
<1> DEFINE R == NewerRevisions(S, e)
<1>1. r \in Rules \cup {None} /\ None \notin Rules
  BY RuleForType, RulesAssumption
<1>2. /\ Seen(p, e).name = e.name /\ Seen(p, e).epoch = e.epoch
      /\ Seen(p, e).version = e.version /\ Seen(p, e).revision = e.revision
  BY DEF Seen
<1>3. CASE NewPackage(p, e)
  <2>1. \A x \in S : x.name # e.name
    <3>1. CASE S = {}
      BY <3>1
    <3>2. CASE S # {}
      <4>1. PICK l \in S : Last(S, l) /\ Remembers(p, S, l)
        BY <3>2
      <4>2. l.name # e.name
        BY <1>3, <4>1 DEF NewPackage, Remembers
      <4>3. l.name <= e.name /\ \A x \in S : x.name <= l.name
        BY <4>1, BeforeIsNewer, EntryFields DEF Last
      <4> QED BY <4>2, <4>3, EntryFields
    <3> QED BY <3>1, <3>2
  <2>2. V = {} /\ R = {}
    BY <2>1, NewerInNewPackage
  <2>3. Seen(p, e).versions = 1 /\ Seen(p, e).revisions = 1 /\ Seen(p, e).rule = r
    BY <1>3 DEF Seen
  <2>4. Remembers(Seen(p, e), S, e)
    BY <1>2, <2>2, <2>3, FS_EmptySet DEF Remembers
  <2>5. ~Prunes(p, e)
    BY <1>3 DEF Prunes, Counted
  <2>6. r # None => AtMost(V, r.versions) /\ AtMost(R, r.revisions)
    BY <1>1, <2>2, NoneNewer DEF Rules
  <2> QED BY <2>4, <2>5, <2>6
<1>4. CASE ~NewPackage(p, e)
  <2>1. PICK l \in S : Last(S, l) /\ Remembers(p, S, l)
    BY <1>4, EntryFields, RulesAssumption DEF NewPackage
  <2>2. /\ Before(l, e) /\ p.name = l.name /\ l.name = e.name /\ p.rule = r
        /\ p.epoch = l.epoch /\ p.version = l.version /\ p.revision = l.revision
    BY <1>4, <2>1 DEF NewPackage, Remembers
  <2>3. /\ IsFiniteSet(NewerVersions(S, l)) /\ p.versions = Cardinality(NewerVersions(S, l)) + 1
        /\ IsFiniteSet(NewerRevisions(S, l)) /\ p.revisions = Cardinality(NewerRevisions(S, l)) + 1
    BY <2>1 DEF Remembers
  <2>4. Seen(p, e).rule = r
    BY <1>4, <2>2 DEF Seen
  <2>5. /\ Counted(p, e)
        /\ IsFiniteSet(V) /\ Seen(p, e).versions = Cardinality(V) + 1
        /\ IsFiniteSet(R) /\ Seen(p, e).revisions = Cardinality(R) + 1
    <3>1. CASE NewVersion(p, e)
      <4>1. /\ V = NewerVersions(S, l) \cup {<<l.epoch, l.version>>}
            /\ <<l.epoch, l.version>> \notin NewerVersions(S, l) /\ R = {}
        BY <2>1, <2>2, <3>1, NewerInNewVersion DEF NewVersion
      <4>2. IsFiniteSet(V) /\ Cardinality(V) = p.versions
        BY <2>3, <4>1, FS_AddElement
      <4>3. Seen(p, e).versions = p.versions + 1 /\ Seen(p, e).revisions = 1
        BY <1>4, <3>1 DEF Seen
      <4>4. Counted(p, e)
        BY <1>4, <3>1 DEF Counted
      <4> QED BY <4>1, <4>2, <4>3, <4>4, FS_EmptySet
    <3>2. CASE ~NewVersion(p, e)
      <4>1. l.epoch = e.epoch /\ l.version = e.version
        BY <2>2, <3>2 DEF NewVersion
      <4>2. /\ V = NewerVersions(S, l) /\ R = NewerRevisions(S, l) \cup {l}
            /\ l \notin NewerRevisions(S, l) /\ l.revision > e.revision
        BY <2>1, <2>2, <4>1, NewerInNewRevision
      <4>3. NewRevision(p, e)
        BY <2>2, <4>2, EntryFields DEF NewRevision
      <4>4. IsFiniteSet(R) /\ Cardinality(R) = p.revisions
        BY <2>3, <4>2, FS_AddElement
      <4>5. Seen(p, e).versions = p.versions /\ Seen(p, e).revisions = p.revisions + 1
        BY <1>4, <3>2, <4>3 DEF Seen
      <4>6. Counted(p, e)
        BY <1>4, <4>3 DEF Counted
      <4> QED BY <2>3, <4>2, <4>4, <4>5, <4>6
    <3> QED BY <3>1, <3>2
  <2>6. Remembers(Seen(p, e), S, e)
    BY <1>2, <2>4, <2>5 DEF Remembers
  <2>7. r \in Rules
    BY <1>1, <2>2, <2>5 DEF Panics
  <2>8. /\ r.versions \in Nat \cup {Unlimited} /\ r.revisions \in Nat \cup {Unlimited}
    BY <2>7 DEF Rules
  <2>9. /\ Exceeds(Cardinality(V) + 1, r.versions) <=> ~AtMost(V, r.versions)
        /\ Exceeds(Cardinality(R) + 1, r.revisions) <=> ~AtMost(R, r.revisions)
    BY <2>5, <2>8, ExceedsIsMore
  <2>10. Prunes(p, e) <=> ~(AtMost(V, r.versions) /\ AtMost(R, r.revisions))
    BY <2>2, <2>5, <2>9 DEF Prunes
  <2> QED BY <1>1, <2>6, <2>7, <2>10
<1> QED BY <1>3, <1>4

\* What a turn of the loop does: it gives the pruner an entry that comes after all before it.
LEMMA TurnPlaces ==
  ASSUME MergeInv, PlaceOld \/ PlaceSame \/ PlaceNew
  PROVE  \E kept, pruned, e :
           /\ e \in Entries /\ Place(e, kept, pruned)
           /\ \A x \in Placed : Before(x, e)
           /\ Placed' = Placed \cup {e}
<1>1. pc = "merge" /\ UNCHANGED <<index, uploaded>>
  BY DEF PlaceOld, PlaceSame, PlaceNew
<1>2. CASE PlaceOld \/ PlaceSame
  <2> DEFINE e == Head(left)
  <2>1. /\ Reading /\ left # <<>> /\ left' = Tail(left)
        /\ \/ right' = right /\ (right # <<>> => Before(e, right[1])) /\ Place(e, None, "prune")
           \/ right # <<>> /\ right' = <<>> /\ e = right[1] /\ Place(e, "skippresent", "skipprune")
    BY <1>2 DEF PlaceOld, PlaceSame, Reading
  <2>2. right # <<>> => right[1] = uploaded
    BY <1>1 DEF MergeInv, PlaceInv
  <2>3. /\ e \in Entries /\ Items(left) = {e} \cup Items(left)'
        /\ \A x \in Items(left)' : Before(e, x)
    BY <1>1, <2>1, MergeTypes, ItemsOfTail, SortedTail DEF MergeInv, PlaceInv
  <2> HIDE DEF e
  <2>4. e \in Items(index) /\ e \notin Items(left)' /\ \A x \in Placed : Before(x, e)
    BY <1>1, <2>1, <2>3, MergeTypes, BeforeIsStrict DEF MergeInv, PlaceInv
  <2>5. Placed' = Placed \cup {e}
    BY <1>1, <2>1, <2>2, <2>3, <2>4 DEF Placed
  <2> QED BY <2>1, <2>3, <2>4, <2>5
<1>3. CASE PlaceNew
  <2>1. /\ right # <<>> /\ right' = <<>> /\ left' = left /\ Place(right[1], "add", "prune")
        /\ right[1] = uploaded /\ uploaded \in Entries /\ \A x \in Placed : Before(x, uploaded)
    BY <1>1, <1>3 DEF PlaceNew, MergeInv, PlaceInv
  <2>2. Placed' = Placed \cup {uploaded}
    BY <1>1, <2>1 DEF Placed
  <2> QED BY <2>1, <2>2
<1> QED BY <1>2, <1>3

LEMMA PrunerTurn ==
  ASSUME MergeInv, PrunerInv, PlaceOld \/ PlaceSame \/ PlaceNew
  PROVE  PrunerInv'
<1>1. pc = "merge" /\ rules' = rules
  BY DEF PlaceOld, PlaceSame, PlaceNew
<1>2. PICK kept, pruned, e :
        /\ e \in Entries /\ Place(e, kept, pruned)
        /\ \A x \in Placed : Before(x, e)
        /\ Placed' = Placed \cup {e}
  BY TurnPlaces
<1>3. CASE Panics(pruner, e)
  BY <1>2, <1>3 DEF Place, PrunerInv
<1>4. CASE ~Panics(pruner, e)
  <2>1. /\ pruner' = Seen(pruner, e)
        /\ IF Prunes(pruner, e) THEN UNCHANGED <<merged, dropped>> ELSE AddEntry(e)
    BY <1>2, <1>4 DEF Place
  <2>2. /\ Placed \in SUBSET Entries /\ pruner \in PrunerRecord /\ rules \in RuleSets
        /\ merged \in Seq(Entries) /\ Sorted(merged) /\ e \notin Placed /\ dropped \subseteq Placed
        /\ Items(merged) \subseteq Placed /\ Items(merged) \cap dropped = {}
    BY <1>1, <1>2, MergeTypes, MergedIsPlaced, BeforeIsStrict DEF MergeInv, PlaceInv
  <2>3. /\ Items(merged) = Retained(Placed) \ dropped
        /\ IF Placed = {} THEN pruner.name = None
           ELSE \E l \in Placed : Last(Placed, l) /\ Remembers(pruner, Placed, l)
    BY <1>1 DEF PrunerInv
  <2>4. /\ Remembers(Seen(pruner, e), Placed, e)
        /\ LET r == RuleFor(rules, e.name)
           IN ~Prunes(pruner, e) <=>
                (r # None => /\ AtMost(NewerVersions(Placed, e), r.versions)
                             /\ AtMost(NewerRevisions(Placed, e), r.revisions))
    BY <1>2, <1>4, <2>2, <2>3, PrunerSees
  <2>5. Retained(Placed)' = Retained(Placed \cup {e})
    BY <1>1, <1>2 DEF Retained, RuleFor, Matching
  <2>6. /\ Items(merged)' = (Items(merged) \cup (IF Prunes(pruner, e) THEN {} ELSE {e})) \ dropped'
        /\ dropped \subseteq dropped' /\ dropped' \subseteq dropped \cup {e}
    BY <1>2, <2>1, <2>2, Written
  <2>7. Items(merged)' = Retained(Placed)' \ dropped'
    BY <1>2, <2>2, <2>3, <2>4, <2>5, <2>6, RetainedOfMore
  <2>8. Last(Placed', e) /\ Placed' # {}
    BY <1>2 DEF Last
  <2>9. /\ NewerVersions(Placed', e) = NewerVersions(Placed, e)
        /\ NewerRevisions(Placed', e) = NewerRevisions(Placed, e)
    BY <1>2, <2>2, NewerOfMore
  <2>10. Remembers(pruner, Placed, e)'
    BY <1>1, <2>1, <2>4, <2>9 DEF Remembers, RuleFor, Matching
  <2> QED BY <1>2, <2>7, <2>8, <2>10 DEF PrunerInv, Last
<1> QED BY <1>3, <1>4

LEMMA PrunerInit == Init => PrunerInv
  BY DEF Init, PrunerInv

LEMMA PrunerNext == MergeInv /\ PrunerInv /\ [Next]_vars => PrunerInv'
<1> SUFFICES ASSUME MergeInv, PrunerInv, [Next]_vars PROVE PrunerInv'
  OBVIOUS
<1>1. ASSUME NEW e \in Entries, Upload(e) PROVE PrunerInv'
  <2>1. Placed' = {} /\ pruner'.name = None /\ Items(merged)' = {}
    BY <1>1, ItemsOfEmpty DEF Upload, Placed, FreshPruner
  <2>2. Retained(Placed)' = {}
    BY <2>1 DEF Retained
  <2> QED BY <2>1, <2>2 DEF PrunerInv
<1>2. CASE PlaceOld \/ PlaceSame \/ PlaceNew
  BY <1>2, PrunerTurn
<1>3. CASE Finish \/ \E rs \in RuleSets : SetRules(rs)
  BY <1>3 DEF Finish, SetRules, PrunerInv
<1>4. CASE UNCHANGED vars
  <2>1. UNCHANGED <<index, rules, pc, uploaded, left, right, merged, pruner, actions,
              err, dropped>>
    BY <1>4 DEF vars, mergeVars
  <2>2. Placed' = Placed /\ Retained(Placed)' = Retained(Placed) /\ Items(merged)' = Items(merged)
    BY <2>1 DEF Placed, Retained, RuleFor, Matching, Items
  <2>3. \A l : Remembers(pruner, Placed, l)' <=> Remembers(pruner, Placed, l)
    BY <2>1, <2>2 DEF Remembers, RuleFor, Matching
  <2> QED BY <2>1, <2>2, <2>3 DEF PrunerInv, Last
<1> QED BY <1>1, <1>2, <1>3, <1>4 DEF Next

\* The pruner remembers enough, for any entries and any rules.
THEOREM PrunerInvariant == Spec => [](MergeInv /\ PrunerInv)
<1> QED BY InitMerge, NextMerge, PrunerInit, PrunerNext, PTL DEF Spec

\* A release's index has just what its rules retain of what was read of the index before it
\* and the upload, but for entries that could not be written.
THEOREM MergeIsByRule == Spec => []MergesByRule
<1>1. MergeInv /\ PrunerInv => MergesByRule
  BY DEF PrunerInv, MergesByRule, Merged, Placed, Given
<1> QED BY <1>1, PrunerInvariant, PTL

------------------------------------------------------------------------------
(***************************************************************************)
(* The items of a string.  Induction is over a set of counterexamples,     *)
(* which has a least element.                                              *)
(***************************************************************************)
Strings == Seq(Characters)

LEMMA LeastNat ==
  ASSUME NEW T \in SUBSET Nat, T # {}
  PROVE  \E n \in T : \A m \in T : n <= m
<1>1. PICK R : R = OpToRel(<, Nat)
  OBVIOUS
<1>2. \A x, y \in Nat : <<x, y>> \in R <=> x < y
  BY <1>1 DEF OpToRel
<1>3. IsWellFoundedOn(R, Nat)
  BY <1>1, NatLessThanWellFounded
<1>4. PICK n \in T : \A m \in T : <<m, n>> \notin R
  BY <1>3, WFMin
<1>5. \A m \in T : ~(m < n)
  BY <1>2, <1>4
<1> QED
  BY <1>5

LEMMA CharacterAt ==
  ASSUME NEW x \in Strings, NEW k \in 1..Len(x)
  PROVE  x[k] \in 1..255
<1>1. PICK n \in Nat : x \in [1..n -> Characters]
  BY DEF Strings
<1>2. x[k] \in Characters
  BY <1>1 DEF Strings
<1> QED
  BY <1>2 DEF Characters

LEMMA EndsFinite ==
  ASSUME NEW x \in Strings, NEW k \in Int
  PROVE  /\ IsFiniteSet(Ends(x) \cap (1..k))
         /\ Ended(x, k) \in Nat
<1>1. IsFiniteSet(1..k)
  BY FS_Interval
<1>2. IsFiniteSet(Ends(x) \cap (1..k))
  BY <1>1, FS_Subset
<1> QED
  BY <1>2, FS_CardinalityType DEF Ended

LEMMA EndedStep ==
  ASSUME NEW x \in Strings, NEW k \in Nat \ {0}
  PROVE  Ended(x, k) = IF k \in Ends(x) THEN Ended(x, k - 1) + 1 ELSE Ended(x, k - 1)
<1>1. k - 1 \in Int
  OBVIOUS
<1>2. IsFiniteSet(Ends(x) \cap (1..(k - 1)))
  BY <1>1, EndsFinite
<1>3. k \notin Ends(x) \cap (1..(k - 1))
  OBVIOUS
<1>4. CASE k \in Ends(x)
  <2>1. Ends(x) \cap (1..k) = (Ends(x) \cap (1..(k - 1))) \cup {k}
    BY <1>4
  <2> QED
    BY <1>2, <1>3, <1>4, <2>1, FS_AddElement DEF Ended
<1>5. CASE k \notin Ends(x)
  <2>1. Ends(x) \cap (1..k) = Ends(x) \cap (1..(k - 1))
    BY <1>5
  <2> QED
    BY <1>5, <2>1 DEF Ended
<1> QED
  BY <1>4, <1>5

LEMMA EndedGrows ==
  ASSUME NEW x \in Strings, NEW k \in Int, NEW l \in Int, k <= l
  PROVE  Ended(x, k) <= Ended(x, l)
<1>1. Ends(x) \cap (1..k) \in SUBSET (Ends(x) \cap (1..l))
  OBVIOUS
<1>2. IsFiniteSet(Ends(x) \cap (1..l))
  BY EndsFinite
<1> QED
  BY <1>1, <1>2, FS_Subset DEF Ended

LEMMA EndedSame ==
  ASSUME NEW x \in Strings, NEW k \in Int, NEW l \in Int, k <= l,
         \A e \in Ends(x) : e <= k \/ e > l
  PROVE  Ended(x, k) = Ended(x, l)
<1>1. Ends(x) \subseteq Int
  BY DEF Ends
<1>2. Ends(x) \cap (1..k) = Ends(x) \cap (1..l)
  BY <1>1
<1> QED
  BY <1>2 DEF Ended

LEMMA ItemAt ==
  ASSUME NEW x \in Strings, NEW k \in Ends(x)
  PROVE  /\ Ended(x, k) \in Nat \ {0}
         /\ Item(x, Ended(x, k)) = Key(x[k], Number(x, k))
<1>1. Ends(x) \subseteq Nat \ {0}
  BY DEF Ends
<1>2. \A l \in Ends(x) : /\ l \in Int /\ l - 1 \in Int
                         /\ Ended(x, l) \in Nat /\ Ended(x, l - 1) \in Nat
                         /\ Ended(x, l) = Ended(x, l - 1) + 1
  <2> SUFFICES ASSUME NEW l \in Ends(x)
               PROVE  /\ l \in Int /\ l - 1 \in Int
                      /\ Ended(x, l) \in Nat /\ Ended(x, l - 1) \in Nat
                      /\ Ended(x, l) = Ended(x, l - 1) + 1
    OBVIOUS
  <2>1. l \in Int /\ l - 1 \in Int /\ l \in Nat \ {0}
    BY <1>1
  <2>2. Ended(x, l) = Ended(x, l - 1) + 1
    BY <2>1, EndedStep
  <2>3. Ended(x, l) \in Nat /\ Ended(x, l - 1) \in Nat
    BY <2>1, EndsFinite
  <2> QED
    BY <2>1, <2>2, <2>3
<1>3. \A l, m \in Ends(x) : l < m => Ended(x, l) < Ended(x, m)
  <2> SUFFICES ASSUME NEW l \in Ends(x), NEW m \in Ends(x), l < m
               PROVE  Ended(x, l) < Ended(x, m)
    OBVIOUS
  <2>1. l \in Int /\ m - 1 \in Int /\ l <= m - 1
    BY <1>1
  <2>2. Ended(x, l) <= Ended(x, m - 1)
    BY <2>1, EndedGrows
  <2> QED
    BY <1>2, <2>2
<1>4. \A l \in Ends(x) : Ended(x, l) = Ended(x, k) => l = k
  BY <1>1, <1>2, <1>3
<1> QED
  BY <1>2, <1>4 DEF Item

LEMMA ItemBeyond ==
  ASSUME NEW x \in Strings, NEW n \in Nat, n > Ended(x, Len(x))
  PROVE  Item(x, n) = NoItem
<1>1. Len(x) \in Nat
  BY DEF Strings
<1>2. \A k \in Ends(x) : k \in Int /\ k <= Len(x)
  BY <1>1 DEF Ends
<1>3. \A k \in Ends(x) : Ended(x, k) <= Ended(x, Len(x)) /\ Ended(x, k) \in Nat
  <2> SUFFICES ASSUME NEW k \in Ends(x)
               PROVE  Ended(x, k) <= Ended(x, Len(x)) /\ Ended(x, k) \in Nat
    OBVIOUS
  <2>1. k \in Int /\ Len(x) \in Int /\ k <= Len(x)
    BY <1>1, <1>2
  <2> QED
    BY <2>1, EndedGrows, EndsFinite
<1>4. Ended(x, Len(x)) \in Nat
  <2>1. \A k \in Int : Ended(x, k) \in Nat
    BY EndsFinite
  <2> QED
    BY <1>1, <2>1
<1>5. ~ \E k \in Ends(x) : Ended(x, k) = n
  BY <1>3, <1>4
<1> QED
  BY <1>5 DEF Item

LEMMA EndedBound ==
  ASSUME NEW x \in Strings
  PROVE  Len(x) \in Nat /\ Ended(x, Len(x)) \in 0..Len(x)
<1>1. Len(x) \in Nat
  BY DEF Strings
<1>2. Ends(x) \cap (1..Len(x)) \in SUBSET (1..Len(x))
  OBVIOUS
<1>3. IsFiniteSet(1..Len(x)) /\ Cardinality(1..Len(x)) = Len(x)
  <2>1. \A n \in Nat : IsFiniteSet(1..n) /\ Cardinality(1..n) = n
    <3>1. \A n \in Nat : n \in Int /\ ~(1 > n + 1) /\ (IF 1 > n THEN 0 ELSE n - 1 + 1) = n
      OBVIOUS
    <3> QED
      BY <3>1, FS_Interval
  <2> QED
    BY <1>1, <2>1
<1>4. Ended(x, Len(x)) <= Len(x)
  BY <1>2, <1>3, FS_Subset DEF Ended
<1>5. Ended(x, Len(x)) \in Nat
  <2>1. \A k \in Int : Ended(x, k) \in Nat
    BY EndsFinite
  <2> QED
    BY <1>1, <2>1
<1> QED
  BY <1>1, <1>4, <1>5

\* A digit more.
LEMMA DigitValue ==
  ASSUME NEW v \in Nat, NEW c \in 1..255
  PROVE  (IF IsDigit(c) THEN 10 * v + (c - Zero) ELSE 0) \in Nat
BY DEF IsDigit, Zero

\* The numbers' recursion, which holds because a function up to every place exists.
LEMMA NumberAt ==
  ASSUME NEW x \in Strings
  PROVE  /\ Number(x, 0) = 0
         /\ \A k \in 1..Len(x) :
              Number(x, k) = IF IsDigit(x[k]) THEN 10 * Number(x, k - 1) + (x[k] - Zero) ELSE 0
         /\ \A k \in 0..Len(x) : Number(x, k) \in Nat
<1> DEFINE Step(f, l) == IF l = 0 THEN 0
                         ELSE IF IsDigit(x[l]) THEN 10 * f[l - 1] + (x[l] - Zero) ELSE 0
           Upto(f, n) == f \in [0..n -> Nat] /\ \A l \in 0..n : f[l] = Step(f, l)
           Fails == {n \in 0..Len(x) : ~ \E f : Upto(f, n)}
<1>1. Len(x) \in Nat /\ \A l \in 1..Len(x) : x[l] \in 1..255
  BY CharacterAt DEF Strings
<1>2. Fails = {}
  <2> SUFFICES ASSUME Fails # {}
               PROVE  FALSE
    OBVIOUS
  <2>1. PICK n \in Fails : \A m \in Fails : n <= m
    <3>1. Fails \in SUBSET Nat
      BY <1>1
    <3> HIDE DEF Fails
    <3> QED
      BY <3>1, LeastNat
  <2>2. n \in Nat /\ n <= Len(x) /\ ~ \E f : Upto(f, n)
    BY <1>1
  <2>3. CASE n = 0
    <3> DEFINE f == [l \in 0..0 |-> 0]
    <3>1. Upto(f, 0)
      OBVIOUS
    <3> QED
      BY <2>2, <2>3, <3>1
  <2>4. CASE n # 0
    <3>1. n - 1 \in 0..Len(x) /\ n - 1 \notin Fails
      <4>1. n - 1 \in 0..Len(x) /\ ~(n <= n - 1)
        BY <1>1, <2>2, <2>4
      <4> HIDE DEF Fails
      <4> QED
        BY <2>1, <4>1
    <3>2. PICK f : Upto(f, n - 1)
      BY <3>1
    <3> DEFINE g == [l \in 0..n |-> IF l = n THEN Step(f, n) ELSE f[l]]
    <3>3. \A l \in 0..n : l # n => l \in 0..(n - 1)
      BY <2>2
    <3>4. Step(f, n) \in Nat
      <4>1. f[n - 1] \in Nat
        BY <2>2, <2>4, <3>2
      <4>2. x[n] \in 1..255
        BY <1>1, <2>2, <2>4
      <4> QED
        BY <2>4, <4>1, <4>2, DigitValue
    <3>5. g \in [0..n -> Nat]
      BY <3>2, <3>3, <3>4
    <3>6. \A l \in 0..n : g[l] = Step(g, l)
      <4> SUFFICES ASSUME NEW l \in 0..n
                   PROVE  g[l] = Step(g, l)
        OBVIOUS
      <4>1. l # 0 => l - 1 \in 0..(n - 1) /\ l - 1 \in 0..n /\ l - 1 # n
        BY <2>2
      <4>2. l # 0 => g[l - 1] = f[l - 1]
        BY <4>1
      <4>3. Step(g, l) = Step(f, l)
        BY <4>2
      <4>4. l # n => f[l] = Step(f, l)
        BY <3>2, <3>3
      <4> QED
        BY <4>3, <4>4
    <3>7. Upto(g, n)
      BY <3>5, <3>6
    <3> QED
      BY <2>2, <3>7
  <2> QED
    BY <2>3, <2>4
<1>3. PICK f : Upto(f, Len(x))
  BY <1>1, <1>2
<1> DEFINE Whole(h) == [l \in 0..Len(x) |-> IF l = 0 THEN 0
                          ELSE IF IsDigit(x[l]) THEN 10 * h[l - 1] + (x[l] - Zero) ELSE 0]
           number == CHOOSE h : h = Whole(h)
<1>4. f = Whole(f)
  BY <1>3
<1>5. number = Whole(number)
  BY <1>4
<1>6. \A k : Number(x, k) = number[k]
  BY DEF Number
<1> HIDE DEF number
<1>7. \A k \in 0..Len(x) : number[k] = Step(number, k)
  BY <1>5
<1>8. /\ number[0] = 0
      /\ \A k \in 1..Len(x) :
           number[k] = IF IsDigit(x[k]) THEN 10 * number[k - 1] + (x[k] - Zero) ELSE 0
  BY <1>1, <1>7
<1>9. \A k \in 0..Len(x) : number[k] \in Nat
  <2> DEFINE Odd == {k \in 0..Len(x) : number[k] \notin Nat}
  <2> SUFFICES ASSUME Odd # {}
               PROVE  FALSE
    OBVIOUS
  <2>1. PICK k \in Odd : \A m \in Odd : k <= m
    <3>1. Odd \in SUBSET Nat
      BY <1>1
    <3> HIDE DEF Odd
    <3> QED
      BY <3>1, LeastNat
  <2>2. k \in 1..Len(x) /\ k - 1 \in 0..Len(x) /\ k - 1 \notin Odd
    BY <1>1, <1>8, <2>1
  <2>3. x[k] \in 1..255 /\ number[k - 1] \in Nat
    BY <1>1, <2>2
  <2>4. number[k] \in Nat
    BY <1>8, <2>2, <2>3, DigitValue
  <2> QED
    BY <2>4
<1> QED
  BY <1>6, <1>8, <1>9

------------------------------------------------------------------------------
(***************************************************************************)
(* The order of strings is the order of the first items in which they      *)
(* differ.  It is total and transitive.                                    *)
(***************************************************************************)
LEMMA KeyType ==
  ASSUME NEW c \in 1..255, NEW v \in Nat
  PROVE  Key(c, v) \in Int \X Int
BY DEF Key, Tilde

LEMMA ItemType ==
  ASSUME NEW x \in Strings, NEW n
  PROVE  Item(x, n) \in Int \X Int
<1>1. CASE \E k \in Ends(x) : Ended(x, k) = n
  <2> DEFINE k == CHOOSE k \in Ends(x) : Ended(x, k) = n
  <2>1. k \in Ends(x)
    BY <1>1
  <2>2. Item(x, n) = Key(x[k], Number(x, k))
    BY <1>1 DEF Item
  <2> HIDE DEF k
  <2>3. k \in 1..Len(x) /\ k \in 0..Len(x)
    BY <2>1 DEF Ends, Strings
  <2>4. x[k] \in 1..255 /\ Number(x, k) \in Nat
    BY <2>3, CharacterAt, NumberAt
  <2> QED
    BY <2>2, <2>4, KeyType
<1>2. CASE ~ \E k \in Ends(x) : Ended(x, k) = n
  BY <1>2 DEF Item, NoItem
<1> QED
  BY <1>1, <1>2

\* Beyond the ends of both strings there is nothing different.
LEMMA DifferentItems ==
  ASSUME NEW x \in Strings, NEW y \in Strings
  PROVE  /\ Different(x, y) = {n \in Nat \ {0} : Item(x, n) # Item(y, n)}
         /\ Different(x, y) \in SUBSET Nat
<1>1. /\ Len(x) \in Nat /\ Ended(x, Len(x)) \in 0..Len(x)
      /\ Len(y) \in Nat /\ Ended(y, Len(y)) \in 0..Len(y)
  BY EndedBound
<1>2. ASSUME NEW n \in Nat, n > Len(x) + Len(y)
      PROVE  Item(x, n) = Item(y, n)
  <2>1. n > Ended(x, Len(x)) /\ n > Ended(y, Len(y))
    BY <1>1, <1>2
  <2> QED
    BY <2>1, ItemBeyond
<1>3. \A n \in Nat \ {0} : n \in 1..Len(x) + Len(y) \/ n > Len(x) + Len(y)
  BY <1>1
<1>4. \A n \in 1..Len(x) + Len(y) : n \in Nat \ {0}
  BY <1>1
<1> QED
  BY <1>2, <1>3, <1>4 DEF Different

\* The first item in which two strings differ orders them.
LEMMA FirstDifference ==
  ASSUME NEW x \in Strings, NEW y \in Strings, NEW m \in Nat,
         Agree(x, y, m), Item(x, m + 1) # Item(y, m + 1)
  PROVE  StringOrder(x, y) = IF Precedes(Item(x, m + 1), Item(y, m + 1)) THEN -1 ELSE 1
<1>1. m + 1 \in Different(x, y)
  BY DifferentItems
<1>2. \A n \in Different(x, y) : n \in Nat /\ m + 1 <= n
  <2> SUFFICES ASSUME NEW n \in Different(x, y)
               PROVE  n \in Nat /\ m + 1 <= n
    OBVIOUS
  <2>1. n \in Nat \ {0} /\ Item(x, n) # Item(y, n)
    BY DifferentItems
  <2>2. n \notin 1..m
    BY <2>1 DEF Agree
  <2> QED
    BY <2>1, <2>2
<1> DEFINE n == CHOOSE n \in Different(x, y) : \A k \in Different(x, y) : n <= k
<1>3. n \in Different(x, y) /\ \A k \in Different(x, y) : n <= k
  BY <1>1, <1>2
<1>4. StringOrder(x, y) = IF Precedes(Item(x, n), Item(y, n)) THEN -1 ELSE 1
  BY <1>1 DEF StringOrder
<1> HIDE DEF n
<1>5. n = m + 1
  BY <1>1, <1>2, <1>3
<1> QED
  BY <1>4, <1>5

LEMMA NoDifference ==
  ASSUME NEW x \in Strings, NEW y \in Strings, \A n \in Nat \ {0} : Item(x, n) = Item(y, n)
  PROVE  StringOrder(x, y) = 0
<1>1. Different(x, y) = {}
  BY DifferentItems
<1> QED
  BY <1>1 DEF StringOrder

\* Two strings have the same items, or there is a first difference.
LEMMA Differences ==
  ASSUME NEW x \in Strings, NEW y \in Strings
  PROVE  \/ StringOrder(x, y) = 0 /\ \A n \in Nat \ {0} : Item(x, n) = Item(y, n)
         \/ \E m \in Nat : /\ Agree(x, y, m) /\ Item(x, m + 1) # Item(y, m + 1)
                           /\ StringOrder(x, y) =
                                IF Precedes(Item(x, m + 1), Item(y, m + 1)) THEN -1 ELSE 1
<1>1. CASE Different(x, y) = {}
  BY <1>1, DifferentItems, NoDifference
<1>2. CASE Different(x, y) # {}
  <2>1. PICK n \in Different(x, y) : \A m \in Different(x, y) : n <= m
    BY <1>2, DifferentItems, LeastNat
  <2>2. n \in Nat \ {0} /\ Item(x, n) # Item(y, n)
    BY DifferentItems
  <2>3. PICK m \in Nat : n = m + 1
    <3>1. n - 1 \in Nat /\ n = (n - 1) + 1
      BY <2>2
    <3> QED
      BY <3>1
  <2>4. Agree(x, y, m)
    <3> SUFFICES ASSUME NEW k \in 1..m
                 PROVE  Item(x, k) = Item(y, k)
      BY DEF Agree
    <3>1. k \in Nat \ {0} /\ ~(n <= k)
      BY <2>3
    <3>2. k \notin Different(x, y)
      BY <2>1, <3>1
    <3> QED
      BY <3>1, <3>2, DifferentItems
  <2> QED
    BY <2>2, <2>3, <2>4, FirstDifference
<1> QED
  BY <1>1, <1>2

LEMMA PrecedesTotal ==
  ASSUME NEW k \in Int \X Int, NEW l \in Int \X Int
  PROVE  /\ Precedes(k, l) => ~Precedes(l, k) /\ k # l
         /\ k # l => Precedes(k, l) \/ Precedes(l, k)
BY DEF Precedes

LEMMA PrecedesTransitive ==
  ASSUME NEW k \in Int \X Int, NEW l \in Int \X Int, NEW m \in Int \X Int,
         Precedes(k, l), Precedes(l, m)
  PROVE  Precedes(k, m)
BY DEF Precedes

LEMMA StringOrderValues ==
  ASSUME NEW x \in Strings, NEW y \in Strings
  PROVE  /\ StringOrder(x, y) \in {-1, 0, 1}
         /\ StringOrder(x, y) = 0 <=> \A n \in Nat \ {0} : Item(x, n) = Item(y, n)
<1>1. \A m \in Nat : m + 1 \in Nat \ {0}
  OBVIOUS
<1> QED
  BY <1>1, Differences

LEMMA StringOrderConverse ==
  ASSUME NEW x \in Strings, NEW y \in Strings
  PROVE  StringOrder(y, x) = -StringOrder(x, y)
<1>1. CASE StringOrder(x, y) = 0 /\ \A n \in Nat \ {0} : Item(x, n) = Item(y, n)
  BY <1>1, NoDifference
<1>2. CASE \E m \in Nat : /\ Agree(x, y, m) /\ Item(x, m + 1) # Item(y, m + 1)
                          /\ StringOrder(x, y) =
                               IF Precedes(Item(x, m + 1), Item(y, m + 1)) THEN -1 ELSE 1
  <2>1. PICK m \in Nat : /\ Agree(x, y, m) /\ Item(x, m + 1) # Item(y, m + 1)
                         /\ StringOrder(x, y) =
                              IF Precedes(Item(x, m + 1), Item(y, m + 1)) THEN -1 ELSE 1
    BY <1>2
  <2>2. Agree(y, x, m)
    BY <2>1 DEF Agree
  <2>3. StringOrder(y, x) = IF Precedes(Item(y, m + 1), Item(x, m + 1)) THEN -1 ELSE 1
    BY <2>1, <2>2, FirstDifference
  <2>4. Precedes(Item(y, m + 1), Item(x, m + 1)) <=> ~Precedes(Item(x, m + 1), Item(y, m + 1))
    BY <2>1, ItemType, PrecedesTotal
  <2> QED
    BY <2>1, <2>3, <2>4
<1> QED
  BY <1>1, <1>2, Differences

LEMMA StringOrderTransitive ==
  ASSUME NEW x \in Strings, NEW y \in Strings, NEW z \in Strings,
         StringOrder(x, y) <= 0, StringOrder(y, z) <= 0
  PROVE  /\ StringOrder(x, z) <= 0
         /\ StringOrder(x, z) = 0 <=> StringOrder(x, y) = 0 /\ StringOrder(y, z) = 0
<1>0. \A m \in Nat : m + 1 \in Nat \ {0}
  OBVIOUS
<1>1. CASE StringOrder(x, y) = 0 /\ StringOrder(y, z) = 0
  BY <1>1, StringOrderValues
<1>2. ASSUME NEW m \in Nat, Agree(x, z, m), Precedes(Item(x, m + 1), Item(z, m + 1))
      PROVE  StringOrder(x, z) = -1
  <2>1. Item(x, m + 1) # Item(z, m + 1)
    BY <1>2, ItemType, PrecedesTotal
  <2> QED
    BY <1>2, <2>1, FirstDifference
<1>3. ASSUME NEW u \in Strings, NEW v \in Strings, StringOrder(u, v) <= 0, StringOrder(u, v) # 0
      PROVE  \E m \in Nat : Agree(u, v, m) /\ Precedes(Item(u, m + 1), Item(v, m + 1))
  BY <1>3, Differences
<1>4. ASSUME StringOrder(x, y) = 0, StringOrder(y, z) # 0
      PROVE  StringOrder(x, z) = -1
  <2>1. PICK m \in Nat : Agree(y, z, m) /\ Precedes(Item(y, m + 1), Item(z, m + 1))
    BY <1>3, <1>4
  <2>2. \A n \in Nat \ {0} : Item(x, n) = Item(y, n)
    BY <1>4, StringOrderValues
  <2>3. Agree(x, z, m)
    BY <2>1, <2>2 DEF Agree
  <2> QED
    BY <1>0, <1>2, <2>1, <2>2, <2>3
<1>5. ASSUME StringOrder(x, y) # 0, StringOrder(y, z) = 0
      PROVE  StringOrder(x, z) = -1
  <2>1. PICK m \in Nat : Agree(x, y, m) /\ Precedes(Item(x, m + 1), Item(y, m + 1))
    BY <1>3, <1>5
  <2>2. \A n \in Nat \ {0} : Item(y, n) = Item(z, n)
    BY <1>5, StringOrderValues
  <2>3. Agree(x, z, m)
    BY <2>1, <2>2 DEF Agree
  <2> QED
    BY <1>0, <1>2, <2>1, <2>2, <2>3
<1>6. ASSUME StringOrder(x, y) # 0, StringOrder(y, z) # 0
      PROVE  StringOrder(x, z) = -1
  <2>1. PICK m \in Nat : Agree(x, y, m) /\ Precedes(Item(x, m + 1), Item(y, m + 1))
    BY <1>3, <1>6
  <2>2. PICK n \in Nat : Agree(y, z, n) /\ Precedes(Item(y, n + 1), Item(z, n + 1))
    BY <1>3, <1>6
  <2>3. CASE m < n
    <3>1. m + 1 \in 1..n /\ \A k \in 1..m : k \in 1..n
      BY <2>3
    <3>2. Agree(x, z, m) /\ Item(y, m + 1) = Item(z, m + 1)
      BY <2>1, <2>2, <3>1 DEF Agree
    <3> QED
      BY <1>2, <2>1, <3>2
  <2>4. CASE n < m
    <3>1. n + 1 \in 1..m /\ \A k \in 1..n : k \in 1..m
      BY <2>4
    <3>2. Agree(x, z, n) /\ Item(x, n + 1) = Item(y, n + 1)
      BY <2>1, <2>2, <3>1 DEF Agree
    <3> QED
      BY <1>2, <2>2, <3>2
  <2>5. CASE m = n
    <3>1. Agree(x, z, m)
      BY <2>1, <2>2, <2>5 DEF Agree
    <3>2. Precedes(Item(x, m + 1), Item(z, m + 1))
      BY <2>1, <2>2, <2>5, ItemType, PrecedesTransitive
    <3> QED
      BY <1>2, <3>1, <3>2
  <2> QED
    BY <2>3, <2>4, <2>5
<1> QED
  BY <1>1, <1>4, <1>5, <1>6

------------------------------------------------------------------------------
(***************************************************************************)
(* Where a string has been read up to: what the next item is, and what the *)
(* digits read so far say of it.                                           *)
(***************************************************************************)
LEMMA AtStart ==
  ASSUME NEW x \in Strings
  PROVE  At(x, 1, 0)
<1>1. Len(x) \in Nat
  BY DEF Strings
<1>2. Ends(x) \cap (1..0) = {}
  OBVIOUS
<1>3. Ended(x, 0) = 0
  BY <1>2, FS_EmptySet DEF Ended
<1>4. CASE Len(x) = 0
  BY <1>3, <1>4 DEF At
<1>5. CASE Len(x) # 0
  BY <1>1, <1>3, <1>5 DEF At
<1> QED
  BY <1>4, <1>5

LEMMA AtPlace ==
  ASSUME NEW x \in Strings, NEW m \in Nat, NEW i, At(x, i, m)
  PROVE  /\ Len(x) \in Nat /\ i \in 1..(Len(x) + 1)
         /\ i <= Len(x) => i \in 1..Len(x) /\ Ended(x, i - 1) = m
         /\ i <= Len(x) /\ i > 1 => i - 1 \in Ends(x) /\ i - 1 \in 1..Len(x)
         /\ ~(i <= Len(x)) => i = Len(x) + 1 /\ Ended(x, Len(x)) <= m
<1>1. Len(x) \in Nat
  BY DEF Strings
<1> QED
  BY <1>1 DEF At

LEMMA ExhaustedItem ==
  ASSUME NEW x \in Strings, NEW m \in Nat, NEW i, At(x, i, m), ~(i <= Len(x))
  PROVE  /\ \A n \in Nat : n > m => Item(x, n) = NoItem
         /\ At(x, i, m + 1)
<1>1. Ended(x, Len(x)) \in Nat /\ Len(x) \in Nat
  BY EndedBound
<1>2. i = Len(x) + 1 /\ Ended(x, Len(x)) <= m
  BY AtPlace
<1>3. \A n \in Nat : n > m => n > Ended(x, Len(x))
  BY <1>1, <1>2
<1>4. Ended(x, Len(x)) <= m + 1
  BY <1>1, <1>2
<1> QED
  BY <1>2, <1>3, <1>4, ItemBeyond DEF At

LEMMA NextItem ==
  ASSUME NEW x \in Strings, NEW m \in Nat, NEW i \in Ends(x), Ended(x, i - 1) = m
  PROVE  /\ Item(x, m + 1) = Key(x[i], Number(x, i))
         /\ At(x, i + 1, m + 1)
<1>1. i \in 1..Len(x) /\ Len(x) \in Nat /\ i \in Nat \ {0}
  BY DEF Ends, Strings
<1>2. Ended(x, i) = m + 1
  BY <1>1, EndedStep
<1>3. Item(x, m + 1) = Key(x[i], Number(x, i))
  BY <1>2, ItemAt
<1>4. CASE i = Len(x)
  <2>1. Ended(x, Len(x)) <= m + 1
    BY <1>2, <1>4
  <2>2. i + 1 = Len(x) + 1
    BY <1>4
  <2> QED
    BY <1>3, <2>1, <2>2 DEF At
<1>5. CASE i # Len(x)
  <2>1. i + 1 \in 1..Len(x) /\ (i + 1) - 1 = i
    BY <1>1, <1>5
  <2>2. Ended(x, (i + 1) - 1) = m + 1 /\ (i + 1) - 1 \in Ends(x)
    BY <1>2, <2>1
  <2> QED
    BY <1>3, <2>1, <2>2 DEF At
<1> QED
  BY <1>3, <1>4, <1>5

LEMMA NonDigitItem ==
  ASSUME NEW x \in Strings, NEW m \in Nat, NEW i, At(x, i, m), NonDigitAt(x, i)
  PROVE  /\ i \in 1..Len(x)
         /\ Item(x, m + 1) = Key(x[i], Number(x, i))
         /\ At(x, i + 1, m + 1)
<1>1. i \in 1..Len(x) /\ Ended(x, i - 1) = m
  BY AtPlace DEF NonDigitAt
<1>2. i \in Ends(x)
  BY <1>1 DEF NonDigitAt, DigitAt, Ends
<1> QED
  BY <1>1, <1>2, NextItem

LEMMA RunStarts ==
  ASSUME NEW x \in Strings, NEW m \in Nat, NEW p, At(x, p, m), DigitAt(x, p)
  PROVE  p \in 1..Len(x) /\ Number(x, p - 1) = 0
<1>1. p \in 1..Len(x) /\ p \in Int
  BY AtPlace DEF DigitAt
<1>2. CASE p = 1
  BY <1>1, <1>2, NumberAt
<1>3. CASE p # 1
  <2>1. p - 1 \in Ends(x) /\ p - 1 \in 1..Len(x) /\ (p - 1) + 1 = p
    BY <1>1, <1>3, AtPlace
  <2>2. ~DigitAt(x, p - 1)
    BY <2>1 DEF Ends
  <2>3. ~IsDigit(x[p - 1])
    BY <2>1, <2>2 DEF DigitAt
  <2> QED
    BY <1>1, <2>1, <2>3, NumberAt
<1> QED
  BY <1>1, <1>2, <1>3

LEMMA ReadsPlace ==
  ASSUME NEW x \in Strings, NEW m \in Nat, NEW p, NEW i \in Int, At(x, p, m), Reads(x, p, i)
  PROVE  /\ Len(x) \in Nat /\ p \in 1..i /\ i \in 1..(Len(x) + 1)
         /\ i # p => DigitAt(x, p)
         /\ Spelled(x, p, i) \in Nat
<1>1. Len(x) \in Nat /\ p \in 1..(Len(x) + 1) /\ p <= i /\ i <= Len(x) + 1
  BY AtPlace DEF Reads
<1>2. i # p => DigitAt(x, p)
  <2>1. i # p => p \in p..(i - 1) /\ p <= Len(x)
    BY <1>1
  <2> QED
    BY <2>1 DEF Reads, DigitAt
<1>3. Spelled(x, p, i) \in Nat
  <2>1. i # p => i - 1 \in 0..Len(x)
    BY <1>1
  <2> QED
    BY <2>1, NumberAt DEF Spelled
<1> QED
  BY <1>1, <1>2, <1>3

LEMMA ReadsStep ==
  ASSUME NEW x \in Strings, NEW m \in Nat, NEW p, NEW i \in Int,
         At(x, p, m), Reads(x, p, i), DigitAt(x, i)
  PROVE  /\ Reads(x, p, i + 1)
         /\ x[i] - Zero \in 0..9
         /\ Spelled(x, p, i + 1) = 10 * Spelled(x, p, i) + (x[i] - Zero)
<1>1. /\ Len(x) \in Nat /\ p \in 1..i /\ i \in 1..(Len(x) + 1)
      /\ i # p => DigitAt(x, p)
  BY ReadsPlace
<1>2. i <= Len(x) /\ IsDigit(x[i])
  BY DEF DigitAt
<1>3. Reads(x, p, i + 1)
  <2>1. \A k \in p..((i + 1) - 1) : k \in p..(i - 1) \/ k = i
    BY <1>1
  <2> QED
    BY <1>1, <1>2, <2>1 DEF Reads
<1>4. x[i] - Zero \in 0..9
  BY <1>1, <1>2, CharacterAt DEF IsDigit, Zero
<1>5. DigitAt(x, p)
  BY <1>1
<1>6. Spelled(x, p, i + 1) = Number(x, i)
  BY <1>1 DEF Spelled
<1>7. Number(x, i) = 10 * Number(x, i - 1) + (x[i] - Zero)
  BY <1>1, <1>2, NumberAt
<1>8. Spelled(x, p, i) = Number(x, i - 1)
  BY <1>5, RunStarts DEF Spelled
<1> QED
  BY <1>3, <1>4, <1>6, <1>7, <1>8

LEMMA RunEnds ==
  ASSUME NEW x \in Strings, NEW m \in Nat, NEW p, NEW i \in Int,
         At(x, p, m), Reads(x, p, i), ~DigitAt(x, i)
  PROVE  /\ At(x, i, m + 1)
         /\ Item(x, m + 1) = <<0, Spelled(x, p, i)>>
<1>1. /\ Len(x) \in Nat /\ p \in 1..i /\ i \in 1..(Len(x) + 1)
      /\ i # p => DigitAt(x, p)
  BY ReadsPlace
<1>2. CASE i = p
  <2>1. ~(p <= Len(x))
    BY <1>2 DEF Reads, DigitAt, NonDigitAt
  <2> QED
    BY <1>2, <2>1, ExhaustedItem DEF Spelled, NoItem
<1>3. CASE i # p
  <2>1. i - 1 \in 1..Len(x) /\ i - 1 \in p..(i - 1) /\ (i - 1) + 1 = i /\ p \in Int /\ p <= Len(x)
    BY <1>1, <1>3
  <2>2. IsDigit(x[i - 1])
    BY <2>1 DEF Reads
  <2>3. i - 1 \in Ends(x)
    BY <2>1 DEF Ends
  <2>4. Ended(x, (i - 1) - 1) = m
    <3>1. Ended(x, p - 1) = m
      BY <2>1, AtPlace
    <3>2. ASSUME NEW e \in Ends(x), e > p - 1, e <= (i - 1) - 1
          PROVE  FALSE
      <4>1. e \in 1..Len(x) /\ e \in Int
        BY DEF Ends
      <4>2. e \in p..(i - 1) /\ e + 1 \in p..(i - 1) /\ e + 1 <= Len(x)
        BY <1>1, <2>1, <3>2, <4>1
      <4>3. DigitAt(x, e) /\ DigitAt(x, e + 1)
        BY <4>1, <4>2 DEF Reads, DigitAt
      <4> QED
        BY <4>3 DEF Ends
    <3>3. p - 1 \in Int /\ (i - 1) - 1 \in Int /\ p - 1 <= (i - 1) - 1
      BY <1>1, <1>3
    <3>4. \A e \in Ends(x) : e <= p - 1 \/ e > (i - 1) - 1
      <4>1. \A e \in Ends(x) : e \in Int
        BY DEF Ends
      <4> QED
        BY <3>2, <3>3, <4>1
    <3> QED
      BY <3>1, <3>3, <3>4, EndedSame
  <2>5. Item(x, m + 1) = Key(x[i - 1], Number(x, i - 1)) /\ At(x, i, m + 1)
    BY <2>1, <2>3, <2>4, NextItem
  <2> QED
    BY <1>3, <2>2, <2>5 DEF Key, Spelled
<1> QED
  BY <1>2, <1>3

\* With a digit still to be read, a run spells at least ten times what has been read.
LEMMA RunLonger ==
  ASSUME NEW x \in Strings, NEW m \in Nat, NEW p, NEW i \in Int,
         At(x, p, m), Reads(x, p, i), DigitAt(x, i)
  PROVE  \E v \in Nat : /\ Item(x, m + 1) = <<0, v>>
                        /\ v >= 10 * Spelled(x, p, i) + (x[i] - Zero)
<1>1. /\ Len(x) \in Nat /\ p \in 1..i /\ i \in 1..(Len(x) + 1) /\ i <= Len(x)
      /\ Spelled(x, p, i) \in Nat
  BY ReadsPlace DEF DigitAt
<1>2. /\ Reads(x, p, i + 1) /\ x[i] - Zero \in 0..9
      /\ Spelled(x, p, i + 1) = 10 * Spelled(x, p, i) + (x[i] - Zero)
  BY ReadsStep
<1> DEFINE NotDigits == {e \in (i + 1)..(Len(x) + 1) : ~DigitAt(x, e)}
<1>3. PICK e \in NotDigits : \A k \in NotDigits : e <= k
  <2>1. NotDigits \in SUBSET Nat
    BY <1>1
  <2>2. Len(x) + 1 \in NotDigits
    BY <1>1 DEF DigitAt
  <2> HIDE DEF NotDigits
  <2> QED
    BY <2>1, <2>2, LeastNat
<1>4. e \in Int /\ e >= i + 1 /\ e <= Len(x) + 1 /\ ~DigitAt(x, e)
  BY <1>1
<1>5. \A k \in (i + 1)..(e - 1) : DigitAt(x, k)
  <2> SUFFICES ASSUME NEW k \in (i + 1)..(e - 1)
               PROVE  DigitAt(x, k)
    OBVIOUS
  <2>1. k \in (i + 1)..(Len(x) + 1) /\ ~(e <= k)
    BY <1>1, <1>4
  <2> QED
    BY <1>3, <2>1
<1> HIDE DEF NotDigits
<1> DEFINE Enough(k) == Reads(x, p, k) /\ Spelled(x, p, k) >= 10 * Spelled(x, p, i) + (x[i] - Zero)
           Fails == {k \in (i + 1)..e : ~Enough(k)}
<1>6. Fails = {}
  <2> SUFFICES ASSUME Fails # {}
               PROVE  FALSE
    OBVIOUS
  <2>1. PICK k \in Fails : \A l \in Fails : k <= l
    <3>1. Fails \in SUBSET Nat
      BY <1>1, <1>4
    <3> HIDE DEF Fails
    <3> QED
      BY <3>1, LeastNat
  <2>2. k \in (i + 1)..e /\ ~Enough(k)
    OBVIOUS
  <2>3. Enough(i + 1)
    BY <1>1, <1>2
  <2>4. k - 1 \in (i + 1)..(e - 1) /\ k - 1 \in (i + 1)..e /\ ~(k <= k - 1) /\ (k - 1) + 1 = k
    BY <1>1, <1>4, <2>2, <2>3
  <2>5. Enough(k - 1) /\ DigitAt(x, k - 1)
    BY <1>5, <2>1, <2>4
  <2>6. k - 1 \in Int
    BY <1>1, <1>4, <2>2
  <2>7. /\ Reads(x, p, k) /\ x[k - 1] - Zero \in 0..9
        /\ Spelled(x, p, k) = 10 * Spelled(x, p, k - 1) + (x[k - 1] - Zero)
    BY <2>4, <2>5, <2>6, ReadsStep
  <2>8. Spelled(x, p, k - 1) \in Nat
    BY <2>5, <2>6, ReadsPlace
  <2>9. Spelled(x, p, k) >= 10 * Spelled(x, p, i) + (x[i] - Zero)
    <3>1. Spelled(x, p, k - 1) >= 10 * Spelled(x, p, i) + (x[i] - Zero)
      BY <2>5
    <3>2. \A u, v, w \in Nat, d, z \in 0..9 :
            u >= 10 * v + z /\ w = 10 * u + d => w >= 10 * v + z
      OBVIOUS
    <3>3. Spelled(x, p, k) \in Nat
      BY <2>7, <2>8
    <3>4. x[i] - Zero \in 0..9 /\ Spelled(x, p, i) \in Nat
      BY <1>1, <1>2
    <3> HIDE DEF Enough, Fails
    <3> QED
      BY <2>7, <2>8, <3>1, <3>2, <3>3, <3>4
  <2> QED
    BY <2>2, <2>7, <2>9
<1>7. Enough(e)
  BY <1>1, <1>4, <1>6
<1>8. Item(x, m + 1) = <<0, Spelled(x, p, e)>> /\ Spelled(x, p, e) \in Nat
  BY <1>4, <1>7, RunEnds, ReadsPlace
<1> QED
  BY <1>7, <1>8

LEMMA TildeNoLetter == Tilde = 126 /\ ~IsLetter(Tilde)
BY DEF Tilde, IsLetter

LEMMA CharacterSign ==
  ASSUME NEW c \in 1..255, ~IsDigit(c), NEW u \in Nat, NEW v \in Nat
  PROVE  /\ CharOrder(c) \in Int /\ CharOrder(c) # 0
         /\ Precedes(Key(c, u), <<0, v>>) <=> CharOrder(c) < 0
         /\ Precedes(<<0, v>>, Key(c, u)) <=> CharOrder(c) > 0
         /\ Key(c, u) # <<0, v>>
BY TildeNoLetter DEF CharOrder, Key, Precedes

\* What the next item of a string is, and what charOrder gives for it.
LEMMA ItemOrder ==
  ASSUME NEW x \in Strings, NEW m \in Nat, NEW i, At(x, i, m)
  PROVE  \/ /\ NonDigitAt(x, i) /\ At(x, i + 1, m + 1) /\ i \in 1..Len(x)
            /\ \E c \in 1..255, v \in Nat :
                 /\ ~IsDigit(c) /\ OrderAt(x, i) = CharOrder(c) /\ Item(x, m + 1) = Key(c, v)
         \/ /\ ~NonDigitAt(x, i) /\ OrderAt(x, i) = 0
            /\ \E v \in Nat : Item(x, m + 1) = <<0, v>>
<1>1. CASE NonDigitAt(x, i)
  <2>1. i \in 1..Len(x) /\ i \in 0..Len(x) /\ i <= Len(x)
    BY <1>1, NonDigitItem, AtPlace
  <2>2. x[i] \in 1..255 /\ Number(x, i) \in Nat /\ ~IsDigit(x[i])
    BY <1>1, <2>1, CharacterAt, NumberAt DEF NonDigitAt
  <2>3. OrderAt(x, i) = CharOrder(x[i])
    BY <2>1 DEF OrderAt
  <2> QED
    BY <1>1, <2>1, <2>2, <2>3, NonDigitItem
<1>2. CASE DigitAt(x, i)
  <2>1. ~NonDigitAt(x, i) /\ OrderAt(x, i) = 0
    BY <1>2 DEF DigitAt, NonDigitAt, OrderAt, CharOrder
  <2>2. i \in Int /\ i <= Len(x) + 1
    BY <1>2, RunStarts, AtPlace
  <2>3. Reads(x, i, i)
    BY <2>1, <2>2 DEF Reads
  <2> QED
    BY <1>2, <2>1, <2>2, <2>3, RunLonger
<1>3. CASE ~NonDigitAt(x, i) /\ ~DigitAt(x, i)
  <2>1. ~(i <= Len(x))
    BY <1>3 DEF NonDigitAt, DigitAt
  <2>2. Item(x, m + 1) = NoItem
    BY <2>1, ExhaustedItem
  <2> QED
    BY <1>3, <2>1, <2>2 DEF OrderAt, NoItem
<1> QED
  BY <1>1, <1>2, <1>3

LEMMA SignOf ==
  /\ \A n \in Int : /\ Sign(n) \in {-1, 0, 1}
                    /\ Sign(n) = 1 <=> n > 0
                    /\ Sign(n) = 0 <=> n = 0
                    /\ Sign(n) = -1 <=> n < 0
  /\ Sign(1) = 1 /\ Sign(0) = 0 /\ Sign(-1) = -1
BY DEF Sign

LEMMA AgreeStep ==
  ASSUME NEW x, NEW y, NEW m \in Nat, Agree(x, y, m), Item(x, m + 1) = Item(y, m + 1)
  PROVE  Agree(x, y, m + 1)
<1>1. \A n \in 1..(m + 1) : n \in 1..m \/ n = m + 1
  OBVIOUS
<1> QED
  BY <1>1 DEF Agree

\* A character that is no digit decides, unless the other string has it too.
LEMMA NonDigitsOrder ==
  ASSUME NEW x \in Strings, NEW y \in Strings, NEW m \in Nat, NEW i, NEW j,
         Agree(x, y, m), At(x, i, m), At(y, j, m), NonDigitAt(x, i) \/ NonDigitAt(y, j)
  PROVE  /\ OrderAt(x, i) \in Int /\ OrderAt(y, j) \in Int
         /\ OrderAt(x, i) # OrderAt(y, j) =>
              Sign(OrderAt(x, i) - OrderAt(y, j)) = StringOrder(x, y)
         /\ OrderAt(x, i) = OrderAt(y, j) =>
              /\ Agree(x, y, m + 1) /\ At(x, i + 1, m + 1) /\ At(y, j + 1, m + 1)
              /\ i \in 1..Len(x) /\ j \in 1..Len(y)
<1> DEFINE k == Item(x, m + 1)
           l == Item(y, m + 1)
           o == OrderAt(x, i)
           p == OrderAt(y, j)
<1>1. /\ o \in Int /\ p \in Int
      /\ Precedes(k, l) <=> o < p
      /\ k = l <=> o = p
      /\ o = p => NonDigitAt(x, i) /\ NonDigitAt(y, j)
  <2>1. CASE NonDigitAt(x, i) /\ NonDigitAt(y, j)
    <3>1. PICK c \in 1..255, u \in Nat : ~IsDigit(c) /\ o = CharOrder(c) /\ k = Key(c, u)
      BY <2>1, ItemOrder
    <3>2. PICK d \in 1..255, v \in Nat : ~IsDigit(d) /\ p = CharOrder(d) /\ l = Key(d, v)
      BY <2>1, ItemOrder
    <3>3. /\ Precedes(Key(c, u), Key(d, v)) <=> CharOrder(c) < CharOrder(d)
          /\ Key(c, u) = Key(d, v) <=> CharOrder(c) = CharOrder(d)
      <4>1. c \in 1..255 /\ d \in 1..255 /\ u \in Nat /\ v \in Nat /\ ~IsDigit(c) /\ ~IsDigit(d)
        BY <3>1, <3>2
      <4> QED
        BY ONLY <4>1, TildeNoLetter DEF CharOrder, Key, Precedes
    <3>4. CharOrder(c) \in Int /\ CharOrder(d) \in Int
      BY <3>1, <3>2, CharacterSign
    <3> HIDE DEF k, l, o, p
    <3> QED
      BY <2>1, <3>1, <3>2, <3>3, <3>4
  <2>2. CASE NonDigitAt(x, i) /\ ~NonDigitAt(y, j)
    <3>1. PICK c \in 1..255, u \in Nat : ~IsDigit(c) /\ o = CharOrder(c) /\ k = Key(c, u)
      BY <2>2, ItemOrder
    <3>2. p = 0 /\ \E v \in Nat : l = <<0, v>>
      BY <2>2, ItemOrder
    <3>3. PICK v \in Nat : l = <<0, v>>
      BY <3>2
    <3>4. /\ CharOrder(c) \in Int /\ CharOrder(c) # 0
          /\ Precedes(Key(c, u), <<0, v>>) <=> CharOrder(c) < 0
          /\ Precedes(<<0, v>>, Key(c, u)) <=> CharOrder(c) > 0
          /\ Key(c, u) # <<0, v>>
      BY <3>1, CharacterSign
    <3> HIDE DEF k, l, o, p
    <3> QED
      BY <2>2, <3>1, <3>2, <3>3, <3>4
  <2>3. CASE ~NonDigitAt(x, i) /\ NonDigitAt(y, j)
    <3>1. PICK c \in 1..255, u \in Nat : ~IsDigit(c) /\ p = CharOrder(c) /\ l = Key(c, u)
      BY <2>3, ItemOrder
    <3>2. o = 0 /\ \E v \in Nat : k = <<0, v>>
      BY <2>3, ItemOrder
    <3>3. PICK v \in Nat : k = <<0, v>>
      BY <3>2
    <3>4. /\ CharOrder(c) \in Int /\ CharOrder(c) # 0
          /\ Precedes(Key(c, u), <<0, v>>) <=> CharOrder(c) < 0
          /\ Precedes(<<0, v>>, Key(c, u)) <=> CharOrder(c) > 0
          /\ Key(c, u) # <<0, v>>
      BY <3>1, CharacterSign
    <3> HIDE DEF k, l, o, p
    <3> QED
      BY <2>3, <3>1, <3>2, <3>3, <3>4
  <2> QED
    BY <2>1, <2>2, <2>3
<1>2. ASSUME o # p
      PROVE  Sign(o - p) = StringOrder(x, y)
  <2>1. StringOrder(x, y) = IF Precedes(k, l) THEN -1 ELSE 1
    BY <1>1, <1>2, FirstDifference
  <2> HIDE DEF k, l, o, p
  <2> QED
    BY <1>1, <1>2, <2>1 DEF Sign
<1>3. ASSUME o = p
      PROVE  /\ Agree(x, y, m + 1) /\ At(x, i + 1, m + 1) /\ At(y, j + 1, m + 1)
             /\ i \in 1..Len(x) /\ j \in 1..Len(y)
  <2>1. NonDigitAt(x, i) /\ NonDigitAt(y, j) /\ k = l
    BY <1>1, <1>3
  <2> QED
    BY <2>1, NonDigitItem, AgreeStep
<1> QED
  BY <1>1, <1>2, <1>3

\* Two runs that have been read decide, unless they spell the same number.
LEMMA NumbersOrder ==
  ASSUME NEW x \in Strings, NEW y \in Strings, NEW m \in Nat, Agree(x, y, m),
         NEW p, NEW q, NEW i \in Int, NEW j \in Int,
         At(x, p, m), At(y, q, m), Reads(x, p, i), Reads(y, q, j),
         ~DigitAt(x, i), ~DigitAt(y, j)
  PROVE  /\ Spelled(x, p, i) # Spelled(y, q, j) =>
              Sign(Spelled(x, p, i) - Spelled(y, q, j)) = StringOrder(x, y)
         /\ Spelled(x, p, i) = Spelled(y, q, j) =>
              Agree(x, y, m + 1) /\ At(x, i, m + 1) /\ At(y, j, m + 1)
<1>1. /\ At(x, i, m + 1) /\ Item(x, m + 1) = <<0, Spelled(x, p, i)>> /\ Spelled(x, p, i) \in Nat
      /\ At(y, j, m + 1) /\ Item(y, m + 1) = <<0, Spelled(y, q, j)>> /\ Spelled(y, q, j) \in Nat
  BY RunEnds, ReadsPlace
<1>2. ASSUME Spelled(x, p, i) # Spelled(y, q, j)
      PROVE  Sign(Spelled(x, p, i) - Spelled(y, q, j)) = StringOrder(x, y)
  <2>1. Item(x, m + 1) # Item(y, m + 1)
    BY <1>1, <1>2
  <2>2. StringOrder(x, y) = IF Precedes(Item(x, m + 1), Item(y, m + 1)) THEN -1 ELSE 1
    BY <2>1, FirstDifference
  <2> QED
    BY <1>1, <1>2, <2>2 DEF Sign, Precedes
<1>3. ASSUME Spelled(x, p, i) = Spelled(y, q, j)
      PROVE  Agree(x, y, m + 1)
  BY <1>1, <1>3, AgreeStep
<1> QED
  BY <1>1, <1>2, <1>3

\* A run of which a digit is left decides against one that has been read.
LEMMA LongerGreater ==
  ASSUME NEW x \in Strings, NEW y \in Strings, NEW m \in Nat, Agree(x, y, m),
         NEW p, NEW q, NEW i \in Int, NEW j \in Int,
         At(x, p, m), At(y, q, m), Reads(x, p, i), Reads(y, q, j),
         DigitAt(x, i), ~DigitAt(y, j),
         Spelled(y, q, j) < 10 * Spelled(x, p, i) + (x[i] - Zero)
  PROVE  StringOrder(x, y) = 1
<1>1. PICK v \in Nat : Item(x, m + 1) = <<0, v>> /\ v >= 10 * Spelled(x, p, i) + (x[i] - Zero)
  BY RunLonger
<1>2. Item(y, m + 1) = <<0, Spelled(y, q, j)>> /\ Spelled(y, q, j) \in Nat
  BY RunEnds, ReadsPlace
<1>3. Spelled(x, p, i) \in Nat /\ x[i] - Zero \in 0..9
  BY ReadsPlace, ReadsStep
<1>4. Spelled(y, q, j) < v
  BY <1>1, <1>2, <1>3
<1>5. Item(x, m + 1) # Item(y, m + 1) /\ ~Precedes(Item(x, m + 1), Item(y, m + 1))
  BY <1>1, <1>2, <1>4 DEF Precedes
<1> QED
  BY <1>5, FirstDifference

------------------------------------------------------------------------------
(***************************************************************************)
(* The comparison's steps keep its invariant.                              *)
(***************************************************************************)
LEMMA ComparedStrings ==
  ASSUME CompareTypeOK
  PROVE  /\ sa \in Strings /\ sb \in Strings
         /\ va.version \in Strings /\ vb.version \in Strings
         /\ va.revision \in Strings /\ vb.revision \in Strings
         /\ va.epoch \in Int /\ vb.epoch \in Int
BY VersionsAssumption DEF CompareTypeOK, sa, sb, String, Strings

\* The component that is compared decides when it differs, and the revision in any case.
LEMMA ComponentDecides ==
  ASSUME CompareInv, loop \notin {"epochs", "done"},
         part = "revision" \/ StringOrder(sa, sb) # 0
  PROVE  VersionOrder(va, vb) = StringOrder(sa, sb)
<1>1. va.epoch = vb.epoch /\ (part = "revision" => StringOrder(va.version, vb.version) = 0)
  BY DEF CompareInv
<1>2. part \in {"version", "revision"}
  BY DEF CompareInv, CompareTypeOK
<1>3. CASE part = "version"
  BY <1>1, <1>3 DEF VersionOrder, sa, sb, String
<1>4. CASE part = "revision"
  BY <1>1, <1>4 DEF VersionOrder, sa, sb, String
<1> QED
  BY <1>2, <1>3, <1>4

LEMMA SameStrings ==
  ASSUME UNCHANGED <<va, vb, part>>
  PROVE  sa' = sa /\ sb' = sb
BY DEF sa, sb, String

\* A result that decides ends the comparison as it should.
LEMMA Returns ==
  ASSUME CompareInv, loop \notin {"epochs", "done"},
         NEW r \in Int, Return(r), UNCHANGED <<va, vb, part, firstdiff>>,
         ia' \in 1..Len(sa) + 1, ib' \in 1..Len(sb) + 1,
         Sign(r) = StringOrder(sa, sb),
         part = "revision" \/ r # 0
  PROVE  CompareInv'
<1>1. loop' = "done" /\ result' = r /\ sa' = sa /\ sb' = sb
  BY SameStrings DEF Return
<1>2. CompareTypeOK'
  BY <1>1 DEF CompareInv, CompareTypeOK
<1>3. StringOrder(sa, sb) # 0 \/ part = "revision"
  BY SignOf
<1>4. Sign(r) = VersionOrder(va, vb)
  BY <1>3, ComponentDecides
<1>5. OrdersAsPolicy'
  BY <1>1, <1>4 DEF OrdersAsPolicy
<1> QED
  BY <1>1, <1>2, <1>5 DEF CompareInv

LEMMA InitCompare == CompareInit => CompareInv
<1> SUFFICES ASSUME CompareInit
             PROVE  CompareInv
  OBVIOUS
<1>1. part = "version" /\ sa = va.version /\ sb = vb.version
  BY DEF CompareInit, sa, sb, String
<1>2. Len(sa) \in Nat /\ Len(sb) \in Nat
  BY <1>1, VersionsAssumption DEF CompareInit
<1>3. CompareTypeOK
  BY <1>2 DEF CompareInit, CompareTypeOK
<1> QED
  BY <1>3 DEF CompareInit, CompareInv, OrdersAsPolicy

LEMMA EpochsCompare ==
  ASSUME CompareInv, Epochs
  PROVE  CompareInv'
<1>1. CompareTypeOK /\ part = "version" /\ ia = 1 /\ ib = 1 /\ loop = "epochs"
  BY DEF CompareInv, Epochs
<1>2. sa' = sa /\ sb' = sb
  BY SameStrings DEF Epochs
<1>3. va.epoch \in Int /\ vb.epoch \in Int /\ sa \in Strings /\ sb \in Strings
  BY <1>1, ComparedStrings
<1>4. CompareTypeOK'
  BY <1>1, <1>2 DEF CompareTypeOK, Epochs, Goto, Return
<1>5. CASE va.epoch = vb.epoch
  <2>1. At(sa, 1, 0) /\ At(sb, 1, 0) /\ Agree(sa, sb, 0)
    BY <1>3, AtStart DEF Agree
  <2>2. LoopInv'
    BY <1>1, <1>2, <2>1 DEF LoopInv, Epochs
  <2> QED
    BY <1>1, <1>4, <1>5, <2>2 DEF CompareInv, Epochs, Goto, OrdersAsPolicy
<1>6. CASE va.epoch # vb.epoch
  <2>1. loop' = "done" /\ result' = IF va.epoch > vb.epoch THEN 1 ELSE -1
    BY <1>6 DEF Epochs, Return
  <2>2. Sign(result') = VersionOrder(va, vb)
    BY <1>3, <1>6, <2>1 DEF VersionOrder, Sign
  <2>3. OrdersAsPolicy'
    BY <2>2 DEF OrdersAsPolicy, Epochs
  <2> QED
    BY <1>4, <2>1, <2>3 DEF CompareInv
<1> QED
  BY <1>5, <1>6

LEMMA ComponentCompare ==
  ASSUME CompareInv, Component
  PROVE  CompareInv'
<1>1. /\ loop = "component" /\ loop' = "nondigits" /\ firstdiff' = 0
      /\ UNCHANGED <<va, vb, part, ia, ib, result>> /\ sa' = sa /\ sb' = sb
  BY SameStrings DEF Component, Goto
<1>2. CompareTypeOK'
  BY <1>1 DEF CompareInv, CompareTypeOK
<1>3. LoopInv'
  BY <1>1 DEF CompareInv, LoopInv
<1> QED
  BY <1>1, <1>2, <1>3 DEF CompareInv, OrdersAsPolicy

LEMMA EqualCompare ==
  ASSUME CompareInv, ComponentsEqual
  PROVE  CompareInv'
<1>1. loop = "component" /\ ia > Len(sa) /\ ib > Len(sb) /\ UNCHANGED <<va, vb, firstdiff>>
  BY DEF ComponentsEqual
<1>2. CompareTypeOK /\ LoopInv /\ va.epoch = vb.epoch
  BY <1>1 DEF CompareInv
<1>3. sa \in Strings /\ sb \in Strings
  BY <1>2, ComparedStrings
<1>4. StringOrder(sa, sb) = 0
  <2>1. PICK m \in Nat : Agree(sa, sb, m) /\ At(sa, ia, m) /\ At(sb, ib, m)
    BY <1>2 DEF LoopInv
  <2>2. ia \in Int /\ ib \in Int /\ Len(sa) \in Nat /\ Len(sb) \in Nat
    BY <1>2, <1>3 DEF CompareTypeOK, Strings
  <2>3. ~(ia <= Len(sa)) /\ ~(ib <= Len(sb))
    BY <1>1, <2>2
  <2>4. \A n \in Nat : n > m => Item(sa, n) = NoItem /\ Item(sb, n) = NoItem
    BY <1>3, <2>1, <2>3, ExhaustedItem
  <2>5. \A n \in Nat \ {0} : n \in 1..m \/ n > m
    OBVIOUS
  <2>6. \A n \in Nat \ {0} : Item(sa, n) = Item(sb, n)
    BY <2>1, <2>4, <2>5 DEF Agree
  <2> QED
    BY <1>3, <2>6, NoDifference
<1>5. CASE part = "version"
  <2>1. /\ part' = "revision" /\ ia' = 1 /\ ib' = 1 /\ UNCHANGED <<loop, result>>
        /\ sa' = va.revision /\ sb' = vb.revision
    BY <1>1, <1>5 DEF ComponentsEqual, sa, sb, String
  <2>2. sa' \in Strings /\ sb' \in Strings
    BY <1>2, <2>1, ComparedStrings
  <2>3. Len(sa') \in Nat /\ Len(sb') \in Nat
    BY <2>2 DEF Strings
  <2>4. CompareTypeOK'
    BY <1>1, <1>2, <2>1, <2>3 DEF CompareTypeOK
  <2>5. At(sa', 1, 0) /\ At(sb', 1, 0) /\ Agree(sa', sb', 0)
    BY <2>2, AtStart DEF Agree
  <2>6. LoopInv'
    BY <2>1, <2>5 DEF LoopInv
  <2>7. StringOrder(va.version, vb.version) = 0
    BY <1>4, <1>5 DEF sa, sb, String
  <2> QED
    BY <1>1, <1>2, <2>1, <2>4, <2>6, <2>7 DEF CompareInv, OrdersAsPolicy
<1>6. CASE part # "version"
  <2>1. Return(0) /\ UNCHANGED <<part, ia, ib>> /\ part = "revision"
    BY <1>2, <1>6 DEF ComponentsEqual, CompareTypeOK
  <2>2. ia' \in 1..Len(sa) + 1 /\ ib' \in 1..Len(sb) + 1
    BY <1>2, <2>1 DEF CompareTypeOK
  <2> QED
    BY <1>1, <1>4, <2>1, <2>2, Returns, SignOf
<1> QED
  BY <1>5, <1>6

LEMMA NonDigitsCompare ==
  ASSUME CompareInv, NonDigits
  PROVE  CompareInv'
<1>1. /\ loop = "nondigits" /\ UNCHANGED <<va, vb, part, firstdiff>> /\ sa' = sa /\ sb' = sb
  BY SameStrings DEF NonDigits
<1>2. CompareTypeOK /\ LoopInv /\ firstdiff = 0
  BY <1>1 DEF CompareInv
<1>3. /\ sa \in Strings /\ sb \in Strings /\ Len(sa) \in Nat /\ Len(sb) \in Nat
      /\ ia \in 1..Len(sa) + 1 /\ ib \in 1..Len(sb) + 1
  BY <1>2, ComparedStrings DEF Strings, CompareTypeOK
<1>4. PICK m \in Nat : Agree(sa, sb, m) /\ At(sa, ia, m) /\ At(sb, ib, m)
  BY <1>2 DEF LoopInv
<1>5. CASE (NonDigitAt(sa, ia) \/ NonDigitAt(sb, ib)) /\ OrderAt(sa, ia) # OrderAt(sb, ib)
  <2> DEFINE r == OrderAt(sa, ia) - OrderAt(sb, ib)
  <2>1. /\ OrderAt(sa, ia) \in Int /\ OrderAt(sb, ib) \in Int
        /\ Sign(r) = StringOrder(sa, sb)
    BY <1>3, <1>4, <1>5, NonDigitsOrder
  <2>2. r \in Int /\ r # 0
    BY <1>5, <2>1
  <2>3. Return(r) /\ UNCHANGED <<ia, ib>>
    BY <1>5 DEF NonDigits
  <2> HIDE DEF r
  <2> QED
    BY <1>1, <1>3, <2>1, <2>2, <2>3, Returns
<1>6. CASE (NonDigitAt(sa, ia) \/ NonDigitAt(sb, ib)) /\ OrderAt(sa, ia) = OrderAt(sb, ib)
  <2>1. ia' = ia + 1 /\ ib' = ib + 1 /\ UNCHANGED <<loop, result>>
    BY <1>6 DEF NonDigits
  <2>2. /\ Agree(sa, sb, m + 1) /\ At(sa, ia + 1, m + 1) /\ At(sb, ib + 1, m + 1)
        /\ ia \in 1..Len(sa) /\ ib \in 1..Len(sb)
    BY <1>3, <1>4, <1>6, NonDigitsOrder
  <2>3. ia' \in 1..Len(sa) + 1 /\ ib' \in 1..Len(sb) + 1
    BY <1>3, <2>1, <2>2
  <2>4. CompareTypeOK'
    BY <1>1, <1>2, <2>1, <2>3 DEF CompareTypeOK
  <2>5. LoopInv'
    BY <1>1, <1>4, <2>1, <2>2 DEF LoopInv
  <2> QED
    BY <1>1, <2>1, <2>4, <2>5 DEF CompareInv, OrdersAsPolicy
<1>7. CASE ~NonDigitAt(sa, ia) /\ ~NonDigitAt(sb, ib)
  <2>1. loop' = "zeros" /\ UNCHANGED <<ia, ib, result>>
    BY <1>7 DEF NonDigits, Goto
  <2>2. CompareTypeOK'
    BY <1>1, <1>2, <2>1 DEF CompareTypeOK
  <2>3. Reads(sa, ia, ia) /\ Reads(sb, ib, ib)
    BY <1>3, <1>7 DEF Reads
  <2>4. Spelled(sa, ia, ia) = 0 /\ Spelled(sb, ib, ib) = 0
    BY DEF Spelled
  <2>5. ia \in 1..ia /\ ib \in 1..ib
    BY <1>3
  <2>6. NumberInv'
    BY <1>1, <1>2, <1>4, <2>1, <2>3, <2>4, <2>5 DEF NumberInv, BothRead
  <2> QED
    BY <1>1, <2>1, <2>2, <2>6 DEF CompareInv, OrdersAsPolicy
<1> QED
  BY <1>5, <1>6, <1>7

LEMMA NumbersRead ==
  ASSUME CompareInv, loop \in {"zeros", "digits", "numbers"}
  PROVE  /\ CompareTypeOK
         /\ sa \in Strings /\ sb \in Strings /\ Len(sa) \in Nat /\ Len(sb) \in Nat
         /\ ia \in 1..Len(sa) + 1 /\ ib \in 1..Len(sb) + 1 /\ ia \in Int /\ ib \in Int
         /\ \E m \in Nat, p \in 1..ia, q \in 1..ib : BothRead(m, p, q)
<1>1. CompareTypeOK /\ NumberInv
  BY DEF CompareInv
<1>2. /\ sa \in Strings /\ sb \in Strings /\ Len(sa) \in Nat /\ Len(sb) \in Nat
      /\ ia \in 1..Len(sa) + 1 /\ ib \in 1..Len(sb) + 1
  BY <1>1, ComparedStrings DEF Strings, CompareTypeOK
<1>3. \E m \in Nat, p \in 1..ia, q \in 1..ib : BothRead(m, p, q)
  BY <1>1 DEF NumberInv
<1> QED
  BY <1>1, <1>2, <1>3

LEMMA ZerosCompare ==
  ASSUME CompareInv, Zeros
  PROVE  CompareInv'
<1>1. /\ loop = "zeros" /\ UNCHANGED <<va, vb, part, firstdiff, result>> /\ sa' = sa /\ sb' = sb
  BY SameStrings DEF Zeros
<1>2. /\ CompareTypeOK
      /\ sa \in Strings /\ sb \in Strings /\ Len(sa) \in Nat /\ Len(sb) \in Nat
      /\ ia \in 1..Len(sa) + 1 /\ ib \in 1..Len(sb) + 1 /\ ia \in Int /\ ib \in Int
  BY <1>1, NumbersRead
<1>3. PICK m \in Nat, p \in 1..ia, q \in 1..ib : BothRead(m, p, q)
  BY <1>1, NumbersRead
<1>4. /\ Agree(sa, sb, m) /\ At(sa, p, m) /\ At(sb, q, m)
      /\ Reads(sa, p, ia) /\ Reads(sb, q, ib)
      /\ Spelled(sa, p, ia) = 0 /\ Spelled(sb, q, ib) = 0
  BY <1>1, <1>3 DEF BothRead
<1>5. firstdiff = 0
  BY <1>1 DEF CompareInv
<1>6. CASE ZeroAt(sa, ia) /\ ia' = ia + 1 /\ UNCHANGED <<ib, loop>>
  <2>1. DigitAt(sa, ia) /\ sa[ia] = Zero /\ ia <= Len(sa)
    BY <1>6 DEF ZeroAt, DigitAt, IsDigit, Zero
  <2>2. Reads(sa, p, ia + 1) /\ Spelled(sa, p, ia + 1) = 10 * 0 + (Zero - Zero)
    BY <1>2, <1>4, <2>1, ReadsStep
  <2>3. Spelled(sa, p, ia + 1) = 0
    BY <2>2 DEF Zero
  <2>4. ia + 1 \in 1..Len(sa) + 1 /\ p \in 1..ia + 1
    BY <1>2, <2>1
  <2>5. CompareTypeOK'
    BY <1>1, <1>2, <1>6, <2>4 DEF CompareTypeOK
  <2>6. NumberInv'
    BY <1>1, <1>4, <1>5, <1>6, <2>2, <2>3, <2>4 DEF NumberInv, BothRead
  <2> QED
    BY <1>1, <1>5, <1>6, <2>5, <2>6 DEF CompareInv, OrdersAsPolicy
<1>7. CASE ZeroAt(sb, ib) /\ ib' = ib + 1 /\ UNCHANGED <<ia, loop>>
  <2>1. DigitAt(sb, ib) /\ sb[ib] = Zero /\ ib <= Len(sb)
    BY <1>7 DEF ZeroAt, DigitAt, IsDigit, Zero
  <2>2. Reads(sb, q, ib + 1) /\ Spelled(sb, q, ib + 1) = 10 * 0 + (Zero - Zero)
    BY <1>2, <1>4, <2>1, ReadsStep
  <2>3. Spelled(sb, q, ib + 1) = 0
    BY <2>2 DEF Zero
  <2>4. ib + 1 \in 1..Len(sb) + 1 /\ q \in 1..ib + 1
    BY <1>2, <2>1
  <2>5. CompareTypeOK'
    BY <1>1, <1>2, <1>7, <2>4 DEF CompareTypeOK
  <2>6. NumberInv'
    BY <1>1, <1>4, <1>5, <1>7, <2>2, <2>3, <2>4 DEF NumberInv, BothRead
  <2> QED
    BY <1>1, <1>5, <1>7, <2>5, <2>6 DEF CompareInv, OrdersAsPolicy
<1>8. CASE ~ZeroAt(sa, ia) /\ ~ZeroAt(sb, ib) /\ loop' = "digits" /\ UNCHANGED <<ia, ib>>
  <2>1. CompareTypeOK'
    BY <1>1, <1>2, <1>8 DEF CompareTypeOK
  <2>2. SameDigits(0, 0, 1)'
    BY <1>1, <1>8 DEF SameDigits, ZeroAt
  <2>3. 1 \in Nat \ {0}
    OBVIOUS
  <2>4. NumberInv'
    BY <1>1, <1>4, <1>5, <1>8, <2>2, <2>3 DEF NumberInv, BothRead
  <2> QED
    BY <1>1, <1>8, <2>1, <2>4 DEF CompareInv, OrdersAsPolicy
<1> QED
  BY <1>6, <1>7, <1>8 DEF Zeros, Goto

\* A digit more makes the number greater than one that has no more digits.
LEMMA SameDigitsLonger ==
  ASSUME NEW m \in Nat, NEW n \in Nat, NEW power \in Nat \ {0}, SameDigits(m, n, power)
  PROVE  /\ DigitAt(sa, ia) /\ sa[ia] - Zero \in 0..9 => n < 10 * m + (sa[ia] - Zero)
         /\ DigitAt(sb, ib) /\ sb[ib] - Zero \in 0..9 => m < 10 * n + (sb[ib] - Zero)
<1>1. ASSUME DigitAt(sa, ia), sa[ia] - Zero \in 0..9
      PROVE  n < 10 * m + (sa[ia] - Zero)
  <2>1. power = 1 => sa[ia] # Zero
    BY <1>1 DEF SameDigits, ZeroAt, DigitAt
  <2>2. PICK d \in 0..9 : d = sa[ia] - Zero
    BY <1>1
  <2>3. power = 1 => d # 0
    BY <2>1, <2>2, <1>1 DEF DigitAt, IsDigit, Zero
  <2> QED
    BY <2>2, <2>3 DEF SameDigits
<1>2. ASSUME DigitAt(sb, ib), sb[ib] - Zero \in 0..9
      PROVE  m < 10 * n + (sb[ib] - Zero)
  <2>1. power = 1 => sb[ib] # Zero
    BY <1>2 DEF SameDigits, ZeroAt, DigitAt
  <2>2. PICK d \in 0..9 : d = sb[ib] - Zero
    BY <1>2
  <2>3. power = 1 => d # 0
    BY <2>1, <2>2, <1>2 DEF DigitAt, IsDigit, Zero
  <2> QED
    BY <2>2, <2>3 DEF SameDigits
<1> QED
  BY <1>1, <1>2

LEMMA DigitsCompare ==
  ASSUME CompareInv, Digits
  PROVE  CompareInv'
<1>1. /\ loop = "digits" /\ UNCHANGED <<va, vb, part, result>> /\ sa' = sa /\ sb' = sb
  BY SameStrings DEF Digits
<1>2. /\ CompareTypeOK
      /\ sa \in Strings /\ sb \in Strings /\ Len(sa) \in Nat /\ Len(sb) \in Nat
      /\ ia \in 1..Len(sa) + 1 /\ ib \in 1..Len(sb) + 1 /\ ia \in Int /\ ib \in Int
  BY <1>1, NumbersRead
<1>3. PICK m \in Nat, p \in 1..ia, q \in 1..ib : BothRead(m, p, q)
  BY <1>1, NumbersRead
<1>4. CASE ~(DigitAt(sa, ia) /\ DigitAt(sb, ib))
  <2>1. loop' = "numbers" /\ UNCHANGED <<ia, ib, firstdiff>>
    BY <1>4 DEF Digits, Goto
  <2>2. CompareTypeOK'
    BY <1>1, <1>2, <2>1 DEF CompareTypeOK
  <2>3. NumberInv'
    BY <1>1, <1>3, <2>1 DEF NumberInv, BothRead, SameDigits
  <2> QED
    BY <1>1, <1>4, <2>1, <2>2, <2>3 DEF CompareInv, OrdersAsPolicy
<1>5. CASE DigitAt(sa, ia) /\ DigitAt(sb, ib)
  <2>1. /\ ia' = ia + 1 /\ ib' = ib + 1 /\ loop' = "digits"
        /\ firstdiff' = IF firstdiff = 0 THEN sa[ia] - sb[ib] ELSE firstdiff
    BY <1>1, <1>5 DEF Digits
  <2> DEFINE na == Spelled(sa, p, ia)
             nb == Spelled(sb, q, ib)
  <2>2. /\ Agree(sa, sb, m) /\ At(sa, p, m) /\ At(sb, q, m)
        /\ Reads(sa, p, ia) /\ Reads(sb, q, ib)
        /\ Sign(firstdiff) = Sign(na - nb)
        /\ \E power \in Nat \ {0} : SameDigits(na, nb, power)
    BY <1>1, <1>3 DEF BothRead
  <2>3. na \in Nat /\ nb \in Nat
    BY <1>2, <2>2, ReadsPlace
  <2>4. /\ Reads(sa, p, ia + 1) /\ sa[ia] - Zero \in 0..9
        /\ Spelled(sa, p, ia + 1) = 10 * na + (sa[ia] - Zero)
    BY <1>2, <1>5, <2>2, ReadsStep
  <2>5. /\ Reads(sb, q, ib + 1) /\ sb[ib] - Zero \in 0..9
        /\ Spelled(sb, q, ib + 1) = 10 * nb + (sb[ib] - Zero)
    BY <1>2, <1>5, <2>2, ReadsStep
  <2>6. ia \in 1..Len(sa) /\ ib \in 1..Len(sb)
    BY <1>2, <1>5 DEF DigitAt
  <2>7. sa[ia] \in 1..255 /\ sb[ib] \in 1..255
    BY <1>2, <2>6, CharacterAt
  <2>8. firstdiff \in Int /\ firstdiff' \in Int
    BY <1>2, <2>1, <2>7 DEF CompareTypeOK
  <2>9. ia' \in 1..Len(sa) + 1 /\ ib' \in 1..Len(sb) + 1 /\ p \in 1..ia' /\ q \in 1..ib'
    BY <1>2, <2>1, <2>6
  <2>10. CompareTypeOK'
    BY <1>1, <1>2, <2>1, <2>8, <2>9 DEF CompareTypeOK
  <2> HIDE DEF na, nb
  <2>11. PICK d \in 0..9, e \in 0..9 : d = sa[ia] - Zero /\ e = sb[ib] - Zero
    BY <2>4, <2>5
  <2>12. sa[ia] - sb[ib] = d - e
    BY <2>7, <2>11 DEF Zero
  <2>13. Sign(firstdiff') = Sign((10 * na + d) - (10 * nb + e))
    <3>1. firstdiff' = IF firstdiff = 0 THEN d - e ELSE firstdiff
      BY <2>1, <2>12
    <3>2. Sign(IF firstdiff = 0 THEN d - e ELSE firstdiff) = Sign((10 * na + d) - (10 * nb + e))
      <4>1. na < nb \/ na = nb \/ na > nb
        BY <2>3
      <4>2. Sign(firstdiff) = Sign(na - nb)
        BY <2>2
      <4>3. CASE na = nb
        BY <2>3, <2>8, <4>2, <4>3 DEF Sign
      <4>4. CASE na < nb
        BY <2>3, <2>8, <4>2, <4>4 DEF Sign
      <4>5. CASE na > nb
        BY <2>3, <2>8, <4>2, <4>5 DEF Sign
      <4> QED
        BY <4>1, <4>3, <4>4, <4>5
    <3> QED
      BY <3>1, <3>2
  <2>14. PICK u \in Nat, v \in Nat : u = 10 * na + d /\ v = 10 * nb + e
    BY <2>3
  <2>15. \E power \in Nat \ {0} : SameDigits(u, v, power)'
    <3>1. PICK power \in Nat \ {0} : SameDigits(na, nb, power)
      BY <2>2
    <3>2. nb < 10 * na + d /\ na < 10 * nb + e
      BY <1>5, <2>3, <2>4, <2>5, <2>11, <3>1, SameDigitsLonger
    <3>3. /\ 10 * power \in Nat \ {0} /\ 10 * power # 1
          /\ u < 10 * power /\ v < 10 * power /\ 10 * power <= 10 * u /\ 10 * power <= 10 * v
      BY <2>3, <2>14, <3>1, <3>2 DEF SameDigits
    <3>4. SameDigits(u, v, 10 * power)'
      BY <3>3 DEF SameDigits
    <3> QED
      BY <3>3, <3>4
  <2>16. BothRead(m, p, q)'
    <3>1. Spelled(sa', p, ia') = u /\ Spelled(sb', q, ib') = v
      BY <1>1, <2>1, <2>4, <2>5, <2>11, <2>14
    <3>2. Sign(firstdiff') = Sign(u - v)
      BY <2>13, <2>14
    <3> QED
      BY <1>1, <2>1, <2>2, <2>4, <2>5, <2>15, <3>1, <3>2 DEF BothRead
  <2>17. NumberInv'
    BY <2>9, <2>16 DEF NumberInv
  <2> QED
    BY <1>1, <2>1, <2>10, <2>17 DEF CompareInv, OrdersAsPolicy
<1> QED
  BY <1>4, <1>5

LEMMA NumbersCompare ==
  ASSUME CompareInv, Numbers
  PROVE  CompareInv'
<1>1. /\ loop = "numbers" /\ UNCHANGED <<va, vb, part, ia, ib, firstdiff>>
      /\ sa' = sa /\ sb' = sb
  BY SameStrings DEF Numbers
<1>2. /\ CompareTypeOK
      /\ sa \in Strings /\ sb \in Strings /\ Len(sa) \in Nat /\ Len(sb) \in Nat
      /\ ia \in 1..Len(sa) + 1 /\ ib \in 1..Len(sb) + 1 /\ ia \in Int /\ ib \in Int
  BY <1>1, NumbersRead
<1>3. PICK m \in Nat, p \in 1..ia, q \in 1..ib : BothRead(m, p, q)
  BY <1>1, NumbersRead
<1> DEFINE na == Spelled(sa, p, ia)
           nb == Spelled(sb, q, ib)
<1>4. /\ Agree(sa, sb, m) /\ At(sa, p, m) /\ At(sb, q, m)
      /\ Reads(sa, p, ia) /\ Reads(sb, q, ib)
      /\ Sign(firstdiff) = Sign(na - nb)
      /\ \E power \in Nat \ {0} : SameDigits(na, nb, power)
  BY <1>1, <1>3 DEF BothRead
<1>5. na \in Nat /\ nb \in Nat /\ firstdiff \in Int
  BY <1>2, <1>4, ReadsPlace DEF CompareTypeOK
<1>6. ia' \in 1..Len(sa) + 1 /\ ib' \in 1..Len(sb) + 1
  BY <1>1, <1>2
<1>7. ~(DigitAt(sa, ia) /\ DigitAt(sb, ib))
  BY <1>1 DEF CompareInv
<1>8. CASE DigitAt(sa, ia)
  <2>1. sa[ia] - Zero \in 0..9
    BY <1>2, <1>4, <1>8, ReadsStep
  <2>2. nb < 10 * na + (sa[ia] - Zero)
    BY <1>4, <1>5, <1>8, <2>1, SameDigitsLonger
  <2>3. StringOrder(sa, sb) = 1
    BY <1>2, <1>4, <1>7, <1>8, <2>2, LongerGreater
  <2>4. Return(1)
    BY <1>8 DEF Numbers
  <2> QED
    BY <1>1, <1>6, <2>3, <2>4, Returns, SignOf
<1>9. CASE DigitAt(sb, ib)
  <2>1. sb[ib] - Zero \in 0..9
    BY <1>2, <1>4, <1>9, ReadsStep
  <2>2. na < 10 * nb + (sb[ib] - Zero)
    BY <1>4, <1>5, <1>9, <2>1, SameDigitsLonger
  <2>3. Agree(sb, sa, m)
    BY <1>4 DEF Agree
  <2>4. StringOrder(sb, sa) = 1
    BY <1>2, <1>4, <1>7, <1>9, <2>2, <2>3, LongerGreater
  <2>5. StringOrder(sa, sb) = -1
    BY <1>2, <2>4, StringOrderConverse
  <2>6. Return(-1)
    BY <1>7, <1>9 DEF Numbers
  <2> QED
    BY <1>1, <1>6, <2>5, <2>6, Returns, SignOf
<1>10. CASE ~DigitAt(sa, ia) /\ ~DigitAt(sb, ib)
  <2>1. /\ na # nb => Sign(na - nb) = StringOrder(sa, sb)
        /\ na = nb => Agree(sa, sb, m + 1) /\ At(sa, ia, m + 1) /\ At(sb, ib, m + 1)
    BY <1>2, <1>4, <1>10, NumbersOrder
  <2>2. firstdiff = 0 <=> na = nb
    <3> HIDE DEF na, nb
    <3> QED
      BY <1>4, <1>5 DEF Sign
  <2>3. CASE firstdiff # 0
    <3>1. Return(firstdiff)
      BY <1>10, <2>3 DEF Numbers
    <3>2. Sign(firstdiff) = StringOrder(sa, sb)
      BY <1>4, <2>1, <2>2, <2>3
    <3> QED
      BY <1>1, <1>5, <1>6, <2>3, <3>1, <3>2, Returns
  <2>4. CASE firstdiff = 0
    <3>1. loop' = "component" /\ UNCHANGED result
      BY <1>10, <2>4 DEF Numbers, Goto
    <3>2. CompareTypeOK'
      BY <1>1, <1>2, <3>1 DEF CompareTypeOK
    <3>3. LoopInv'
      BY <1>1, <2>1, <2>2, <2>4 DEF LoopInv
    <3> QED
      BY <1>1, <3>1, <3>2, <3>3 DEF CompareInv, OrdersAsPolicy
  <2> QED
    BY <2>3, <2>4
<1> QED
  BY <1>8, <1>9, <1>10

(***************************************************************************)
(* compareComponent's loops (debversion.go:96-161) keep the invariant,     *)
(* whatever versions are compared.                                         *)
(***************************************************************************)
THEOREM CompareInvariant == Comparison => []CompareInv
<1>1. CompareInv /\ [CompareNext]_compareVars => CompareInv'
  <2> SUFFICES ASSUME CompareInv, [CompareNext]_compareVars
               PROVE  CompareInv'
    OBVIOUS
  <2>1. CASE UNCHANGED compareVars
    <3>1. UNCHANGED <<va, vb, part, ia, ib, loop, firstdiff, result>> /\ sa' = sa /\ sb' = sb
      BY <2>1, SameStrings DEF compareVars
    <3> QED
      BY <3>1 DEF CompareInv, CompareTypeOK, LoopInv, NumberInv, BothRead, SameDigits,
                  OrdersAsPolicy
  <2> QED
    BY <2>1, EpochsCompare, ComponentCompare, EqualCompare, NonDigitsCompare, ZerosCompare,
       DigitsCompare, NumbersCompare DEF CompareNext
<1> QED
  BY <1>1, InitCompare, PTL DEF Comparison

(***************************************************************************)
(* Whatever two versions DebVersionCompare is given, its result has the    *)
(* sign of the policy manual's order.                                      *)
(***************************************************************************)
THEOREM ComparesAsPolicy == Comparison => []OrdersAsPolicy
<1>1. CompareInv => OrdersAsPolicy
  BY DEF CompareInv
<1> QED
  BY <1>1, CompareInvariant, PTL

------------------------------------------------------------------------------
(***************************************************************************)
(* Versions as numbers.                                                    *)
(***************************************************************************)
\* A finite set of strings can be numbered in their order.
LEMMA StringsRanked ==
  ASSUME NEW S \in SUBSET Strings, IsFiniteSet(S)
  PROVE  \E rank \in [S -> Nat] :
           \A x, y \in S : StringOrder(x, y) = Sign(rank[x] - rank[y])
<1> DEFINE Smaller(x) == {z \in S : StringOrder(z, x) = -1}
           rank == [x \in S |-> Cardinality(Smaller(x))]
<1>1. \A x \in S : IsFiniteSet(Smaller(x)) /\ rank[x] \in Nat
  <2>1. \A x \in S : Smaller(x) \in SUBSET S
    OBVIOUS
  <2>2. \A x \in S : IsFiniteSet(Smaller(x))
    BY <2>1, FS_Subset
  <2> QED
    BY <2>2, FS_CardinalityType
<1>2. ASSUME NEW x \in S, NEW y \in S, StringOrder(x, y) = -1
      PROVE  rank[x] < rank[y]
  <2>1. Smaller(x) \in SUBSET Smaller(y)
    <3> SUFFICES ASSUME NEW z \in S, StringOrder(z, x) = -1
                 PROVE  StringOrder(z, y) = -1
      OBVIOUS
    <3>1. StringOrder(z, y) \in {-1, 0, 1} /\ StringOrder(z, y) <= 0 /\ StringOrder(z, y) # 0
      BY <1>2, StringOrderTransitive, StringOrderValues
    <3> QED
      BY <3>1
  <2>2. x \in Smaller(y) /\ x \notin Smaller(x)
    <3>1. StringOrder(x, x) = 0
      BY StringOrderValues
    <3> QED
      BY <1>2, <3>1
  <2>3. /\ Cardinality(Smaller(x)) <= Cardinality(Smaller(y))
        /\ Cardinality(Smaller(x)) # Cardinality(Smaller(y))
    <3> HIDE DEF Smaller
    <3> QED
      BY <1>1, <2>1, <2>2, FS_Subset
  <2>4. Cardinality(Smaller(x)) \in Nat /\ Cardinality(Smaller(y)) \in Nat
    BY <1>1, FS_CardinalityType
  <2> QED
    BY <2>3, <2>4
<1>3. ASSUME NEW x \in S, NEW y \in S, StringOrder(x, y) = 0
      PROVE  rank[x] = rank[y]
  <2>1. StringOrder(y, x) = 0
    BY <1>3, StringOrderConverse
  <2>2. \A z \in S : StringOrder(z, x) = -1 <=> StringOrder(z, y) = -1
    <3> SUFFICES ASSUME NEW z \in S
                 PROVE  StringOrder(z, x) = -1 <=> StringOrder(z, y) = -1
      OBVIOUS
    <3>1. StringOrder(z, x) \in {-1, 0, 1} /\ StringOrder(z, y) \in {-1, 0, 1}
      BY StringOrderValues
    <3>2. StringOrder(z, x) = -1 => StringOrder(z, y) <= 0 /\ StringOrder(z, y) # 0
      BY <1>3, StringOrderTransitive
    <3>3. StringOrder(z, y) = -1 => StringOrder(z, x) <= 0 /\ StringOrder(z, x) # 0
      BY <2>1, StringOrderTransitive
    <3> QED
      BY <3>1, <3>2, <3>3
  <2>3. Smaller(x) = Smaller(y)
    BY <2>2
  <2> QED
    BY <2>3
<1> HIDE DEF rank
<1>4. ASSUME NEW x \in S, NEW y \in S
      PROVE  StringOrder(x, y) = Sign(rank[x] - rank[y])
  <2>1. StringOrder(x, y) \in {-1, 0, 1} /\ StringOrder(y, x) = -StringOrder(x, y)
    BY StringOrderValues, StringOrderConverse
  <2>2. rank[x] \in Nat /\ rank[y] \in Nat
    BY <1>1
  <2>3. CASE StringOrder(x, y) = -1
    BY <1>2, <2>2, <2>3 DEF Sign
  <2>4. CASE StringOrder(x, y) = 0
    BY <1>3, <2>2, <2>4 DEF Sign
  <2>5. CASE StringOrder(x, y) = 1
    <3>1. StringOrder(y, x) = -1
      BY <2>1, <2>5
    <3>2. rank[y] < rank[x]
      BY <1>2, <3>1
    <3> QED
      BY <2>2, <2>5, <3>2 DEF Sign
  <2> QED
    BY <2>1, <2>3, <2>4, <2>5
<1>5. rank \in [S -> Nat]
  BY <1>1 DEF rank
<1> QED
  BY <1>4, <1>5

Numbered(v, rank) ==
  [epoch |-> v.epoch, version |-> rank[v.version], revision |-> rank[v.revision]]

(***************************************************************************)
(* The merge's versions may be numbers (releaseindex.go:144-151): those of *)
(* any finite set of versions can be numbered so that one is Newer than    *)
(* another just when DebVersionCompare has it so, and has the same numbers *)
(* just when it finds no difference.                                       *)
(***************************************************************************)
THEOREM VersionsAreNumbers ==
  ASSUME NEW V \in SUBSET Versions, IsFiniteSet(V)
  PROVE  \E rank :
           \A v, w \in V :
             /\ Numbered(v, rank).version \in Nat /\ Numbered(v, rank).revision \in Nat
             /\ Newer(Numbered(v, rank), Numbered(w, rank)) <=> VersionOrder(v, w) = 1
             /\ Numbered(v, rank) = Numbered(w, rank) <=> VersionOrder(v, w) = 0
<1> DEFINE S == {v.version : v \in V} \cup {v.revision : v \in V}
<1>1. \A v \in V : v.version \in Strings /\ v.revision \in Strings /\ v.epoch \in Int
  BY VersionsAssumption DEF Strings
<1>2. S \in SUBSET Strings
  BY <1>1
<1>3. IsFiniteSet(S)
  <2>1. IsFiniteSet({v.version : v \in V})
    <3> DEFINE f == [v \in V |-> v.version]
    <3>1. {v.version : v \in V} = {f[v] : v \in V}
      OBVIOUS
    <3>2. f \in Surjection(V, {v.version : v \in V})
      BY <3>1 DEF Surjection
    <3> QED
      BY <3>2, FS_Surjection
  <2>2. IsFiniteSet({v.revision : v \in V})
    <3> DEFINE f == [v \in V |-> v.revision]
    <3>1. {v.revision : v \in V} = {f[v] : v \in V}
      OBVIOUS
    <3>2. f \in Surjection(V, {v.revision : v \in V})
      BY <3>1 DEF Surjection
    <3> QED
      BY <3>2, FS_Surjection
  <2> QED
    BY <2>1, <2>2, FS_Union
<1>4. PICK rank \in [S -> Nat] : \A x, y \in S : StringOrder(x, y) = Sign(rank[x] - rank[y])
  <2> HIDE DEF S
  <2> QED
    BY <1>2, <1>3, StringsRanked
<1>5. ASSUME NEW v \in V, NEW w \in V
      PROVE  /\ Numbered(v, rank).version \in Nat /\ Numbered(v, rank).revision \in Nat
             /\ Newer(Numbered(v, rank), Numbered(w, rank)) <=> VersionOrder(v, w) = 1
             /\ Numbered(v, rank) = Numbered(w, rank) <=> VersionOrder(v, w) = 0
  <2>1. /\ rank[v.version] \in Nat /\ rank[w.version] \in Nat
        /\ rank[v.revision] \in Nat /\ rank[w.revision] \in Nat
    BY <1>4
  <2>2. /\ StringOrder(v.version, w.version) = Sign(rank[v.version] - rank[w.version])
        /\ StringOrder(v.revision, w.revision) = Sign(rank[v.revision] - rank[w.revision])
    BY <1>4
  <2>3. v.epoch \in Int /\ w.epoch \in Int
    BY <1>1
  <2> QED
    BY <2>1, <2>2, <2>3 DEF Numbered, Newer, VersionOrder, Sign
<1> QED
  BY <1>5

===============================================================================
