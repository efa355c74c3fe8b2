--------------------------- MODULE HistoryTrimProofs ---------------------------
(***************************************************************************)
(* Proofs about HistoryTrim, for every set of lengths and every bound on   *)
(* the chain: until AutoTrimLength is raised, what the log shows is in the *)
(* store and no collection panics.                                         *)
(***************************************************************************)
EXTENDS HistoryTrim, TLAPS

(***************************************************************************)
(* The window, without CHOOSE: when the head has a TrimAfter it is the     *)
(* newest release that has one, and when it has none nobody has.           *)
(***************************************************************************)
LEMMA NewestIsHead ==
  ASSUME NEW chain \in Seq(Releases), chain # <<>>, chain[Len(chain)].trimAfter > 0
  PROVE  /\ Trimming(chain) # {}
         /\ Newest(Trimming(chain)) = Len(chain)
<1> DEFINE S == Trimming(chain)
<1>1. Len(chain) \in Nat /\ Len(chain) \in 1..Len(chain)
  OBVIOUS
<1>2. Len(chain) \in S /\ \A m \in S : m <= Len(chain)
  BY <1>1 DEF Trimming
<1>3. S \subseteq Nat
  BY <1>1 DEF Trimming
<1>4. Newest(S) \in S /\ \A m \in S : m <= Newest(S)
  BY <1>2 DEF Newest
<1>5. Newest(S) = Len(chain)
  BY <1>1, <1>2, <1>3, <1>4
<1> QED
  BY <1>2, <1>5

LEMMA WindowTrimmed ==
  ASSUME NEW chain \in Seq(Releases), chain # <<>>, chain[Len(chain)].trimAfter > 0
  PROVE  Window(chain) = {m \in 1..Len(chain) : m >= Len(chain) - chain[Len(chain)].trimAfter}
BY NewestIsHead DEF Window

LEMMA WindowIs ==
  ASSUME TypeOK, TrimInv
  PROVE  Window(rel) = Low(Tip)..Tip
<1>1. rel \in Seq(Releases) /\ rel # <<>> /\ Tip \in 1..Tip /\ Tip \in Nat
  BY DEF TypeOK, Tip
<1>2. rel[Tip].trimAfter \in Nat /\ rel[Tip].trimAfter < Tip
  <2>1. rel[Tip] \in Releases
    BY <1>1 DEF Tip
  <2> QED
    BY <1>1, <2>1 DEF Releases, TrimInv
<1>3. CASE rel[Tip].trimAfter = 0
  <2>1. Trimming(rel) = {}
    BY <1>1, <1>3 DEF Trimming, TrimInv, Tip
  <2> QED
    BY <2>1, <1>3 DEF Window, Low, Tip
<1>4. CASE rel[Tip].trimAfter > 0
  <2>1. Window(rel) = {m \in 1..Tip : m >= Tip - rel[Tip].trimAfter}
    BY <1>1, <1>4, WindowTrimmed DEF Tip
  <2> QED
    BY <2>1, <1>1, <1>2, <1>4 DEF Low
<1> QED
  BY <1>2, <1>3, <1>4

(***************************************************************************)
(* What adding a release to the chain leaves as it was.                    *)
(***************************************************************************)
LEMMA Appended ==
  ASSUME TypeOK, NEW r \in Releases, rel' = Append(rel, r)
  PROVE  /\ rel' \in Seq(Releases) /\ rel' # <<>>
         /\ Tip' = Tip + 1 /\ Tip \in Nat /\ Tip > 0
         /\ rel'[Tip + 1] = r
         /\ \A n \in 1..Tip : rel'[n] = rel[n] /\ rel[n] \in Releases
BY DEF TypeOK, Tip

(***************************************************************************)
(* A child that inherits its parent's TrimAfter and has no greater length, *)
(* or is given one more than its length, keeps the invariant, and what it  *)
(* shows was shown before.                                                 *)
(***************************************************************************)
Continues(r) ==
  \/ r.trimAfter = rel[Tip].trimAfter /\ r.length <= rel[Tip].length
  \/ /\ r.trimAfter = r.length + 1 /\ r.trimAfter > 0 /\ r.trimAfter < Tip
     /\ r.length <= rel[Tip].length

LEMMA TrimInvStep ==
  ASSUME TypeOK, TrimInv, Lengths \subseteq Int,
         NEW r \in Releases, rel' = Append(rel, r), Continues(r)
  PROVE  TrimInv' /\ (Low(Tip))' >= Low(Tip) /\ (Low(Tip))' <= Tip' /\ Low(Tip) \in Nat \ {0}
<1> USE DEF Releases
<1>1. /\ Tip' = Tip + 1 /\ Tip \in Nat /\ Tip > 0
      /\ rel'[Tip + 1] = r
      /\ \A n \in 1..Tip : rel'[n] = rel[n] /\ rel[n] \in Releases
  BY Appended
<1>2. /\ rel[Tip].trimAfter \in Nat /\ rel[Tip].trimAfter < Tip /\ rel[Tip].length \in Int
      /\ rel[Tip].trimAfter > 0 => rel[Tip].length < rel[Tip].trimAfter
      /\ r.trimAfter \in Nat /\ r.length \in Int
  <2>1. Tip \in 1..Tip /\ rel[Tip] \in Releases
    BY <1>1
  <2> QED
    BY <2>1 DEF TrimInv
<1>3. /\ r.trimAfter < Tip + 1
      /\ r.trimAfter > 0 => r.length < r.trimAfter
      /\ rel[Tip].trimAfter > 0 => r.trimAfter > 0
  BY <1>1, <1>2 DEF Continues
<1>4. TrimInv'
  <2> SUFFICES ASSUME NEW n \in 1..Tip'
               PROVE  /\ rel'[n].trimAfter < n
                      /\ rel'[n].trimAfter > 0 =>
                           /\ rel'[n].length < rel'[n].trimAfter
                           /\ rel'[Tip'].trimAfter > 0
    BY DEF TrimInv
  <2>1. CASE n = Tip + 1
    BY <2>1, <1>1, <1>3
  <2>2. CASE n \in 1..Tip
    <3>1. /\ rel[n].trimAfter < n
          /\ rel[n].trimAfter > 0 => rel[n].length < rel[n].trimAfter /\ rel[Tip].trimAfter > 0
      BY <2>2 DEF TrimInv
    <3> QED
      BY <2>2, <3>1, <1>1, <1>3
  <2>3. n = Tip + 1 \/ n \in 1..Tip
    <3>1. Tip' = Tip + 1 /\ Tip \in Nat
      BY <1>1
    <3> QED
      BY <3>1
  <2> QED
    BY <2>1, <2>2, <2>3
<1>5. /\ Low(Tip) = IF rel[Tip].trimAfter = 0 THEN 1 ELSE Tip - rel[Tip].trimAfter
      /\ (Low(Tip))' = IF r.trimAfter = 0 THEN 1 ELSE Tip + 1 - r.trimAfter
  BY <1>1 DEF Low
<1>6. (Low(Tip))' >= Low(Tip) /\ (Low(Tip))' <= Tip' /\ Low(Tip) \in Nat \ {0}
  <2> DEFINE t == rel[Tip].trimAfter
             u == r.trimAfter
  <2>1. t \in Nat /\ t < Tip /\ u \in Nat /\ u < Tip + 1 /\ Tip \in Nat /\ Tip > 0
    BY <1>1, <1>2, <1>3
  <2>2. t > 0 => u > 0 /\ u <= t + 1
    BY <1>2, <1>3 DEF Continues
  <2>3. t = 0 => u < Tip
    BY <1>1, <1>2 DEF Continues
  <2> HIDE DEF t, u
  <2>4. /\ Low(Tip) = IF t = 0 THEN 1 ELSE Tip - t
        /\ (Low(Tip))' = IF u = 0 THEN 1 ELSE Tip + 1 - u
    BY <1>5 DEF t, u
  <2>5. Tip' = Tip + 1
    BY <1>1
  <2> QED
    BY <2>1, <2>2, <2>3, <2>4, <2>5
<1> QED
  BY <1>4, <1>6

\* A new release whose index is on disk keeps the window on disk.
LEMMA DiskStep ==
  ASSUME TypeOK, TrimInv, DiskInv, Lengths \subseteq Int,
         NEW r \in Releases, rel' = Append(rel, r), Continues(r),
         disk \subseteq disk', r.index \in disk'
  PROVE  DiskInv'
<1>1. /\ Tip' = Tip + 1 /\ Tip \in Nat /\ Tip > 0
      /\ rel'[Tip + 1] = r
      /\ \A n \in 1..Tip : rel'[n] = rel[n]
  BY Appended
<1>2. (Low(Tip))' >= Low(Tip) /\ Low(Tip) \in Nat \ {0} /\ (Low(Tip))' <= Tip'
  BY TrimInvStep
<1>3. (Low(Tip))' \in Int
  <2>1. rel'[Tip'] = r /\ r.trimAfter \in Nat
    BY <1>1 DEF Releases
  <2> QED
    BY <2>1, <1>1 DEF Low
<1> SUFFICES ASSUME NEW n \in (Low(Tip))'..Tip'
             PROVE  rel'[n].index \in disk'
  BY DEF DiskInv
<1>4. CASE n = Tip + 1
  BY <1>1, <1>4
<1>5. CASE n # Tip + 1
  <2>1. n \in Low(Tip)..Tip /\ n \in 1..Tip
    BY <1>1, <1>2, <1>3, <1>5
  <2> QED
    BY <2>1, <1>1 DEF DiskInv
<1> QED
  BY <1>4, <1>5

------------------------------------------------------------------------------
\* A new distribution.
LEMMA HistoryInitial == Init => HistoryInv
<1> SUFFICES ASSUME Init PROVE HistoryInv
  OBVIOUS
<1> USE LengthsAssumption
<1>1. PICK auto \in BOOLEAN, length \in Lengths :
        rel = <<[index |-> 0, trimAfter |-> 0, autoTrim |-> auto, length |-> length]>>
  BY DEF Init
<1>2. rel \in Seq(Releases) /\ Tip = 1 /\ rel # <<>> /\ rel[1].trimAfter = 0 /\ rel[1].index = 0
  BY <1>1 DEF Releases, Tip
<1>3. TypeOK
  <2>1. /\ disk = {0} /\ pc = "idle"
        /\ curr = 0 /\ count = 0 /\ trimCount = 0 /\ activeTrim = 0
    BY DEF Init
  <2>2. pending \in BOOLEAN
    BY DEF Init
  <2> QED
    BY <1>2, <2>1, <2>2 DEF TypeOK
<1>4. TrimInv
  <2>1. \A n \in 1..1 : n = 1
    OBVIOUS
  <2> QED
    BY <2>1, <1>2 DEF TrimInv
<1>5. DiskInv
  <2>1. Low(Tip) = 1 /\ disk = {0}
    BY <1>2 DEF Low, Init
  <2>2. \A n \in 1..1 : n = 1
    OBVIOUS
  <2> QED
    BY <2>1, <2>2, <1>2 DEF DiskInv
<1> QED
  BY <1>3, <1>4, <1>5 DEF HistoryInv, LoopInv, Init

LEMMA NotRaised ==
  ASSUME rel \in Seq(Releases), rel # <<>>, NEW r \in Releases, rel' = Append(rel, r), ~Raised'
  PROVE  r.length <= rel[Tip].length
<1> USE LengthsAssumption
<1>1. Tip \in Nat /\ Tip >= 1 /\ rel[Tip] \in Releases
  BY DEF Tip
<1>2. Len(rel') = Tip + 1 /\ rel'[Tip + 1] = r /\ rel'[Tip] = rel[Tip]
  BY <1>1 DEF Tip
<1>3. ~(rel'[Tip + 1].length > rel'[(Tip + 1) - 1].length)
  BY <1>1, <1>2 DEF Raised, Tip
<1>4. (Tip + 1) - 1 = Tip
  BY <1>1
<1>5. r.length \in Int /\ rel[Tip].length \in Int
  BY <1>1 DEF Releases
<1> QED
  BY <1>2, <1>3, <1>4, <1>5

(***************************************************************************)
(* Every step keeps the invariant, and the window on the chain, if it      *)
(* moves, moves on.  Only a step that adds a release or sweeps the store   *)
(* has something to show.                                                  *)
(***************************************************************************)
WindowRises == rel' = rel \/ (Low(Tip))' >= Low(Tip)

LEMMA HistoryInductive == HistoryInv /\ [Next]_vars /\ ~Raised' => HistoryInv' /\ WindowRises
<1> SUFFICES ASSUME HistoryInv, [Next]_vars, ~Raised'
             PROVE  HistoryInv' /\ WindowRises
  OBVIOUS
<1> USE LengthsAssumption
<1>t. TypeOK /\ TrimInv /\ LoopInv /\ DiskInv /\ pc # "panic"
  BY DEF HistoryInv
<1>h. /\ Tip \in Nat /\ Tip > 0 /\ rel \in Seq(Releases)
      /\ rel[Tip] \in Releases /\ Tip \in 1..Tip
      /\ rel[Tip].trimAfter < Tip /\ rel[Tip].trimAfter \in Nat
  <2>1. Tip \in Nat /\ Tip > 0 /\ rel \in Seq(Releases) /\ rel[Tip] \in Releases
    BY <1>t DEF TypeOK, Tip
  <2>2. Tip \in 1..Tip
    BY <2>1
  <2> QED
    BY <2>1, <2>2, <1>t DEF TrimInv, Releases
<1>r. \A n \in 1..Tip : rel[n] \in Releases
  BY <1>h DEF Tip
\* A published release.
<1>p. ASSUME NEW r \in Releases, Publish(r), Continues(r), disk \subseteq disk', r.index \in disk',
             disk' \subseteq Nat,
             UNCHANGED <<curr, count, trimCount, activeTrim>>
      PROVE  HistoryInv' /\ WindowRises
  <2>1. rel' = Append(rel, r) /\ pending' = TRUE /\ pc' = "idle"
    BY <1>p DEF Publish
  <2>2. TypeOK'
    BY <2>1, <1>p, <1>t, Appended DEF TypeOK
  <2>3. TrimInv' /\ DiskInv' /\ WindowRises
    BY <2>1, <1>p, <1>t, TrimInvStep, DiskStep DEF WindowRises
  <2> QED
    BY <2>1, <2>2, <2>3 DEF HistoryInv, LoopInv
<1>1. CASE \E k \in Indexes : Upload(k)
  <2>1. PICK k \in Indexes : Upload(k)
    BY <1>1
  <2> DEFINE new == [rel[Tip] EXCEPT !.index = k]
  <2>2. k \in Nat
    BY <1>h, <1>r DEF Indexes, Releases
  <2>3. /\ new \in Releases /\ new.index = k /\ new.trimAfter = rel[Tip].trimAfter
        /\ new.length = rel[Tip].length /\ new.autoTrim = rel[Tip].autoTrim
        /\ new.length \in Int
    BY <2>2, <1>h DEF Releases
  <2>4. disk' = disk \cup {k} /\ disk' \subseteq Nat /\ new.index \in disk' /\ disk \subseteq disk'
    BY <2>1, <2>2, <2>3, <1>t DEF Upload, TypeOK
  <2> HIDE DEF new
  <2>5. CASE new.autoTrim
    <3>1. /\ pc' = "trim" /\ child' = new /\ curr' = Tip /\ count' = new.length
          /\ trimCount' = 0 /\ activeTrim' = 0 /\ rel' = rel /\ pending' = pending
      BY <2>1, <2>5 DEF Upload, new
    <3>2. Tip' = Tip
      BY <3>1 DEF Tip
    <3>3. TypeOK'
      BY <3>1, <2>3, <2>4, <1>t, <1>h DEF TypeOK
    <3>4. TrimInv'
      BY <3>1, <3>2, <1>t DEF TrimInv
    <3>5. DiskInv'
      BY <3>1, <3>2, <2>4, <1>t DEF DiskInv, Low
    <3>6. new = [rel[Tip] EXCEPT !.index = new.index]
      BY <2>3 DEF new
    <3>7. LoopInv'
      BY <3>1, <3>2, <3>6, <2>3, <2>4, <1>h DEF LoopInv
    <3> QED
      BY <3>1, <3>3, <3>4, <3>5, <3>7 DEF HistoryInv, WindowRises
  <2>6. CASE ~new.autoTrim
    <3>1. Publish(new) /\ UNCHANGED loopVars
      BY <2>1, <2>6 DEF Upload, new
    <3>2. Continues(new)
      BY <2>3, <1>h DEF Continues, Releases
    <3> QED
      BY <3>1, <3>2, <2>3, <2>4, <1>p DEF loopVars
  <2> QED
    BY <2>5, <2>6
\* In the loop the child is the head but for its index.
<1>c. ASSUME pc = "trim"
      PROVE  /\ child \in Releases /\ child.index \in disk /\ child.length \in Int
             /\ child.trimAfter = rel[Tip].trimAfter /\ child.length = rel[Tip].length
             /\ curr \in Nat /\ curr <= Tip /\ trimCount = Tip - curr
             /\ count = child.length - trimCount /\ count \in Int
             /\ trimCount > 0 => count >= -1
             /\ activeTrim = 0 /\ trimCount \in Nat
             /\ child = [rel[Tip] EXCEPT !.index = child.index]
             /\ disk \subseteq Nat
  BY <1>c, <1>t, <1>h DEF LoopInv, TypeOK, Releases
<1>2. CASE HistoryShort
  <2>1. pc = "trim" /\ Publish(child) /\ UNCHANGED <<disk, loopVars>>
    BY <1>2 DEF HistoryShort
  <2>2. Continues(child)
    BY <2>1, <1>c DEF Continues
  <2> QED
    BY <2>1, <2>2, <1>c, <1>p DEF loopVars
<1>3. CASE TrimStep
  <2>1. /\ pc = "trim" /\ curr # 0 /\ ~(count < 0)
        /\ count' = count - 1 /\ trimCount' = trimCount + 1 /\ curr' = curr - 1
        /\ UNCHANGED <<rel, disk, pending, pc, child>>
    BY <1>3 DEF TrimStep, ShortEnough, Trims
  <2>2. curr \in 1..Tip
    BY <2>1, <1>c, <1>h
  <2>3. rel[curr].trimAfter \in Nat
    BY <2>2, <1>r DEF Releases
  <2>4. activeTrim' = 0
    <3> DEFINE t == rel[curr].trimAfter
               active == IF t # 0 /\ t < activeTrim THEN t ELSE activeTrim
    <3>1. activeTrim' = IF active > 1 THEN active - 1 ELSE active
      BY <1>3 DEF TrimStep
    <3>2. active = 0
      BY <2>1, <2>3, <1>c
    <3> QED
      BY <3>1, <3>2
  <2>5. Tip' = Tip
    BY <2>1 DEF Tip
  <2>6. TypeOK'
    <3>1. curr - 1 \in Nat
      BY <2>1, <1>c
    <3>2. count - 1 \in Int /\ trimCount + 1 \in Nat
      BY <2>1, <1>c
    <3>3. rel' \in Seq(Releases) /\ rel' # <<>> /\ disk' \subseteq Nat
      BY <2>1, <1>t DEF TypeOK
    <3>6. pending' \in BOOLEAN
      <4>1. pending \in BOOLEAN
        BY <1>t, Zenon DEF TypeOK
      <4>2. pending' = pending
        BY <2>1
      <4> QED
        BY <4>1, <4>2, Zenon
    <3>4. pc' = "trim" /\ child' \in Releases
      BY <2>1, <1>c
    <3>5. curr' \in Nat /\ trimCount' \in Nat /\ activeTrim' \in Nat /\ count' \in Int
      BY <2>1, <2>4, <3>1, <3>2
    <3> QED
      BY <3>3, <3>4, <3>5, <3>6 DEF TypeOK
  <2>7. TrimInv' /\ DiskInv'
    BY <2>1, <2>5, <1>t DEF TrimInv, DiskInv, Low
  <2>8. LoopInv'
    <3>1. /\ curr - 1 <= Tip
          /\ trimCount + 1 = Tip - (curr - 1)
          /\ count - 1 = child.length - (trimCount + 1)
          /\ count - 1 >= -1
      BY <2>1, <1>c, <1>h
    <3> QED
      BY <2>1, <2>4, <2>5, <3>1, <1>c DEF LoopInv
  <2> QED
    BY <2>1, <2>6, <2>7, <2>8 DEF HistoryInv, WindowRises
<1>4. CASE TrimEnd
  <2> DEFINE r == IF trimCount > 0 THEN [child EXCEPT !.trimAfter = trimCount] ELSE child
  <2>1. /\ pc = "trim" /\ curr # 0 /\ count < 0
        /\ Publish(r) /\ UNCHANGED <<disk, loopVars>>
    BY <1>4 DEF TrimEnd, ShortEnough, Trims
  <2>2. r \in Releases /\ r.index = child.index /\ r.length = child.length
    BY <2>1, <1>c DEF Releases
  <2>3. Continues(r)
    <3>1. CASE trimCount > 0
      <4>1. r.trimAfter = trimCount
        BY <3>1, <2>1, <1>c DEF Releases
      <4>2. trimCount = child.length + 1
        BY <3>1, <2>1, <1>c
      <4>3. trimCount < Tip
        BY <2>1, <1>c, <1>h
      <4> QED
        BY <3>1, <4>1, <4>2, <4>3, <2>1, <2>2, <1>c DEF Continues
    <3>2. CASE ~(trimCount > 0)
      BY <3>2, <2>1, <1>c DEF Continues
    <3> QED
      BY <3>1, <3>2
  <2> HIDE DEF r
  <2> QED
    BY <2>1, <2>2, <2>3, <1>c, <1>p DEF loopVars
<1>5. CASE \E auto \in BOOLEAN, length \in Lengths : Configure(auto, length)
  <2>1. PICK auto \in BOOLEAN, length \in Lengths : Configure(auto, length)
    BY <1>5
  <2> DEFINE r == [rel[Tip] EXCEPT !.autoTrim = auto, !.length = length]
  <2>0. /\ pc = "idle" /\ rel' = Append(rel, r) /\ r \in Releases /\ r.length = length
        /\ UNCHANGED <<disk, pending, pc, loopVars>>
    BY <2>1, <1>h DEF Configure, Releases
  <2> HIDE DEF r
  <2>2. /\ pc = "idle" /\ length <= rel[Tip].length /\ rel' = Append(rel, r)
        /\ UNCHANGED <<disk, pending, pc, loopVars>>
    <3>1. rel # <<>>
      BY <1>t DEF TypeOK
    <3>2. r.length <= rel[Tip].length
      BY <2>0, <1>h, <3>1, NotRaised
    <3> QED
      BY <2>0, <3>2
  <2> USE DEF r
  <2>3. /\ r \in Releases /\ r.length = length /\ r.trimAfter = rel[Tip].trimAfter
        /\ r.index = rel[Tip].index
    BY <1>h DEF Releases
  <2> HIDE DEF r
  <2>4. Continues(r)
    BY <2>2, <2>3 DEF Continues
  <2>5. r.index \in disk
    <3>1. Tip \in Low(Tip)..Tip
      BY <1>h DEF Low
    <3> QED
      BY <3>1, <2>3, <1>t DEF DiskInv
  <2>6. TypeOK'
    BY <2>2, <2>3, <1>t, Appended DEF TypeOK, loopVars
  <2>7. TrimInv' /\ DiskInv' /\ WindowRises
    BY <2>2, <2>3, <2>4, <2>5, <1>t, TrimInvStep, DiskStep DEF WindowRises
  <2> QED
    BY <2>2, <2>6, <2>7 DEF HistoryInv, LoopInv
<1>6. CASE Collect
  <2> DEFINE used == {rel[n].index : n \in Marked(rel)}
  <2>1. Marked(rel) = Low(Tip)..Tip
    BY <1>t, WindowIs DEF Marked
  <2>2. used \subseteq disk
    BY <2>1, <1>t DEF DiskInv
  <2>3. /\ pc = "idle" /\ disk' = used /\ pending' = FALSE /\ UNCHANGED <<pc, rel, loopVars>>
    BY <1>6, <2>2 DEF Collect
  <2>4. Tip' = Tip
    BY <2>3 DEF Tip
  <2>5. TypeOK'
    BY <2>2, <2>3, <1>t DEF TypeOK, loopVars
  <2>6. TrimInv'
    BY <2>3, <2>4, <1>t DEF TrimInv
  <2>7. DiskInv'
    BY <2>1, <2>3, <2>4 DEF DiskInv, Low
  <2> QED
    BY <2>3, <2>5, <2>6, <2>7 DEF HistoryInv, LoopInv, WindowRises
<1>7. CASE UNCHANGED vars
  BY <1>7 DEF HistoryInv, TypeOK, TrimInv, LoopInv, DiskInv, Low, Tip, vars, loopVars, WindowRises
<1> QED
  BY <1>1, <1>2, <1>3, <1>4, <1>5, <1>6, <1>7 DEF Next

------------------------------------------------------------------------------
(***************************************************************************)
(* What is true of the chain whatever has been configured, and enough for  *)
(* a length that has been raised to stay so.                               *)
(***************************************************************************)
ChainOK ==
  /\ rel \in Seq(Releases) /\ rel # <<>>
  /\ pc = "trim" => child \in Releases /\ trimCount \in Nat

LEMMA ChainStep ==
  ChainOK /\ [Next]_vars => ChainOK' /\ (rel' = rel \/ \E r \in Releases : rel' = Append(rel, r))
<1> SUFFICES ASSUME ChainOK, [Next]_vars
             PROVE  ChainOK' /\ (rel' = rel \/ \E r \in Releases : rel' = Append(rel, r))
  OBVIOUS
<1>1. rel \in Seq(Releases) /\ rel # <<>> /\ Tip \in 1..Len(rel) /\ rel[Tip] \in Releases
  BY DEF ChainOK, Tip
<1>2. ASSUME NEW r \in Releases, rel' = Append(rel, r), pc' # "trim"
      PROVE  ChainOK' /\ (rel' = rel \/ \E q \in Releases : rel' = Append(rel, q))
  BY <1>1, <1>2, Appended DEF ChainOK
<1>3. CASE \E k \in Indexes : Upload(k)
  <2>1. PICK k \in Indexes : Upload(k)
    BY <1>3
  <2> DEFINE new == [rel[Tip] EXCEPT !.index = k]
  <2>2. new \in Releases
    <3>1. \A n \in 1..Tip : rel[n] \in Releases
      BY <1>1 DEF Tip
    <3>2. k \in Nat
      BY <1>1, <3>1 DEF Indexes, Tip, Releases
    <3> QED
      BY <1>1, <3>2 DEF Releases
  <2> HIDE DEF new
  <2>3. CASE new.autoTrim
    BY <2>1, <2>2, <2>3, <1>1 DEF Upload, new, ChainOK
  <2>4. CASE ~new.autoTrim
    BY <2>1, <2>2, <2>4, <1>2 DEF Upload, new, Publish
  <2> QED
    BY <2>3, <2>4
<1>4. CASE HistoryShort
  BY <1>2, <1>4 DEF HistoryShort, Publish, ChainOK
<1>5. CASE TrimStep
  BY <1>1, <1>5 DEF TrimStep, ChainOK
<1>6. CASE TrimEnd
  <2> DEFINE r == IF trimCount > 0 THEN [child EXCEPT !.trimAfter = trimCount] ELSE child
  <2>1. r \in Releases
    BY <1>6 DEF TrimEnd, ChainOK, Releases
  <2>2. rel' = Append(rel, r) /\ pc' = "idle"
    BY <1>6 DEF TrimEnd, Publish
  <2> QED
    BY <2>1, <2>2, <1>2
<1>7. CASE \E auto \in BOOLEAN, length \in Lengths : Configure(auto, length)
  <2>1. PICK auto \in BOOLEAN, length \in Lengths : Configure(auto, length)
    BY <1>7
  <2> DEFINE r == [rel[Tip] EXCEPT !.autoTrim = auto, !.length = length]
  <2>2. r \in Releases
    BY <1>1 DEF Releases
  <2>3. rel' = Append(rel, r) /\ pc' = "idle"
    BY <2>1 DEF Configure
  <2> QED
    BY <2>2, <2>3, <1>2
<1>8. CASE Collect
  BY <1>1, <1>8 DEF Collect, ChainOK, loopVars
<1>9. CASE UNCHANGED vars
  BY <1>1, <1>9 DEF vars, loopVars, ChainOK
<1> QED
  BY <1>3, <1>4, <1>5, <1>6, <1>7, <1>8, <1>9 DEF Next

LEMMA StaysRaised == ChainOK /\ [Next]_vars /\ Raised => Raised'
<1> SUFFICES ASSUME ChainOK, [Next]_vars, Raised PROVE Raised'
  OBVIOUS
<1>1. CASE rel' = rel
  BY <1>1 DEF Raised, Tip
<1>2. ASSUME NEW r \in Releases, rel' = Append(rel, r) PROVE Raised'
  <2>1. PICK n \in 2..Len(rel) : rel[n].length > rel[n - 1].length
    BY DEF Raised, Tip
  <2>2. rel \in Seq(Releases) /\ Len(rel) \in Nat
    BY DEF ChainOK
  <2>3. Len(rel') = Len(rel) + 1 /\ rel'[n] = rel[n] /\ rel'[n - 1] = rel[n - 1]
    BY <1>2, <2>2
  <2> QED
    BY <2>1, <2>2, <2>3 DEF Raised, Tip
<1> QED
  BY <1>1, <1>2, ChainStep

------------------------------------------------------------------------------
(***************************************************************************)
(* The inductive invariant (TrimHistory, NewChild, gcWalkRelease), until a *)
(* length is raised.                                                       *)
(***************************************************************************)
THEOREM HistoryInvariant == Spec => [](ChainOK /\ (Raised \/ HistoryInv))
<1>1. Init => ChainOK /\ HistoryInv
  <2>1. HistoryInv /\ pc = "idle" => ChainOK
    BY DEF HistoryInv, TypeOK, ChainOK
  <2> QED
    BY <2>1, HistoryInitial DEF Init
<1>2. ChainOK /\ (Raised \/ HistoryInv) /\ [Next]_vars => (ChainOK /\ (Raised \/ HistoryInv))'
  BY ChainStep, StaysRaised, HistoryInductive
<1> QED
  BY <1>1, <1>2, PTL DEF Spec

(***************************************************************************)
(* What the log shows is in the store (README.md:193).                     *)
(***************************************************************************)
THEOREM LogAccessible == Spec => []HistoryAccessible
<1>1. Raised \/ HistoryInv => HistoryAccessible
  <2> SUFFICES ASSUME HistoryInv, NEW n \in Shown(rel)
               PROVE  rel[n].index \in disk
    BY DEF HistoryAccessible
  <2>1. Window(rel) = Low(Tip)..Tip
    BY WindowIs DEF HistoryInv
  <2> QED
    BY <2>1 DEF HistoryInv, DiskInv, Shown
<1> QED
  BY <1>1, HistoryInvariant, PTL

(***************************************************************************)
(* No collection meets an index it cannot open.                            *)
(***************************************************************************)
THEOREM CollectionsEnd == Spec => []NeverPanics
<1>1. Raised \/ HistoryInv => NeverPanics
  BY DEF HistoryInv, NeverPanics
<1> QED
  BY <1>1, HistoryInvariant, PTL

(***************************************************************************)
(* An upload with AutoTrim leaves AutoTrimLength + 1 parents to read.      *)
(***************************************************************************)
THEOREM TrimLength == Spec => TrimsToLength
<1> DEFINE Good == ~Raised /\ pc = "trim" /\ pc' = "idle" /\ child.length >= 0 =>
                     \A n \in Parents(rel') : Len(rel') - n <= child.length + 1
<1>1. (Raised \/ HistoryInv) /\ [Next]_vars => Good
  <2> SUFFICES ASSUME HistoryInv, [Next]_vars, pc = "trim", pc' = "idle", child.length >= 0,
                      NEW n \in Parents(rel')
               PROVE  Len(rel') - n <= child.length + 1
    OBVIOUS
  <2> USE LengthsAssumption
  <2>1. /\ TypeOK /\ child \in Releases /\ child.length \in Int /\ child.trimAfter \in Nat
        /\ Tip \in Nat /\ Tip > 0
        /\ curr \in Nat /\ trimCount \in Nat /\ count \in Int /\ trimCount = Tip - curr
        /\ count = child.length - trimCount /\ activeTrim = 0
        /\ trimCount > 0 => count >= -1
    <3>1. TypeOK /\ LoopInv
      BY DEF HistoryInv
    <3>2. child \in Releases /\ curr \in Nat /\ trimCount \in Nat /\ count \in Int
      BY <3>1 DEF TypeOK
    <3>3. Tip \in Nat /\ Tip > 0
      BY <3>1 DEF TypeOK, Tip
    <3>4. child.length \in Int /\ child.trimAfter \in Nat
      BY <3>2 DEF Releases
    <3> QED
      BY <3>1, <3>2, <3>3, <3>4 DEF LoopInv
  <2>2. Window(rel') \subseteq 1..Len(rel')
    BY DEF Window
  <2>3. CASE HistoryShort
    <3>1. rel' = Append(rel, child) /\ curr = 0
      BY <2>1, <2>3 DEF HistoryShort, Publish, ShortEnough
    <3>2. Len(rel') = Tip + 1
      BY <2>1, <3>1, Appended DEF Tip
    <3>3. n \in 1..(Tip + 1)
      BY <2>2, <3>2 DEF Parents
    <3>4. Tip <= child.length + 1
      BY <2>1, <3>1
    <3> QED
      BY <3>2, <3>3, <3>4, <2>1
  <2>4. CASE TrimEnd
    <3> DEFINE r == [child EXCEPT !.trimAfter = trimCount]
    <3>1. trimCount > 0 /\ trimCount = child.length + 1
      BY <2>1, <2>4 DEF TrimEnd, Trims
    <3>2. rel' = Append(rel, r)
      BY <2>4, <3>1 DEF TrimEnd, Publish
    <3>3. r \in Releases /\ r.trimAfter = trimCount
      BY <2>1 DEF Releases
    <3> HIDE DEF r
    <3>4. /\ Len(rel') = Tip + 1 /\ rel' \in Seq(Releases) /\ rel' # <<>>
          /\ rel'[Len(rel')] = r
      BY <2>1, <3>2, <3>3, Appended DEF Tip
    <3>5. rel'[Len(rel')].trimAfter = trimCount /\ trimCount > 0
      BY <3>1, <3>3, <3>4
    <3>6. Window(rel') = {m \in 1..Len(rel') : m >= Len(rel') - rel'[Len(rel')].trimAfter}
      <4> DEFINE chain == rel'
      <4>1. chain \in Seq(Releases) /\ chain # <<>> /\ chain[Len(chain)].trimAfter > 0
        BY <3>4, <3>5
      <4> HIDE DEF chain
      <4>2. Window(chain) = {m \in 1..Len(chain) : m >= Len(chain) - chain[Len(chain)].trimAfter}
        BY <4>1, WindowTrimmed
      <4> QED
        BY <4>2 DEF chain
    <3>7. n \in 1..(Tip + 1) /\ n >= Tip + 1 - trimCount
      <4>1. n \in Window(rel')
        BY DEF Parents
      <4>2. n \in 1..Len(rel') /\ n >= Len(rel') - rel'[Len(rel')].trimAfter
        BY <4>1, <3>6
      <4> QED
        BY <4>2, <3>4, <3>5, <2>1
    <3> QED
      BY <3>1, <3>4, <3>7, <2>1
  <2> QED
    BY <2>3, <2>4 DEF Next, Upload, TrimStep, Configure, Collect, Publish, vars
<1> QED
  BY <1>1, HistoryInvariant, PTL DEF Spec, TrimsToLength

(***************************************************************************)
(* A release the log no longer shows never comes back.                     *)
(***************************************************************************)
THEOREM HistoryMovesOn == Spec => WindowMoves
<1>1. ChainOK /\ (Raised \/ HistoryInv) /\ ChainOK' /\ (Raised \/ HistoryInv)' /\ [Next]_vars =>
        (~Raised' => \A n \in Shown(rel') : n <= Len(rel) => n \in Shown(rel))
  <2> SUFFICES ASSUME ChainOK, Raised \/ HistoryInv, (Raised \/ HistoryInv)', [Next]_vars, ~Raised',
                      NEW n \in Shown(rel'), n <= Len(rel)
               PROVE  n \in Shown(rel)
    OBVIOUS
  <2>1. HistoryInv /\ HistoryInv' /\ WindowRises
    BY StaysRaised, HistoryInductive
  <2>2. CASE rel' = rel
    BY <2>2
  <2>3. ASSUME NEW r \in Releases, rel' = Append(rel, r) PROVE n \in Shown(rel)
    <3>1. Tip \in Nat /\ Tip > 0 /\ Tip' = Tip + 1 /\ Len(rel) = Tip /\ Len(rel') = Tip'
      BY <2>1, <2>3, Appended DEF HistoryInv, Tip
    <3>2. Window(rel) = Low(Tip)..Tip
      BY <2>1, WindowIs DEF HistoryInv
    <3>3. Window(rel') = (Low(Tip))'..Tip'
      <4>1. (TypeOK /\ TrimInv)' => (Window(rel) = Low(Tip)..Tip)'
        BY WindowIs, PTL
      <4> QED BY <2>1, <4>1 DEF HistoryInv
    <3>4. rel' # rel
      BY <3>1
    <3>5. n # 1 /\ n \in (Low(Tip))'..Tip'
      BY <3>1, <3>3 DEF Shown
    <3>6. Low(Tip) \in Int /\ (Low(Tip))' \in Int
      <4>1. rel[Tip].trimAfter \in Nat /\ r.trimAfter \in Nat /\ rel'[Tip'] = r
        BY <2>1, <2>3, <3>1, Appended DEF HistoryInv, Releases
      <4> QED BY <3>1, <4>1 DEF Low
    <3>7. n \in Low(Tip)..Tip
      BY <2>1, <3>1, <3>4, <3>5, <3>6 DEF WindowRises
    <3> QED BY <3>2, <3>5, <3>7 DEF Shown
  <2> QED BY <2>2, <2>3, ChainStep
<1>2. ChainOK /\ (Raised \/ HistoryInv) /\ ChainOK' /\ (Raised \/ HistoryInv)' /\ [Next]_vars =>
        [~Raised' => \A n \in Shown(rel') : n <= Len(rel) => n \in Shown(rel)]_vars
  BY <1>1
<1> QED BY <1>2, HistoryInvariant, PTL DEF Spec, WindowMoves

===============================================================================
