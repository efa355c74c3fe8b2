------------------------------ MODULE DebVersion ------------------------------
(***************************************************************************)
(* debversion.go: DebVersionCompare, on which the order of a release index *)
(* and so the merge and the pruner rest (ReleaseMerge).                    *)
(*                                                                         *)
(* compareComponent walks the strings a and b with the indices i and j     *)
(* through four inner loops; one turn of a loop is one step here.  A       *)
(* string is a sequence of bytes, and indices start at 1.                  *)
(***************************************************************************)
EXTENDS Integers, Sequences, FiniteSets

CONSTANTS Versions   \* what is compared: [epoch, version, revision]

\* Bytes; no version has a NUL, which charOrder takes for the end of a string.
Characters == 1..255

ASSUME VersionsAssumption ==
  Versions \subseteq [epoch : Int, version : Seq(Characters), revision : Seq(Characters)]

VARIABLES
  va, vb,     \* the versions a and b
  part,       \* the component compared: "version" or "revision"
  ia, ib,     \* i and j, the indices into a's and b's component
  loop,       \* the loop they are in, or "done"
  firstdiff,  \* the first difference of two numbers
  result

compareVars == <<va, vb, part, ia, ib, loop, firstdiff, result>>

------------------------------------------------------------------------------
Zero == 48
Tilde == 126

\* unicode.IsDigit and unicode.IsLetter of a byte, taken as a code point.
IsDigit(c) == c \in Zero..57
IsLetter(c) ==
  c \in (65..90) \cup (97..122) \cup {170, 181, 186} \cup (192..214) \cup (216..246) \cup (248..255)

CharOrder(c) ==
  IF IsDigit(c) THEN 0
  ELSE IF IsLetter(c) THEN c
  ELSE IF c = Tilde THEN -1
  ELSE c + 256

String(v) == IF part = "version" THEN v.version ELSE v.revision
sa == String(va)
sb == String(vb)

DigitAt(str, k) == k <= Len(str) /\ IsDigit(str[k])
NonDigitAt(str, k) == k <= Len(str) /\ ~IsDigit(str[k])
ZeroAt(str, k) == k <= Len(str) /\ str[k] = Zero
OrderAt(str, k) == IF k <= Len(str) THEN CharOrder(str[k]) ELSE 0

Goto(place) == loop' = place

Return(value) == loop' = "done" /\ result' = value

------------------------------------------------------------------------------
\* The epochs; the version, if they are the same.
Epochs ==
  /\ loop = "epochs"
  /\ IF va.epoch = vb.epoch
     THEN Goto("component") /\ UNCHANGED result
     ELSE Return(IF va.epoch > vb.epoch THEN 1 ELSE -1)
  /\ UNCHANGED <<va, vb, part, ia, ib, firstdiff>>

\* The outer loop: while there is something left of either string.
Component ==
  /\ loop = "component"
  /\ ia <= Len(sa) \/ ib <= Len(sb)
  /\ firstdiff' = 0
  /\ Goto("nondigits")
  /\ UNCHANGED <<va, vb, part, ia, ib, result>>

\* compareComponent returns 0: the revisions are compared, or the versions are equal.
ComponentsEqual ==
  /\ loop = "component"
  /\ ia > Len(sa) /\ ib > Len(sb)
  /\ IF part = "version"
     THEN /\ part' = "revision" /\ ia' = 1 /\ ib' = 1
          /\ UNCHANGED <<loop, result>>
     ELSE Return(0) /\ UNCHANGED <<part, ia, ib>>
  /\ UNCHANGED <<va, vb, firstdiff>>

NonDigits ==
  /\ loop = "nondigits"
  /\ IF NonDigitAt(sa, ia) \/ NonDigitAt(sb, ib)
     THEN IF OrderAt(sa, ia) # OrderAt(sb, ib)
          THEN Return(OrderAt(sa, ia) - OrderAt(sb, ib)) /\ UNCHANGED <<ia, ib>>
          ELSE ia' = ia + 1 /\ ib' = ib + 1 /\ UNCHANGED <<loop, result>>
     ELSE Goto("zeros") /\ UNCHANGED <<ia, ib, result>>
  /\ UNCHANGED <<va, vb, part, firstdiff>>

\* The first string's zeros, then the second's.
Zeros ==
  /\ loop = "zeros"
  /\ \/ ZeroAt(sa, ia) /\ ia' = ia + 1 /\ UNCHANGED <<ib, loop>>
     \/ ~ZeroAt(sa, ia) /\ ZeroAt(sb, ib) /\ ib' = ib + 1 /\ UNCHANGED <<ia, loop>>
     \/ ~ZeroAt(sa, ia) /\ ~ZeroAt(sb, ib) /\ Goto("digits") /\ UNCHANGED <<ia, ib>>
  /\ UNCHANGED <<va, vb, part, firstdiff, result>>

\* Mutant: the first difference is looked for from the second digit on.
DigitsLate ==
  /\ loop = "digits"
  /\ IF DigitAt(sa, ia) /\ DigitAt(sb, ib)
     THEN /\ firstdiff' = sa[ia] - sb[ib]
          /\ ia' = ia + 1 /\ ib' = ib + 1 /\ UNCHANGED loop
     ELSE Goto("numbers") /\ UNCHANGED <<ia, ib, firstdiff>>
  /\ UNCHANGED <<va, vb, part, result>>

Digits ==
  /\ loop = "digits"
  /\ IF DigitAt(sa, ia) /\ DigitAt(sb, ib)
     THEN /\ firstdiff' = IF firstdiff = 0 THEN sa[ia] - sb[ib] ELSE firstdiff
          /\ ia' = ia + 1 /\ ib' = ib + 1 /\ UNCHANGED loop
     ELSE Goto("numbers") /\ UNCHANGED <<ia, ib, firstdiff>>
  /\ UNCHANGED <<va, vb, part, result>>

\* The longer number is the greater one; of two as long, the first difference decides.
Numbers ==
  /\ loop = "numbers"
  /\ \/ DigitAt(sa, ia) /\ Return(1)
     \/ ~DigitAt(sa, ia) /\ DigitAt(sb, ib) /\ Return(-1)
     \/ ~DigitAt(sa, ia) /\ ~DigitAt(sb, ib) /\ firstdiff # 0 /\ Return(firstdiff)
     \/ ~DigitAt(sa, ia) /\ ~DigitAt(sb, ib) /\ firstdiff = 0
        /\ Goto("component") /\ UNCHANGED result
  /\ UNCHANGED <<va, vb, part, ia, ib, firstdiff>>

CompareInit ==
  /\ va \in Versions /\ vb \in Versions
  /\ part = "version" /\ ia = 1 /\ ib = 1
  /\ loop = "epochs" /\ firstdiff = 0 /\ result = 0

CompareNext == Epochs \/ Component \/ ComponentsEqual \/ NonDigits \/ Zeros \/ Digits \/ Numbers

Comparison == CompareInit /\ [][CompareNext]_compareVars

------------------------------------------------------------------------------
(***************************************************************************)
(* The order of the Debian policy manual, section 5.6.12.  A string is a   *)
(* row of items, with empty items without end after the last: each character *)
(* that is no digit is one, and so is each longest run of digits.  Two     *)
(* strings are ordered by the first item in which they differ, where a     *)
(* tilde comes before the end, letters come after it and the rest after    *)
(* the letters; numbers are ordered by their values, and none at all is 0. *)
(***************************************************************************)
\* Where an item ends, and how many have ended up to k.
Ends(x) == {k \in 1..Len(x) : ~(DigitAt(x, k) /\ DigitAt(x, k + 1))}

Ended(x, k) == Cardinality(Ends(x) \cap (1..k))

\* The number that the digits spell that end at k.
Number(x, k) ==
  LET number[l \in 0..Len(x)] ==
        IF l = 0 THEN 0
        ELSE IF IsDigit(x[l]) THEN 10 * number[l - 1] + (x[l] - Zero) ELSE 0
  IN number[k]

\* What an item is ordered by: its class and, in the class, its value.
Key(c, number) ==
  IF IsDigit(c) THEN <<0, number>>
  ELSE IF c = Tilde THEN <<-1, c>>
  ELSE IF IsLetter(c) THEN <<1, c>>
  ELSE <<2, c>>

NoItem == <<0, 0>>

Item(x, n) ==
  IF \E k \in Ends(x) : Ended(x, k) = n
  THEN LET k == CHOOSE k \in Ends(x) : Ended(x, k) = n IN Key(x[k], Number(x, k))
  ELSE NoItem

Precedes(k, l) == k[1] < l[1] \/ (k[1] = l[1] /\ k[2] < l[2])

Different(x, y) == {n \in 1..Len(x) + Len(y) : Item(x, n) # Item(y, n)}

StringOrder(x, y) ==
  IF Different(x, y) = {} THEN 0
  ELSE LET n == CHOOSE n \in Different(x, y) : \A m \in Different(x, y) : n <= m
       IN IF Precedes(Item(x, n), Item(y, n)) THEN -1 ELSE 1

Sign(n) == IF n > 0 THEN 1 ELSE IF n < 0 THEN -1 ELSE 0

VersionOrder(v, w) ==
  IF v.epoch # w.epoch THEN Sign(v.epoch - w.epoch)
  ELSE IF StringOrder(v.version, w.version) # 0 THEN StringOrder(v.version, w.version)
  ELSE StringOrder(v.revision, w.revision)

(***************************************************************************)
(* DebVersionCompare orders any two versions as dpkg does                  *)
(* (debversion.go:59-61).                                                  *)
(***************************************************************************)
OrdersAsPolicy == loop = "done" => Sign(result) = VersionOrder(va, vb)

(***************************************************************************)
(* The inductive invariant behind it.  At the head of the loops both       *)
(* strings have been read up to the same item and agree so far.  While     *)
(* numbers are read, firstdiff tells which of the two digit runs read so   *)
(* far spells the greater number, and both have as many digits: they lie   *)
(* below the same power of ten, a tenth of which they reach.               *)
(***************************************************************************)
\* i is where item m + 1 of x begins, or x is exhausted.
At(x, i, m) ==
  \/ /\ i \in 1..Len(x) /\ Ended(x, i - 1) = m
     /\ i > 1 => i - 1 \in Ends(x)
  \/ i = Len(x) + 1 /\ Ended(x, Len(x)) <= m

Agree(x, y, m) == \A n \in 1..m : Item(x, n) = Item(y, n)

\* Digits of x have been read from p up to i, and what they spell.
Reads(x, p, i) ==
  /\ p <= i /\ i <= Len(x) + 1
  /\ ~NonDigitAt(x, p)
  /\ \A k \in p..(i - 1) : IsDigit(x[k])

Spelled(x, p, i) == IF i = p THEN 0 ELSE Number(x, i - 1)

SameDigits(m, n, power) ==
  /\ m < power /\ n < power
  /\ IF power = 1 THEN ~ZeroAt(sa, ia) /\ ~ZeroAt(sb, ib)
     ELSE power <= 10 * m /\ power <= 10 * n

LoopInv ==
  \E m \in Nat : Agree(sa, sb, m) /\ At(sa, ia, m) /\ At(sb, ib, m)

BothRead(m, p, q) ==
  LET na == Spelled(sa, p, ia)
      nb == Spelled(sb, q, ib)
  IN /\ Agree(sa, sb, m) /\ At(sa, p, m) /\ At(sb, q, m)
     /\ Reads(sa, p, ia) /\ Reads(sb, q, ib)
     /\ Sign(firstdiff) = Sign(na - nb)
     /\ IF loop = "zeros" THEN na = 0 /\ nb = 0
        ELSE \E power \in Nat \ {0} : SameDigits(na, nb, power)

NumberInv == \E m \in Nat, p \in 1..ia, q \in 1..ib : BothRead(m, p, q)

CompareTypeOK ==
  /\ va \in Versions /\ vb \in Versions
  /\ part \in {"version", "revision"}
  /\ loop \in {"epochs", "component", "nondigits", "zeros", "digits", "numbers", "done"}
  /\ ia \in 1..Len(sa) + 1 /\ ib \in 1..Len(sb) + 1
  /\ firstdiff \in Int /\ result \in Int

CompareInv ==
  /\ CompareTypeOK
  /\ loop = "epochs" => part = "version" /\ ia = 1 /\ ib = 1
  /\ loop \notin {"epochs", "done"} =>
       /\ va.epoch = vb.epoch
       /\ part = "revision" => StringOrder(va.version, vb.version) = 0
  /\ loop \in {"component", "nondigits"} => LoopInv
  /\ loop \in {"nondigits", "zeros"} => firstdiff = 0
  /\ loop \in {"zeros", "digits", "numbers"} => NumberInv
  /\ loop = "numbers" => ~(DigitAt(sa, ia) /\ DigitAt(sb, ib))
  /\ OrdersAsPolicy

===============================================================================
