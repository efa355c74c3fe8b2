----------------------------- MODULE MCDebVersion -----------------------------
(***************************************************************************)
(* Instances of DebVersion for TLC: every pair of versions that have up to *)
(* three characters, or an epoch and a revision and short parts.  The      *)
(* policy manual's order is stated here once more, step by step as its     *)
(* text has it, and compared with DebVersion's, which proofs can use.      *)
(***************************************************************************)
EXTENDS DebVersion, SequencesExt

Version(e, v, r) == [epoch |-> e, version |-> v, revision |-> r]

Byte == [c \in {"~", "0", "1", "A", "a", "z", "+"} |->
           CASE c = "~" -> Tilde [] c = "0" -> Zero [] c = "1" -> 49 [] c = "A" -> 65
             [] c = "a" -> 97 [] c = "z" -> 122 [] c = "+" -> 43]

Text(characters) == [k \in DOMAIN characters |-> Byte[characters[k]]]

\* Of each kind of character one, and two digits.
Some == {Byte[c] : c \in {"~", "0", "1", "a", "+"}}

Short == {Text(r) : r \in {<<>>, <<"0">>, <<"1">>, <<"1", "~">>, <<"1", "z">>}}

MCVersions ==
  {Version(0, v, <<>>) : v \in BoundedSeq(Some, 3)}
    \cup {Version(e, v, r) : e \in {0, 1},
                             v \in {Text(<<"z">>), Text(<<"0", "1">>), Text(<<"1">>)},
                             r \in Short}

------------------------------------------------------------------------------
(***************************************************************************)
(* "First the initial part of each string consisting entirely of non-digit *)
(* characters is determined.  These two parts are compared lexically ...   *)
(* Then the initial part of the remainder of each string which consists    *)
(* entirely of digit characters is determined.  The numerical values of    *)
(* these two parts are compared ... repeated until a difference is found   *)
(* or both strings are exhausted."                                         *)
(***************************************************************************)
Rank(str, k) ==
  IF k > Len(str) THEN 1
  ELSE IF str[k] = Tilde THEN 0
  ELSE IF IsLetter(str[k]) THEN 1 + str[k]
  ELSE 1000 + str[k]

PrefixLength(str, P(_)) == Max({n \in 0..Len(str) : \A k \in 1..n : P(str[k])})

NonDigitPrefix(str) == SubSeq(str, 1, PrefixLength(str, LAMBDA c : ~IsDigit(c)))
DigitPrefix(str) == SubSeq(str, 1, PrefixLength(str, IsDigit))
Without(str, prefix) == SubSeq(str, Len(prefix) + 1, Len(str))

LexicalOrder(x, y) ==
  LET D == {k \in 1..Max({Len(x), Len(y)}) : Rank(x, k) # Rank(y, k)}
  IN IF D = {} THEN 0 ELSE Sign(Rank(x, Min(D)) - Rank(y, Min(D)))

RECURSIVE Value(_)
Value(digits) ==
  IF digits = <<>> THEN 0
  ELSE 10 * Value(SubSeq(digits, 1, Len(digits) - 1)) + digits[Len(digits)] - Zero

RECURSIVE TextOrder(_, _)
TextOrder(x, y) ==
  LET nx == NonDigitPrefix(x)         ny == NonDigitPrefix(y)
      x1 == Without(x, nx)            y1 == Without(y, ny)
      dx == DigitPrefix(x1)           dy == DigitPrefix(y1)
  IN IF x = <<>> /\ y = <<>> THEN 0
     ELSE IF LexicalOrder(nx, ny) # 0 THEN LexicalOrder(nx, ny)
     ELSE IF Value(dx) # Value(dy) THEN Sign(Value(dx) - Value(dy))
     ELSE TextOrder(Without(x1, dx), Without(y1, dy))

ASSUME TextAgrees ==
  \A x, y \in BoundedSeq(Some, 3) : StringOrder(x, y) = TextOrder(x, y)

===============================================================================
