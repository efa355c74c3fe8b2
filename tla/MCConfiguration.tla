---------------------------- MODULE MCConfiguration ----------------------------
(***************************************************************************)
(* Instances of Configuration for TLC: two sources, packages of two        *)
(* architectures and of all, and one upload of a source only.              *)
(***************************************************************************)
EXTENDS Configuration, TLC

CONSTANTS initial, flat, broken, k1, k1again, ring, locked, public

Deb(n, a) == [name |-> n, arch |-> a]

\* In the order of an index.
A1 == [source |-> "a", version |-> 1, dsc |-> TRUE,
       binaries |-> {Deb("a-data", "all"), Deb("a-amd64", "amd64")}]
B2 == [source |-> "b", version |-> 2, dsc |-> TRUE, binaries |-> {}]
B1 == [source |-> "b", version |-> 1, dsc |-> FALSE, binaries |-> {Deb("b-i386", "i386")}]

MCIndexes == {<<>>, <<A1>>, <<B2>>, <<A1, B1>>, <<B2, B1>>, <<A1, B2, B1>>}

\* The pattern's first match in the source's name, or nothing.
MCDirectory ==
  [p \in {initial, flat, broken} |-> [s \in {"a", "b"} |-> IF p = initial THEN s ELSE "pool"]]

MCKind ==
  k1 :> "private" @@ k1again :> "private"
    @@ ring :> "many" @@ locked :> "locked" @@ public :> "public"

MCKeyOf ==
  k1 :> "K1" @@ k1again :> "K1" @@ ring :> "none" @@ locked :> "L" @@ public :> "P"

MCUnreadable == {{}, {<<"a", 1, "dsc">>}, {<<"a", 1, "a-data">>}}

===============================================================================
