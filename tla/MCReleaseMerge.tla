---------------------------- MODULE MCReleaseMerge ----------------------------
(***************************************************************************)
(* Instances of ReleaseMerge for TLC: a package with two epochs, versions  *)
(* and revisions, and one that sorts before it.                            *)
(***************************************************************************)
EXTENDS ReleaseMerge

Entry(n, e, v, r) == [name |-> n, epoch |-> e, version |-> v, revision |-> r]

MCEntries ==
  {Entry(2, 0, 1, 1), Entry(2, 0, 1, 2), Entry(2, 0, 2, 1), Entry(2, 0, 2, 2), Entry(2, 1, 1, 1),
   Entry(1, 0, 1, 1), Entry(1, 0, 1, 2)}

Rule(ns, v, r) == [names |-> ns, versions |-> v, revisions |-> r]

All == {1, 2}

\* .*_*-*   .*_0-0   .*_1-0   .*_0-1   2_1-*,.*_*-0   and a rule that leaves out package 1
MCRuleSets ==
  {<<Rule(All, Unlimited, Unlimited)>>, <<Rule(All, 0, 0)>>, <<Rule(All, 1, 0)>>,
   <<Rule(All, 0, 1)>>, <<Rule({2}, 1, Unlimited), Rule(All, Unlimited, 0)>>,
   <<Rule({2}, 0, 0)>>}

===============================================================================
