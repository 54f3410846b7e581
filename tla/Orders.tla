------------------------------- MODULE Orders -------------------------------
(***************************************************************************)
(* Lists sorted by a key, as list.sort(key=...) leaves them.  An element   *)
(* is where it is by the number of those before it; SortSeq of the module  *)
(* TLC, which SetToSortSeq rests on, is one the provers do not know.       *)
(***************************************************************************)
EXTENDS Naturals, FiniteSets

\* The members of S, sorted.
InOrder(S, before(_, _)) ==
    [n \in 1..Cardinality(S) |->
        CHOOSE s \in S : Cardinality({r \in S : before(r, s)}) = n - 1]

\* The first n of them.
Foremost(n, S, before(_, _)) == {s \in S : Cardinality({r \in S : before(r, s)}) < n}
=============================================================================
