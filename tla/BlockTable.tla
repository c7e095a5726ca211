----------------------------- MODULE BlockTable ------------------------------
(***************************************************************************)
(* Queries on a table of L1 blocks, such as state.block: the table is the  *)
(* set of its blocks.                                                      *)
(***************************************************************************)
EXTENDS L1Chain, FiniteSetsExt

Numbers(S) == {Len(b) : b \in S}
Row(S, n) == CHOOSE b \in S : Len(b) = n
First(S) == Row(S, Min(Numbers(S)))

\* The blocks ordered by their numbers.
Ascending(S) ==
  [i \in 1 .. Cardinality(S) |-> CHOOSE b \in S : Cardinality({a \in S : Len(a) < Len(b)}) = i - 1]
=============================================================================
