------------------------------- MODULE L1Chain -------------------------------
(***************************************************************************)
(* The L1 chain as the synchronizer sees it through the RPC client.        *)
(* External: modelled from how etherman and the synchronizer use it.       *)
(*                                                                         *)
(* The chain is the sequence of the contents of its blocks above the block *)
(* that deployed the rollup (the genesis block, number 0 here).  A block   *)
(* is the prefix of the chain that ends with it: its length is the block   *)
(* number, and two blocks are equal exactly when their hashes are, since   *)
(* a hash fixes every ancestor.  The content says whether the block has    *)
(* rollup events, and carries the number of the fork that made it, so that *)
(* no two forks share a block above their branching point.                 *)
(***************************************************************************)
EXTENDS Integers, Sequences, FiniteSets

CONSTANTS MaxBlock,     \* bound: height of the chain
          MaxReorgs     \* bound: reorganizations of L1

ASSUME L1Assumption == MaxBlock \in Nat /\ MaxReorgs \in Nat

VARIABLES chain,        \* the canonical chain
          finalized,    \* number of the finalized block
          reorgs        \* reorganizations so far

l1Vars == <<chain, finalized, reorgs>>

Content == [fork : 0 .. MaxReorgs, ev : BOOLEAN]
Block == UNION {[1 .. n -> Content] : n \in 0 .. MaxBlock}
Genesis == <<>>

\* The block with number n of the fork that ends with block b.
BlockByNumber(b, n) == SubSeq(b, 1, n)

\* Block a is b or an ancestor of b.
IsAncestor(a, b) == Len(a) <= Len(b) /\ BlockByNumber(b, Len(a)) = a

\* The block has rollup events.  The genesis block has those of the deployment.
HasEvents(b) == Len(b) = 0 \/ b[Len(b)].ev

L1Init == chain = Genesis /\ finalized = 0 /\ reorgs = 0

Grow ==
  /\ Len(chain) < MaxBlock
  /\ \E ev \in BOOLEAN : chain' = Append(chain, [fork |-> reorgs, ev |-> ev])
  /\ UNCHANGED <<finalized, reorgs>>

\* The blocks above n are replaced: at first by one block of the new fork.
Reorg ==
  /\ reorgs < MaxReorgs
  /\ reorgs' = reorgs + 1
  /\ \E n \in finalized .. Len(chain) - 1, ev \in BOOLEAN :
       chain' = Append(BlockByNumber(chain, n), [fork |-> reorgs', ev |-> ev])
  /\ UNCHANGED finalized

Finalize ==
  /\ finalized < Len(chain)
  /\ finalized' = finalized + 1
  /\ UNCHANGED <<chain, reorgs>>

L1Next == Grow \/ Reorg \/ Finalize
=============================================================================
