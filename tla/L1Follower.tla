----------------------------- MODULE L1Follower ------------------------------
(***************************************************************************)
(* What the L1 synchronization promises to the rest of the node: the       *)
(* blocks of state.block, in the order of their numbers, are a path of one *)
(* L1 fork that leaves out no block with rollup events; one transaction    *)
(* adds the next block of the path or removes the end of it.               *)
(***************************************************************************)
EXTENDS Integers, Sequences

VARIABLE log    \* the stored blocks, oldest first, genesis left out

\* The last block, the genesis block <<>> when nothing is stored.
Top(l) == IF l = <<>> THEN <<>> ELSE l[Len(l)]

\* Block b descends from block a and no block between them has rollup events.
Follows(a, b) ==
  /\ Len(a) < Len(b)
  /\ SubSeq(b, 1, Len(a)) = a
  /\ \A n \in Len(a) + 1 .. Len(b) - 1 : ~b[n].ev

\* Block b is stored: log' is log with b at its end.
Store(b) == Follows(Top(log), b) /\ log' = Append(log, b)

\* The state is reset: the last blocks are gone.
Reset == \E n \in 0 .. Len(log) - 1 : log' = SubSeq(log, 1, n)

Init == log = <<>>

Next == \/ log' # <<>> /\ Store(Top(log'))
        \/ Reset

Spec == Init /\ [][Next]_log
=============================================================================
