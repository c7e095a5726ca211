------------------------------ MODULE MCWorker ------------------------------
(* Instances of Worker for TLC: two senders; transactions 0 and 1 of sender *)
(* a, for each a second transaction that pays more, and one of sender b.    *)
EXTENDS Worker

CONSTANTS addrA, addrB, a0, a0x, a1, a1x, b0

MCFrom     == [t \in Tx |-> IF t = b0 THEN addrB ELSE addrA]
MCNonce    == [t \in Tx |-> IF t \in {a1, a1x} THEN 1 ELSE 0]
MCGasPrice == [t \in Tx |-> IF t \in {a0x, a1x} THEN 2 ELSE 1]
MCFree     == [t \in Tx |-> 0]
MCCost     == [t \in Tx |-> 1]

Once(S) == [e \in Event |-> IF e \in S THEN 1 ELSE 0]

ReorgEvents  == Once({"reorg"})
ForcedEvents == [Once(Event) EXCEPT !["forcedBatch"] = 2]
=============================================================================
