------------------------------- MODULE TxData -------------------------------
(***************************************************************************)
(* The transactions the sequencer handles, abstracted to the fields of a   *)
(* TxTracker that decide what the worker does with it: its sender, its     *)
(* nonce, its gas price and the balance it needs (value + gas price * gas  *)
(* limit).  A transaction is its own hash.                                 *)
(***************************************************************************)
EXTENDS Integers, FiniteSets

CONSTANTS Addr,      \* sender addresses
          Tx,        \* transactions
          NoTx,      \* the nil *TxTracker
          From,      \* TxTracker.From
          Nonce,     \* TxTracker.Nonce
          GasPrice,  \* TxTracker.GasPrice
          Cost       \* TxTracker.Cost

ASSUME TxAssumption == /\ IsFiniteSet(Tx)
                       /\ NoTx \notin Tx
                       /\ From \in [Tx -> Addr]
                       /\ Nonce \in [Tx -> Nat]
                       /\ GasPrice \in [Tx -> Nat]
                       /\ Cost \in [Tx -> Nat]

\* A *TxTracker that may be nil.
OptTx == Tx \cup {NoTx}

\* A *TxTracker as the set of the transactions it points to.
AsSet(t) == IF t = NoTx THEN {} ELSE {t}
=============================================================================
