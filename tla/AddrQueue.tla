------------------------------ MODULE AddrQueue ------------------------------
(***************************************************************************)
(* addrQueue: the transactions of one sender.  At most one is ready (its   *)
(* nonce is the next one and the balance pays for it); the others wait in  *)
(* notReadyTxs.                                                            *)
(*                                                                         *)
(* notReadyTxs is a Go map keyed by nonce whose entries are always stored  *)
(* under their own nonce, so it is a set of transactions and an assignment *)
(* is put.  A nil *uint64 or *big.Int argument leaves the field as it is:  *)
(* the caller passes the current value.                                    *)
(***************************************************************************)
EXTENDS TxData

AddrQueue == [currentNonce      : Nat,
              currentBalance    : Nat,
              readyTx           : OptTx,
              notReadyTxs       : SUBSET Tx,
              pendingTxsToStore : SUBSET Tx]

\* Mutant: the nonce read from the state is not used.
newAddrQueue_zeroNonce(nonce, balance) ==
  [currentNonce |-> 0, currentBalance |-> balance, readyTx |-> NoTx,
   notReadyTxs |-> {}, pendingTxsToStore |-> {}]

newAddrQueue(nonce, balance) ==
  [currentNonce      |-> nonce,
   currentBalance    |-> balance,
   readyTx           |-> NoTx,
   notReadyTxs       |-> {},
   pendingTxsToStore |-> {}]

\* a.notReadyTxs[tx.Nonce] = tx
put(txs, t) == {u \in txs : Nonce[u] # Nonce[t]} \cup {t}

\* getTransactions
getTransactions(q) == AsSet(q.readyTx) \cup q.notReadyTxs

-----------------------------------------------------------------------------
(* addTx and its outcomes: the queue, the ready transaction that enters    *)
(* the sorted list, the one that leaves it, the replaced transaction       *)
(* reported to the caller, and whether the new one is dropped.             *)

addResult(q, newReadyTx, prevReadyTx, replacedTx) ==
  [queue |-> q, newReadyTx |-> newReadyTx, prevReadyTx |-> prevReadyTx,
   replacedTx |-> replacedTx, dropped |-> FALSE]

dropResult(q) ==
  [queue |-> q, newReadyTx |-> NoTx, prevReadyTx |-> NoTx,
   replacedTx |-> NoTx, dropped |-> TRUE]

\* The nonce is the next one: a candidate for readyTx.
addPossibleReadyTx(q, t) ==
  LET replacedTx == IF q.readyTx = t THEN NoTx ELSE q.readyTx
  IN  IF q.readyTx # NoTx /\ GasPrice[t] < GasPrice[q.readyTx]
      THEN dropResult(q)
      ELSE IF q.currentBalance >= Cost[t]
      THEN addResult([q EXCEPT !.readyTx = t], t, q.readyTx, replacedTx)
      ELSE addResult([q EXCEPT !.readyTx = NoTx, !.notReadyTxs = put(@, t)],
                     NoTx, q.readyTx, replacedTx)

\* The nonce is in the future.
addNotReadyTx(q, t) ==
  LET same == {u \in q.notReadyTxs : Nonce[u] = Nonce[t]}
  IN  IF \E u \in same : GasPrice[t] < GasPrice[u]
      THEN dropResult(q)
      ELSE addResult([q EXCEPT !.notReadyTxs = put(@, t)], NoTx, NoTx,
                     IF same \subseteq {t} THEN NoTx ELSE CHOOSE u \in same : TRUE)

addTx(q, t) ==
  IF q.currentNonce = Nonce[t] THEN addPossibleReadyTx(q, t)
  ELSE IF q.currentNonce > Nonce[t] THEN dropResult(q)
  ELSE addNotReadyTx(q, t)

-----------------------------------------------------------------------------
(* updateCurrentNonceBalance: returns the queue, the ready transaction,    *)
(* the one it displaced and the transactions to set as failed.             *)

\* Mutant: the comparison is off by one.
invalidNonceTxs_offByOne(q, nonce) ==
  IF nonce # q.currentNonce THEN {u \in q.notReadyTxs : Nonce[u] + 1 < nonce} ELSE {}

\* The waiting transactions a new nonce leaves behind.
invalidNonceTxs(q, nonce) ==
  IF nonce # q.currentNonce THEN {u \in q.notReadyTxs : Nonce[u] < nonce} ELSE {}

updateCurrentNonceBalance(q, nonce, balance) ==
  LET keepsReady == /\ q.readyTx # NoTx
                    /\ Nonce[q.readyTx] = nonce
                    /\ balance >= Cost[q.readyTx]
      oldReadyTx == IF keepsReady THEN NoTx ELSE q.readyTx
      waiting    == q.notReadyTxs \ invalidNonceTxs(q, nonce)
      candidates == {u \in waiting : Nonce[u] = nonce /\ balance >= Cost[u]}
      readyTx    == IF keepsReady THEN q.readyTx
                    ELSE IF candidates = {} THEN NoTx
                    ELSE CHOOSE u \in candidates : TRUE
      rest       == IF keepsReady THEN waiting ELSE waiting \ {readyTx}
      validNonce == oldReadyTx # NoTx /\ Nonce[oldReadyTx] > nonce
  IN  [queue       |-> [q EXCEPT !.currentNonce   = nonce,
                                 !.currentBalance = balance,
                                 !.readyTx        = readyTx,
                                 !.notReadyTxs    = IF validNonce
                                                    THEN put(rest, oldReadyTx)
                                                    ELSE rest],
       newReadyTx  |-> readyTx,
       prevReadyTx |-> oldReadyTx,
       toDelete    |-> invalidNonceTxs(q, nonce)
                         \cup (IF validNonce THEN {} ELSE AsSet(oldReadyTx))]

\* deleteTx: the ready transaction, else the entry of notReadyTxs.
deleteTx(q, t) ==
  IF q.readyTx = t THEN [q EXCEPT !.readyTx = NoTx]
                   ELSE [q EXCEPT !.notReadyTxs = @ \ {t}]

\* ExpireTransactions, for the set of transactions older than maxTime.
ExpireTransactions(q, old) ==
  [q EXCEPT !.notReadyTxs = @ \ old,
            !.readyTx     = IF @ \in old THEN NoTx ELSE @]

addPendingTxToStore(q, t) == [q EXCEPT !.pendingTxsToStore = @ \cup {t}]

deletePendingTxToStore(q, t) == [q EXCEPT !.pendingTxsToStore = @ \ {t}]
=============================================================================
