------------------------- MODULE WorkerLists_proofs --------------------------
(***************************************************************************)
(* The two data structures of the worker.                                  *)
(*                                                                         *)
(* What the operations of one addrQueue promise: the queue stays           *)
(* consistent, and the pair (ready transaction that leaves the sorted      *)
(* list, ready transaction that enters it) they report to the worker       *)
(* describes exactly how readyTx changed.                                  *)
(*                                                                         *)
(* What txSortedList.add and txSortedList.delete do to a list that is      *)
(* sorted and has no transaction twice: it stays so, and its transactions  *)
(* change by exactly the one added or deleted.  For delete this needs the  *)
(* order: its scan starts at the first price that is not higher and gives  *)
(* up at the first lower one.                                              *)
(***************************************************************************)
EXTENDS AddrQueue, TxSortedList, SequenceTheorems, WellFoundedInduction, TLAPS

\* A leaf may take the SMT solver up to 30 seconds, twice.
USE SMTT(30), Z3T(30)

-----------------------------------------------------------------------------
(* addrQueue                                                               *)

\* A queue of sender a as Worker!QueueConsistent describes it.
QueueOK(q, a) ==
  /\ q \in AddrQueue
  /\ \A t \in getTransactions(q) : From[t] = a /\ Nonce[t] >= q.currentNonce
  /\ \A t, u \in q.notReadyTxs : Nonce[t] = Nonce[u] => t = u
  /\ q.readyTx # NoTx => Nonce[q.readyTx] = q.currentNonce /\ Cost[q.readyTx] <= q.currentBalance

\* prev leaves and new enters: that turns the ready transaction old into ready.
Moves(old, ready, prev, new) ==
  /\ prev \in OptTx /\ new \in OptTx
  /\ AsSet(prev) \subseteq AsSet(old)
  /\ (AsSet(old) \ AsSet(prev)) \cup AsSet(new) = AsSet(ready)

\* The types of the fields of a transaction.
LEMMA TxFields ==
  ASSUME NEW t \in Tx
  PROVE  t # NoTx /\ From[t] \in Addr /\ Nonce[t] \in Nat /\ GasPrice[t] \in Nat /\ Cost[t] \in Nat
BY TxAssumption

\* The same with the shape of the record spelled out.
LEMMA QueueFields ==
  ASSUME NEW q \in AddrQueue
  PROVE  /\ q.currentNonce \in Nat /\ q.currentBalance \in Nat
         /\ q.readyTx \in OptTx /\ q.notReadyTxs \subseteq Tx /\ q.pendingTxsToStore \subseteq Tx
BY DEF AddrQueue

\* newAddrQueue: an empty queue is consistent.
LEMMA NewAddrQueueOK ==
  ASSUME NEW a, NEW nonce \in Nat, NEW balance \in Nat
  PROVE  QueueOK(newAddrQueue(nonce, balance), a) /\ newAddrQueue(nonce, balance).readyTx = NoTx
BY DEF newAddrQueue, QueueOK, AddrQueue, OptTx, getTransactions, AsSet

\* An assignment to notReadyTxs keeps at most one transaction per nonce.
LEMMA PutOK ==
  ASSUME NEW S \in SUBSET Tx, NEW t \in Tx, \A u, v \in S : Nonce[u] = Nonce[v] => u = v
  PROVE  /\ put(S, t) \subseteq Tx /\ put(S, t) \subseteq S \cup {t}
         /\ \A u, v \in put(S, t) : Nonce[u] = Nonce[v] => u = v
BY DEF put

\* addTx: the queue stays consistent whether the transaction becomes ready,
\* waits, replaces another one or is dropped.
LEMMA AddTxOK ==
  ASSUME NEW a, NEW q \in AddrQueue, QueueOK(q, a), NEW t \in Tx, From[t] = a
  PROVE  LET r == addTx(q, t)
         IN  /\ QueueOK(r.queue, a)
             /\ r.replacedTx \in OptTx
             /\ r.dropped => r.queue = q
             /\ Moves(q.readyTx, r.queue.readyTx, r.prevReadyTx, r.newReadyTx)
<1> DEFINE r == addTx(q, t)
<1> USE TxFields, QueueFields
<1>1. CASE r = dropResult(q)
  BY <1>1 DEF dropResult, Moves, OptTx, AsSet
<1>2. CASE q.currentNonce = Nonce[t] /\ r # dropResult(q)
  <2>1. r = addPossibleReadyTx(q, t)
    BY <1>2 DEF addTx
  <2>2. CASE q.currentBalance >= Cost[t]
    <3> DEFINE n == [q EXCEPT !.readyTx = t]
    <3>1. /\ r.queue = n /\ r.newReadyTx = t /\ r.prevReadyTx = q.readyTx
          /\ r.replacedTx \in OptTx /\ r.dropped = FALSE
      BY <1>2, <2>1, <2>2 DEF addPossibleReadyTx, addResult, OptTx
    <3>2. /\ n \in AddrQueue /\ n.readyTx = t /\ n.notReadyTxs = q.notReadyTxs
          /\ n.currentNonce = q.currentNonce /\ n.currentBalance = q.currentBalance
      BY DEF AddrQueue, OptTx
    <3>3. QueueOK(n, a)
      BY <1>2, <2>2, <3>2 DEF QueueOK, getTransactions, AsSet
    <3> HIDE DEF n
    <3> QED BY <3>1, <3>2, <3>3 DEF Moves, OptTx, AsSet
  <2>3. CASE ~(q.currentBalance >= Cost[t])
    <3> DEFINE n == [q EXCEPT !.readyTx = NoTx, !.notReadyTxs = put(@, t)]
    <3>1. /\ r.queue = n /\ r.newReadyTx = NoTx /\ r.prevReadyTx = q.readyTx
          /\ r.replacedTx \in OptTx /\ r.dropped = FALSE
      BY <1>2, <2>1, <2>3 DEF addPossibleReadyTx, addResult, OptTx
    <3>2. /\ put(q.notReadyTxs, t) \subseteq Tx /\ put(q.notReadyTxs, t) \subseteq q.notReadyTxs \cup {t}
          /\ \A u, v \in put(q.notReadyTxs, t) : Nonce[u] = Nonce[v] => u = v
      BY PutOK DEF QueueOK
    <3>3. /\ n \in AddrQueue /\ n.readyTx = NoTx /\ n.notReadyTxs = put(q.notReadyTxs, t)
          /\ n.currentNonce = q.currentNonce /\ n.currentBalance = q.currentBalance
      BY <3>2, Zenon DEF AddrQueue, OptTx
    <3> HIDE DEF n
    <3>4. QueueOK(n, a)
      BY <1>2, <3>2, <3>3 DEF QueueOK, getTransactions, AsSet
    <3> QED BY <3>1, <3>3, <3>4 DEF Moves, OptTx, AsSet
  <2> QED BY <2>2, <2>3
<1>3. CASE q.currentNonce < Nonce[t] /\ r # dropResult(q)
  <2> DEFINE n    == [q EXCEPT !.notReadyTxs = put(@, t)]
             same == {u \in q.notReadyTxs : Nonce[u] = Nonce[t]}
  <2>1. r = addNotReadyTx(q, t)
    BY <1>3 DEF addTx
  <2>2. /\ r.queue = n /\ r.newReadyTx = NoTx /\ r.prevReadyTx = NoTx /\ r.dropped = FALSE
        /\ r.replacedTx = IF same \subseteq {t} THEN NoTx ELSE CHOOSE u \in same : TRUE
    BY <1>3, <2>1 DEF addNotReadyTx, addResult
  <2>3. r.replacedTx \in OptTx
    <3>1. CASE same \subseteq {t}
      BY <2>2, <3>1 DEF OptTx
    <3>2. CASE ~(same \subseteq {t})
      <4>1. (CHOOSE u \in same : TRUE) \in same
        BY <3>2
      <4> QED BY <2>2, <3>2, <4>1 DEF OptTx
    <3> QED BY <3>1, <3>2
  <2>4. /\ put(q.notReadyTxs, t) \subseteq Tx /\ put(q.notReadyTxs, t) \subseteq q.notReadyTxs \cup {t}
        /\ \A u, v \in put(q.notReadyTxs, t) : Nonce[u] = Nonce[v] => u = v
    BY PutOK DEF QueueOK
  <2>5. /\ n \in AddrQueue /\ n.readyTx = q.readyTx /\ n.notReadyTxs = put(q.notReadyTxs, t)
        /\ n.currentNonce = q.currentNonce /\ n.currentBalance = q.currentBalance
    BY <2>4 DEF AddrQueue, OptTx
  <2> HIDE DEF n
  <2>6. QueueOK(n, a)
    BY <1>3, <2>4, <2>5 DEF QueueOK, getTransactions, AsSet
  <2> QED BY <2>2, <2>3, <2>5, <2>6 DEF Moves, OptTx, AsSet
<1>4. q.currentNonce > Nonce[t] => r = dropResult(q)
  BY DEF addTx
<1> QED BY <1>1, <1>2, <1>3, <1>4

\* updateCurrentNonceBalance: the queue is consistent with the new nonce and
\* balance, whatever they are (a reorg or an error may also lower them).
LEMMA UpdateCurrentNonceBalanceOK ==
  ASSUME NEW a, NEW q \in AddrQueue, QueueOK(q, a), NEW nonce \in Nat, NEW balance \in Nat
  PROVE  LET r == updateCurrentNonceBalance(q, nonce, balance)
         IN  /\ QueueOK(r.queue, a)
             /\ r.toDelete \subseteq Tx
             /\ Moves(q.readyTx, r.queue.readyTx, r.prevReadyTx, r.newReadyTx)
<1> DEFINE keepsReady == /\ q.readyTx # NoTx
                         /\ Nonce[q.readyTx] = nonce
                         /\ balance >= Cost[q.readyTx]
           oldReadyTx == IF keepsReady THEN NoTx ELSE q.readyTx
           waiting    == q.notReadyTxs \ invalidNonceTxs(q, nonce)
           candidates == {u \in waiting : Nonce[u] = nonce /\ balance >= Cost[u]}
           readyTx    == IF keepsReady THEN q.readyTx
                         ELSE IF candidates = {} THEN NoTx
                         ELSE CHOOSE u \in candidates : TRUE
           rest       == IF keepsReady THEN waiting ELSE waiting \ {readyTx}
           validNonce == oldReadyTx # NoTx /\ Nonce[oldReadyTx] > nonce
           txs        == IF validNonce THEN put(rest, oldReadyTx) ELSE rest
           n          == [q EXCEPT !.currentNonce = nonce, !.currentBalance = balance,
                                   !.readyTx = readyTx, !.notReadyTxs = txs]
           r          == updateCurrentNonceBalance(q, nonce, balance)
<1>1. /\ r.queue = n /\ r.newReadyTx = readyTx /\ r.prevReadyTx = oldReadyTx
      /\ r.toDelete = invalidNonceTxs(q, nonce) \cup (IF validNonce THEN {} ELSE AsSet(oldReadyTx))
  BY DEF updateCurrentNonceBalance
<1> HIDE DEF r
<1>2. invalidNonceTxs(q, nonce) \subseteq Tx /\ waiting \subseteq q.notReadyTxs
  BY QueueFields DEF invalidNonceTxs
<1>3. \A u \in waiting : u \in Tx /\ From[u] = a /\ Nonce[u] >= nonce
  BY QueueFields, TxFields DEF invalidNonceTxs, QueueOK, getTransactions
<1> HIDE DEF waiting
<1>4. /\ readyTx \in OptTx
      /\ readyTx # NoTx => From[readyTx] = a /\ Nonce[readyTx] = nonce /\ Cost[readyTx] <= balance
  <2>1. CASE keepsReady
    BY <2>1, QueueFields, TxFields DEF QueueOK, getTransactions, AsSet, OptTx
  <2>2. CASE ~keepsReady /\ candidates # {}
    <3>1. (CHOOSE u \in candidates : TRUE) \in candidates
      BY <2>2
    <3> QED BY <1>3, <2>2, <3>1, TxFields DEF OptTx
  <2>3. CASE ~keepsReady /\ candidates = {}
    BY <2>3 DEF OptTx
  <2> QED BY <2>1, <2>2, <2>3
<1>5. /\ oldReadyTx \in OptTx
      /\ oldReadyTx # NoTx => oldReadyTx \in Tx /\ oldReadyTx = q.readyTx /\ From[oldReadyTx] = a
  BY QueueFields DEF QueueOK, getTransactions, AsSet, OptTx
<1>6. Moves(q.readyTx, readyTx, oldReadyTx, readyTx)
  BY <1>4, <1>5 DEF Moves, AsSet
<1>7. rest \in SUBSET Tx /\ rest \subseteq waiting
  BY <1>3
<1>8. \A u, v \in rest : Nonce[u] = Nonce[v] => u = v
  BY <1>2, <1>7 DEF QueueOK
<1> HIDE DEF readyTx, rest, oldReadyTx
<1>9. /\ txs \subseteq Tx
      /\ \A u, v \in txs : Nonce[u] = Nonce[v] => u = v
      /\ \A u \in txs : From[u] = a /\ Nonce[u] >= nonce
  <2>1. CASE validNonce
    <3>1. /\ put(rest, oldReadyTx) \subseteq Tx /\ put(rest, oldReadyTx) \subseteq rest \cup {oldReadyTx}
          /\ \A u, v \in put(rest, oldReadyTx) : Nonce[u] = Nonce[v] => u = v
      BY <1>5, <1>7, <1>8, <2>1, PutOK
    <3> QED BY <1>3, <1>5, <1>7, <2>1, <3>1, TxFields
  <2>2. CASE ~validNonce
    BY <1>3, <1>7, <1>8, <2>2
  <2> QED BY <2>1, <2>2
<1> HIDE DEF txs
<1>10. /\ n \in AddrQueue /\ n.readyTx = readyTx /\ n.notReadyTxs = txs
       /\ n.currentNonce = nonce /\ n.currentBalance = balance
  BY <1>4, <1>9, Zenon DEF AddrQueue
<1> HIDE DEF n
<1>11. QueueOK(n, a)
  BY <1>4, <1>9, <1>10 DEF QueueOK, getTransactions, AsSet
<1>12. r.toDelete \subseteq Tx
  BY <1>1, <1>2, <1>5 DEF AsSet
<1> QED BY <1>1, <1>6, <1>10, <1>11, <1>12 DEF r

\* deleteTx and ExpireTransactions only take transactions away.
LEMMA DeleteTxOK ==
  ASSUME NEW a, NEW q \in AddrQueue, QueueOK(q, a), NEW t \in Tx
  PROVE  /\ QueueOK(deleteTx(q, t), a)
         /\ deleteTx(q, t).readyTx = IF q.readyTx = t THEN NoTx ELSE q.readyTx
<1> DEFINE n == deleteTx(q, t)
<1>1. /\ n \in AddrQueue /\ n.currentNonce = q.currentNonce /\ n.currentBalance = q.currentBalance
      /\ n.readyTx = (IF q.readyTx = t THEN NoTx ELSE q.readyTx)
      /\ n.notReadyTxs \subseteq q.notReadyTxs
  BY DEF deleteTx, AddrQueue, OptTx
<1> HIDE DEF n
<1>2. QueueOK(n, a)
  BY <1>1 DEF QueueOK, getTransactions, AsSet
<1> QED BY <1>1, <1>2 DEF n

\* ExpireTransactions keeps the shape of a queue.
LEMMA ExpireTransactionsOK ==
  ASSUME NEW a, NEW q \in AddrQueue, QueueOK(q, a), NEW old \in SUBSET Tx
  PROVE  /\ QueueOK(ExpireTransactions(q, old), a)
         /\ ExpireTransactions(q, old).readyTx = IF q.readyTx \in old THEN NoTx ELSE q.readyTx
<1> DEFINE n == ExpireTransactions(q, old)
<1>1. /\ n \in AddrQueue /\ n.currentNonce = q.currentNonce /\ n.currentBalance = q.currentBalance
      /\ n.readyTx = (IF q.readyTx \in old THEN NoTx ELSE q.readyTx)
      /\ n.notReadyTxs \subseteq q.notReadyTxs
  BY Zenon DEF ExpireTransactions, AddrQueue, OptTx
<1> HIDE DEF n
<1>2. QueueOK(n, a)
  BY <1>1 DEF QueueOK, getTransactions, AsSet
<1> QED BY <1>1, <1>2 DEF n

\* The set of pending hashes plays no part in the other fields.
LEMMA PendingTxsToStoreOK ==
  ASSUME NEW a, NEW q \in AddrQueue, QueueOK(q, a), NEW t \in Tx
  PROVE  /\ QueueOK(addPendingTxToStore(q, t), a)
         /\ addPendingTxToStore(q, t).readyTx = q.readyTx
         /\ QueueOK(deletePendingTxToStore(q, t), a)
         /\ deletePendingTxToStore(q, t).readyTx = q.readyTx
<1>1. ASSUME NEW S \in SUBSET Tx
      PROVE  LET n == [q EXCEPT !.pendingTxsToStore = S]
             IN  QueueOK(n, a) /\ n.readyTx = q.readyTx
  <2> DEFINE n == [q EXCEPT !.pendingTxsToStore = S]
  <2>1. /\ n \in AddrQueue /\ n.currentNonce = q.currentNonce
        /\ n.currentBalance = q.currentBalance
        /\ n.readyTx = q.readyTx /\ n.notReadyTxs = q.notReadyTxs
    BY DEF AddrQueue
  <2> HIDE DEF n
  <2>2. QueueOK(n, a)
    BY <2>1 DEF QueueOK, getTransactions, AsSet
  <2> QED BY <2>1, <2>2 DEF n
<1>2. /\ addPendingTxToStore(q, t) = [q EXCEPT !.pendingTxsToStore = q.pendingTxsToStore \cup {t}]
      /\ deletePendingTxToStore(q, t) = [q EXCEPT !.pendingTxsToStore = q.pendingTxsToStore \ {t}]
  BY DEF addPendingTxToStore, deletePendingTxToStore
<1>3. q.pendingTxsToStore \cup {t} \in SUBSET Tx /\ q.pendingTxsToStore \ {t} \in SUBSET Tx
  BY QueueFields
<1> QED BY <1>1, <1>2, <1>3

-----------------------------------------------------------------------------
(* txSortedList                                                            *)

\* A list the worker may hold.
ListOK(l) == l \in Seq(Tx) /\ IsInjective(l) /\ isSorted(l)

\* A set of naturals that is not empty has a least element, and Min is it.
LEMMA MinOfNats ==
  ASSUME NEW S \in SUBSET Nat, S # {}
  PROVE  Min(S) \in S /\ \A y \in S : Min(S) <= y
<1>1. \E x \in S : \A y \in S : ~(<<y, x>> \in OpToRel(<, Nat))
  BY Zenon, NatLessThanWellFounded, WFMin
<1>2. PICK x \in S : \A y \in S : ~(<<y, x>> \in OpToRel(<, Nat))
  BY Zenon, <1>1
<1>3. \A y \in S : x <= y
  <2>1. SUFFICES ASSUME NEW y \in S, y < x PROVE FALSE
    OBVIOUS
  <2>2. <<y, x>> \in OpToRel(<, Nat)
    BY <2>1 DEF OpToRel
  <2> QED BY Zenon, <1>2, <2>2
<1> QED BY <1>3, Zenon DEF Min

-----------------------------------------------------------------------------
(* Inserting and removing one element of a sequence.                       *)

\* insertAt: its length and its elements.
LEMMA InsertAtElements ==
  ASSUME NEW S, NEW l \in Seq(S), NEW t \in S, NEW i \in 1..(Len(l) + 1)
  PROVE  /\ insertAt(l, i, t) \in Seq(S)
         /\ Len(insertAt(l, i, t)) = Len(l) + 1
         /\ \A j \in 1..(Len(l) + 1) :
               insertAt(l, i, t)[j] = IF j < i THEN l[j] ELSE IF j = i THEN t ELSE l[j - 1]
<1> DEFINE front == SubSeq(l, 1, i - 1)
           back  == SubSeq(l, i, Len(l))
<1>1. /\ front \in Seq(S) /\ Len(front) = i - 1
      /\ \A j \in 1..(i - 1) : front[j] = l[j]
  BY SubSeqProperties
<1>2. /\ back \in Seq(S) /\ Len(back) = Len(l) + 1 - i
      /\ \A j \in 1..(Len(l) + 1 - i) : back[j] = l[i + j - 1]
  BY SubSeqProperties
<1>3. insertAt(l, i, t) = (front \o <<t>>) \o back
  BY DEF insertAt
<1>4. /\ front \o <<t>> \in Seq(S) /\ Len(front \o <<t>>) = i
      /\ \A j \in 1..i : (front \o <<t>>)[j] = IF j < i THEN l[j] ELSE t
  <2> HIDE DEF front
  <2>1. Append(front, t) = front \o <<t>>
    BY <1>1, AppendIsConcat
  <2> QED BY <1>1, <2>1, AppendProperties
<1> DEFINE begin == front \o <<t>>
<1> HIDE DEF front, back, begin
<1>5. /\ begin \o back \in Seq(S)
      /\ Len(begin \o back) = Len(begin) + Len(back)
      /\ \A j \in 1..(Len(begin) + Len(back)) :
            (begin \o back)[j] = IF j <= Len(begin) THEN begin[j] ELSE back[j - Len(begin)]
  <2>1. begin \in Seq(S) /\ back \in Seq(S)
    BY <1>2, <1>4 DEF begin
  <2> QED BY <2>1, ConcatProperties
<1>6. Len(begin) = i /\ \A j \in 1..i : begin[j] = IF j < i THEN l[j] ELSE t
  BY <1>4 DEF begin
<1> DEFINE r == begin \o back
<1> HIDE DEF r
<1>7. /\ r \in Seq(S) /\ Len(r) = Len(l) + 1
      /\ \A j \in 1..(Len(l) + 1) : r[j] = IF j <= i THEN begin[j] ELSE back[j - i]
  BY <1>2, <1>5, <1>6 DEF r
<1>8. ASSUME NEW j \in 1..(Len(l) + 1)
      PROVE  r[j] = IF j < i THEN l[j] ELSE IF j = i THEN t ELSE l[j - 1]
  <2>1. CASE j <= i
    BY <1>6, <1>7, <2>1
  <2>2. CASE j > i
    <3>1. r[j] = back[j - i]
      BY <1>7, <2>2
    <3>2. PICK k \in 1..(Len(l) + 1 - i) : k = j - i
      BY <2>2
    <3>3. back[k] = l[i + k - 1]
      BY <1>2
    <3>4. i + k - 1 = j - 1 /\ ~(j < i) /\ j # i
      BY <2>2, <3>2
    <3> QED BY <3>1, <3>2, <3>3, <3>4
  <2> QED BY <2>1, <2>2
<1> QED BY <1>3, <1>7, <1>8, Zenon DEF begin, r

\* removeAt: its length and its elements.
LEMMA RemoveAtElements ==
  ASSUME NEW S, NEW l \in Seq(S), NEW i \in 1..Len(l)
  PROVE  /\ removeAt(l, i) \in Seq(S)
         /\ Len(removeAt(l, i)) = Len(l) - 1
         /\ \A j \in 1..(Len(l) - 1) :
               removeAt(l, i)[j] = IF j < i THEN l[j] ELSE l[j + 1]
<1> DEFINE front == SubSeq(l, 1, i - 1)
           back  == SubSeq(l, i + 1, Len(l))
<1>1. /\ front \in Seq(S) /\ Len(front) = i - 1
      /\ \A j \in 1..(i - 1) : front[j] = l[j]
  BY SubSeqProperties
<1>2. /\ back \in Seq(S) /\ Len(back) = Len(l) - i
      /\ \A j \in 1..(Len(l) - i) : back[j] = l[i + j]
  BY SubSeqProperties
<1>3. removeAt(l, i) = front \o back
  BY DEF removeAt
<1> HIDE DEF front, back
<1>4. /\ front \o back \in Seq(S)
      /\ Len(front \o back) = Len(l) - 1
      /\ \A j \in 1..(Len(l) - 1) :
            (front \o back)[j] = IF j <= i - 1 THEN front[j] ELSE back[j - (i - 1)]
  BY <1>1, <1>2, ConcatProperties
<1> DEFINE r == front \o back
<1> HIDE DEF r
<1>5. /\ r \in Seq(S) /\ Len(r) = Len(l) - 1
      /\ \A j \in 1..(Len(l) - 1) : r[j] = IF j <= i - 1 THEN front[j] ELSE back[j - (i - 1)]
  BY <1>4 DEF r
<1>6. ASSUME NEW j \in 1..(Len(l) - 1)
      PROVE  r[j] = IF j < i THEN l[j] ELSE l[j + 1]
  <2>1. CASE j < i
    BY <1>1, <1>5, <2>1
  <2>2. CASE j >= i
    <3>1. r[j] = back[j - (i - 1)]
      BY <1>5, <2>2
    <3>2. PICK k \in 1..(Len(l) - i) : k = j - (i - 1)
      BY <2>2
    <3>3. back[k] = l[i + k]
      BY <1>2
    <3>4. i + k = j + 1 /\ ~(j < i)
      BY <2>2, <3>2
    <3> QED BY <3>1, <3>2, <3>3, <3>4
  <2> QED BY <2>1, <2>2
<1> QED BY <1>3, <1>5, <1>6, Zenon DEF r

\* Removing an element keeps every other one.
LEMMA RemoveAtRange ==
  ASSUME NEW S, NEW l \in Seq(S), NEW i \in 1..Len(l)
  PROVE  /\ Range(removeAt(l, i)) \subseteq Range(l)
         /\ Range(l) \subseteq Range(removeAt(l, i)) \cup {l[i]}
<1> DEFINE r == removeAt(l, i)
<1>1. r \in Seq(S) /\ Len(r) = Len(l) - 1
      /\ \A j \in 1..(Len(l) - 1) : r[j] = IF j < i THEN l[j] ELSE l[j + 1]
  BY RemoveAtElements
<1> HIDE DEF r
<1>2. DOMAIN r = 1..(Len(l) - 1) /\ DOMAIN l = 1..Len(l)
  BY <1>1
<1>3. ASSUME NEW j \in 1..(Len(l) - 1) PROVE \E k \in 1..Len(l) : r[j] = l[k]
  <2>1. CASE j < i
    BY <1>1, <2>1
  <2>2. CASE j >= i
    <3>1. r[j] = l[j + 1] /\ j + 1 \in 1..Len(l)
      BY <1>1, <2>2
    <3> QED BY <3>1
  <2> QED BY <2>1, <2>2
<1>4. ASSUME NEW k \in 1..Len(l), k # i PROVE \E j \in 1..(Len(l) - 1) : r[j] = l[k]
  <2>1. CASE k < i
    BY <1>1, <2>1
  <2>2. CASE k > i
    <3>1. k - 1 \in 1..(Len(l) - 1) /\ r[k - 1] = l[(k - 1) + 1]
      BY <1>1, <2>2
    <3>2. (k - 1) + 1 = k
      OBVIOUS
    <3> QED BY <3>1, <3>2
  <2> QED BY <1>4, <2>1, <2>2
<1>5. Range(r) \subseteq Range(l)
  BY <1>2, <1>3, Zenon DEF Range
<1>6. Range(l) \subseteq Range(r) \cup {l[i]}
  BY <1>2, <1>4, Zenon DEF Range
<1> QED BY <1>5, <1>6 DEF r

-----------------------------------------------------------------------------
(* The operations of the list.                                             *)

\* Where addSort inserts: behind every price that is not lower.
LEMMA AddIndexPlace ==
  ASSUME NEW l \in Seq(Tx), ListOK(l), NEW t \in Tx
  PROVE  /\ addIndex(l, t) \in 1..(Len(l) + 1)
         /\ \A k \in 1..Len(l) : k < addIndex(l, t) => GasPrice[l[k]] >= GasPrice[t]
         /\ addIndex(l, t) \in 1..Len(l) => GasPrice[t] > GasPrice[l[addIndex(l, t)]]
<1> DEFINE lower == {i \in 1..Len(l) : GasPrice[t] > GasPrice[l[i]]}
           all   == lower \cup {Len(l) + 1}
<1>1. /\ Len(l) \in Nat /\ GasPrice[t] \in Nat
      /\ \A k \in 1..Len(l) : l[k] \in Tx /\ GasPrice[l[k]] \in Nat
  BY TxAssumption
<1>2. all \in SUBSET Nat /\ all # {} /\ all \subseteq 1..(Len(l) + 1)
  BY <1>1
<1>3. addIndex(l, t) = Min(all)
  BY DEF addIndex
<1> HIDE DEF all
<1>4. PICK n \in 1..(Len(l) + 1) : n = addIndex(l, t) /\ n \in all /\ \A y \in all : n <= y
  BY <1>2, <1>3, MinOfNats, Zenon
<1>5. ASSUME NEW k \in 1..Len(l), k < n PROVE GasPrice[l[k]] >= GasPrice[t]
  <2>1. k \notin all
    BY <1>4, <1>5
  <2> QED BY <1>1, <2>1 DEF all
<1> QED BY <1>1, <1>4, <1>5 DEF all

\* add keeps the list sorted and free of duplicates, and adds its argument.
LEMMA AddOK ==
  ASSUME NEW l \in Seq(Tx), ListOK(l), NEW t \in Tx
  PROVE  ListOK(add(l, t)) /\ Range(add(l, t)) = Range(l) \cup {t}
<1>1. CASE t \in Range(l)
  BY <1>1 DEF add
<1>2. CASE t \notin Range(l)
  <2>1. l \in Seq(Tx) /\ Len(l) \in Nat /\ DOMAIN l = 1..Len(l)
        /\ \A k \in 1..Len(l) : l[k] \in Tx /\ GasPrice[l[k]] \in Nat
    BY TxAssumption DEF ListOK
  <2>2. PICK i \in 1..(Len(l) + 1) :
        /\ i = addIndex(l, t)
        /\ \A k \in 1..Len(l) : k < i => GasPrice[l[k]] >= GasPrice[t]
        /\ i \in 1..Len(l) => GasPrice[t] > GasPrice[l[i]]
    BY AddIndexPlace
  <2> DEFINE r == insertAt(l, i, t)
  <2>3. /\ r \in Seq(Tx) /\ Len(r) = Len(l) + 1
        /\ \A j \in 1..(Len(l) + 1) : r[j] = IF j < i THEN l[j] ELSE IF j = i THEN t ELSE l[j - 1]
    BY InsertAtElements
  <2>4. add(l, t) = r
    BY <1>2, <2>2 DEF add
  <2> HIDE DEF r
  <2>5. DOMAIN r = 1..(Len(l) + 1)
    BY <2>3
  <2>6. \A j \in 1..(Len(l) + 1) :
           /\ j < i => j \in 1..Len(l) /\ r[j] = l[j]
           /\ j = i => r[j] = t
           /\ j > i => j - 1 \in 1..Len(l) /\ r[j] = l[j - 1]
    BY <2>1, <2>2, <2>3
  <2>7. \A k \in 1..Len(l) : l[k] # t
    BY <1>2, <2>1 DEF Range
  <2>8. Range(r) \subseteq Range(l) \cup {t}
    <3>1. ASSUME NEW j \in 1..(Len(l) + 1) PROVE r[j] \in Range(l) \cup {t}
      <4>1. CASE j < i
        BY <2>1, <2>6, <4>1 DEF Range
      <4>2. CASE j = i
        BY <2>6, <4>2
      <4>3. CASE j > i
        <5>1. j - 1 \in 1..Len(l) /\ r[j] = l[j - 1]
          BY <2>1, <2>2, <2>6, <4>3
        <5> QED BY <2>1, <5>1 DEF Range
      <4> QED BY <2>1, <2>2, <4>1, <4>2, <4>3
    <3> QED BY <2>5, <3>1 DEF Range
  <2>9. Range(l) \cup {t} \subseteq Range(r)
    <3>1. t \in Range(r)
      BY <2>2, <2>5, <2>6 DEF Range
    <3>2. ASSUME NEW k \in 1..Len(l) PROVE l[k] \in Range(r)
      <4>1. CASE k < i
        <5>1. k \in 1..(Len(l) + 1) /\ r[k] = l[k]
          BY <2>1, <2>6, <4>1
        <5> QED BY <2>5, <5>1 DEF Range
      <4>2. CASE k >= i
        <5>1. PICK j \in 1..(Len(l) + 1) : j = k + 1
          BY <2>1
        <5>2. r[j] = l[j - 1] /\ j - 1 = k
          BY <2>1, <2>2, <2>6, <4>2, <5>1
        <5> QED BY <2>5, <5>2 DEF Range
      <4> QED BY <2>1, <2>2, <4>1, <4>2
    <3> QED BY <2>1, <3>1, <3>2 DEF Range
  <2>10. IsInjective(r)
    <3>1. \A a, b \in 1..Len(l) : l[a] = l[b] => a = b
      BY <2>1 DEF ListOK, IsInjective
    <3>2. SUFFICES ASSUME NEW a \in 1..(Len(l) + 1), NEW b \in 1..(Len(l) + 1), r[a] = r[b]
                   PROVE  a = b
      BY <2>5 DEF IsInjective
    <3>3. CASE a < i /\ b < i
      BY <2>1, <2>6, <3>1, <3>2, <3>3
    <3>4. CASE a < i /\ b > i
      <4>1. b - 1 \in 1..Len(l) /\ a \in 1..Len(l) /\ r[a] = l[a] /\ r[b] = l[b - 1]
        BY <2>1, <2>2, <2>6, <3>4
      <4>2. a = b - 1
        BY <3>1, <3>2, <4>1, Zenon
      <4> QED BY <2>1, <2>2, <3>4, <4>2
    <3>5. CASE a > i /\ b < i
      <4>1. a - 1 \in 1..Len(l) /\ b \in 1..Len(l) /\ r[b] = l[b] /\ r[a] = l[a - 1]
        BY <2>1, <2>2, <2>6, <3>5
      <4>2. a - 1 = b
        BY <3>1, <3>2, <4>1
      <4> QED BY <2>1, <2>2, <3>5, <4>2
    <3>6. CASE a > i /\ b > i
      <4>1. /\ a - 1 \in 1..Len(l) /\ b - 1 \in 1..Len(l)
            /\ r[a] = l[a - 1] /\ r[b] = l[b - 1]
        BY <2>1, <2>2, <2>6, <3>6
      <4>2. a - 1 = b - 1
        BY <3>1, <3>2, <4>1, Zenon
      <4> QED BY <4>2
    <3>7. CASE a = i \/ b = i
      BY <2>1, <2>2, <2>6, <2>7, <3>2, <3>7
    <3> QED BY <2>1, <2>2, <3>3, <3>4, <3>5, <3>6, <3>7
  <2>11. isSorted(r)
    <3>1. \A a, b \in 1..Len(l) : a < b => GasPrice[l[a]] >= GasPrice[l[b]]
      BY DEF ListOK, isSorted
    <3>2. SUFFICES ASSUME NEW a \in 1..(Len(l) + 1), NEW b \in 1..(Len(l) + 1), a < b
                   PROVE  GasPrice[r[a]] >= GasPrice[r[b]]
      BY <2>3, Zenon DEF isSorted
    <3>3. GasPrice[t] \in Nat
      BY TxAssumption
    <3>4. CASE a < i /\ b < i
      BY <2>6, <3>1, <3>2, <3>4
    <3>5. CASE a < i /\ b = i
      BY <2>2, <2>6, <3>5
    <3>6. CASE a < i /\ b > i
      <4>1. a \in 1..Len(l) /\ b - 1 \in 1..Len(l) /\ a < b - 1
        BY <2>1, <2>2, <2>6, <3>6
      <4> QED BY <2>6, <3>1, <3>6, <4>1
    <3>7. CASE a = i /\ b > i
      <4>1. i \in 1..Len(l) /\ b - 1 \in 1..Len(l) /\ (i < b - 1 \/ i = b - 1)
        BY <2>1, <2>2, <2>6, <3>7
      <4>2. GasPrice[l[i]] >= GasPrice[l[b - 1]]
        BY <2>1, <3>1, <4>1
      <4> QED BY <2>1, <2>2, <2>6, <3>3, <3>7, <4>1, <4>2
    <3>8. CASE a > i
      <4>1. a - 1 \in 1..Len(l) /\ b - 1 \in 1..Len(l) /\ a - 1 < b - 1 /\ b > i
        BY <2>1, <2>2, <2>6, <3>2, <3>8
      <4> QED BY <2>6, <3>1, <3>8, <4>1, Zenon
    <3> QED BY <2>1, <2>2, <3>2, <3>4, <3>5, <3>6, <3>7, <3>8
  <2> QED BY <2>3, <2>4, <2>8, <2>9, <2>10, <2>11 DEF ListOK
<1> QED BY <1>1, <1>2

\* In a sorted list the scan of delete meets the transaction it looks for.
LEMMA DeleteScanFinds ==
  ASSUME NEW l \in Seq(Tx), ListOK(l), NEW t \in Tx, NEW k \in 1..Len(l), l[k] = t
  PROVE  k \in deleteScan(l, t)
<1> DEFINE all == {i \in 1..Len(l) : GasPrice[t] >= GasPrice[l[i]]} \cup {Len(l) + 1}
<1>1. /\ Len(l) \in Nat /\ GasPrice[t] \in Nat
      /\ \A i \in 1..Len(l) : l[i] \in Tx /\ GasPrice[l[i]] \in Nat
  BY TxAssumption
<1>2. all \in SUBSET Nat /\ all # {} /\ all \subseteq 1..(Len(l) + 1) /\ k \in all
  BY <1>1
<1>3. deleteScan(l, t) = {i \in Min(all)..Len(l) :
                            \A j \in Min(all)..i : GasPrice[l[j]] = GasPrice[t]}
  BY DEF deleteScan
<1> HIDE DEF all
<1>4. PICK first \in 1..(Len(l) + 1) : first = Min(all) /\ first \in all /\ first <= k
  BY <1>2, MinOfNats, Zenon
<1>5. first \in 1..Len(l) /\ GasPrice[t] >= GasPrice[l[first]]
  BY <1>1, <1>4 DEF all
<1>6. \A i, j \in 1..Len(l) : i < j => GasPrice[l[i]] >= GasPrice[l[j]]
  BY DEF ListOK, isSorted
<1>7. ASSUME NEW j \in first..k PROVE GasPrice[l[j]] = GasPrice[t]
  <2>1. j \in 1..Len(l)
    BY <1>1, <1>4
  <2>2. GasPrice[l[j]] >= GasPrice[t]
    <3>1. CASE j < k
      BY <1>6, <2>1, <3>1
    <3>2. CASE j = k
      BY <1>1, <3>2
    <3> QED BY <3>1, <3>2
  <2>3. GasPrice[l[first]] >= GasPrice[l[j]]
    <3>1. CASE first < j
      BY <1>5, <1>6, <2>1, <3>1
    <3>2. CASE first = j
      BY <1>1, <1>5, <3>2
    <3> QED BY <3>1, <3>2
  <2> QED BY <1>1, <1>5, <2>1, <2>2, <2>3
<1> QED BY <1>3, <1>4, <1>7

\* delete keeps the list sorted and free of duplicates, and removes exactly its
\* argument.
LEMMA DeleteOK ==
  ASSUME NEW l \in Seq(Tx), ListOK(l), NEW t \in Tx
  PROVE  ListOK(delete(l, t)) /\ Range(delete(l, t)) = Range(l) \ {t}
<1>1. Len(l) \in Nat /\ DOMAIN l = 1..Len(l)
  OBVIOUS
<1>2. deleteScan(l, t) \subseteq 1..Len(l)
  <2> DEFINE all == {i \in 1..Len(l) : GasPrice[t] >= GasPrice[l[i]]} \cup {Len(l) + 1}
  <2>1. all \in SUBSET Nat /\ all # {} /\ all \subseteq 1..(Len(l) + 1)
    BY <1>1
  <2>2. deleteScan(l, t) \subseteq Min(all)..Len(l)
    BY DEF deleteScan
  <2> HIDE DEF all
  <2>3. Min(all) \in 1..(Len(l) + 1)
    BY <2>1, MinOfNats, Zenon
  <2> QED BY <1>1, <2>2, <2>3
<1>3. CASE \E i \in deleteScan(l, t) : l[i] = t
  <2> DEFINE ix == CHOOSE i \in deleteScan(l, t) : l[i] = t
  <2>1. ix \in deleteScan(l, t) /\ l[ix] = t
    BY <1>3
  <2>2. delete(l, t) = removeAt(l, ix)
    BY <1>3 DEF delete
  <2> HIDE DEF ix
  <2>3. PICK i \in 1..Len(l) : i = ix
    BY <1>2, <2>1
  <2> DEFINE r == removeAt(l, i)
  <2>4. /\ r \in Seq(Tx) /\ Len(r) = Len(l) - 1
        /\ \A j \in 1..(Len(l) - 1) : r[j] = IF j < i THEN l[j] ELSE l[j + 1]
    BY RemoveAtElements
  <2>5. Range(r) \subseteq Range(l) /\ Range(l) \subseteq Range(r) \cup {t}
    BY <2>1, <2>3, RemoveAtRange
  <2> HIDE DEF r
  <2>6. DOMAIN r = 1..(Len(l) - 1)
    BY <2>4
  <2>7. \A a, b \in 1..Len(l) : l[a] = l[b] => a = b
    BY <1>1 DEF ListOK, IsInjective
  <2>8. \A j \in 1..(Len(l) - 1) :
           /\ j < i => j \in 1..Len(l) /\ r[j] = l[j]
           /\ j >= i => j + 1 \in 1..Len(l) /\ r[j] = l[j + 1]
    BY <1>1, <2>4
  <2>9. t \notin Range(r)
    <3>1. ASSUME NEW j \in 1..(Len(l) - 1) PROVE r[j] # t
      <4>1. CASE j < i
        BY <2>1, <2>3, <2>7, <2>8, <4>1
      <4>2. CASE j >= i
        <5>1. j + 1 \in 1..Len(l) /\ r[j] = l[j + 1] /\ j + 1 # i
          BY <2>8, <4>2
        <5> QED BY <2>1, <2>3, <2>7, <5>1
      <4> QED BY <4>1, <4>2
    <3> QED BY <2>6, <3>1 DEF Range
  <2>10. IsInjective(r)
    <3>1. SUFFICES ASSUME NEW a \in 1..(Len(l) - 1), NEW b \in 1..(Len(l) - 1), r[a] = r[b]
                   PROVE  a = b
      BY <2>6 DEF IsInjective
    <3> QED BY <1>1, <2>7, <2>8, <3>1
  <2>11. isSorted(r)
    <3>1. \A a, b \in 1..Len(l) : a < b => GasPrice[l[a]] >= GasPrice[l[b]]
      BY DEF ListOK, isSorted
    <3>2. SUFFICES ASSUME NEW a \in 1..(Len(l) - 1), NEW b \in 1..(Len(l) - 1), a < b
                   PROVE  GasPrice[r[a]] >= GasPrice[r[b]]
      BY <2>4 DEF isSorted
    <3>3. CASE b < i
      BY <2>8, <3>1, <3>2, <3>3
    <3>4. CASE a < i /\ b >= i
      <4>1. a \in 1..Len(l) /\ b + 1 \in 1..Len(l) /\ a < b + 1
        BY <2>8, <3>2, <3>4
      <4> QED BY <2>8, <3>1, <3>4, <4>1
    <3>5. CASE a >= i
      <4>1. a + 1 \in 1..Len(l) /\ b + 1 \in 1..Len(l) /\ a + 1 < b + 1 /\ b >= i
        BY <2>8, <3>2, <3>5
      <4> QED BY <2>8, <3>1, <3>5, <4>1
    <3> QED BY <3>3, <3>4, <3>5
  <2> QED BY <2>2, <2>3, <2>4, <2>5, <2>9, <2>10, <2>11 DEF ListOK, r
<1>4. CASE ~ \E i \in deleteScan(l, t) : l[i] = t
  <2>1. delete(l, t) = l
    BY <1>4 DEF delete
  <2>2. \A k \in 1..Len(l) : l[k] # t
    BY <1>4, DeleteScanFinds
  <2> QED BY <1>1, <2>1, <2>2 DEF Range
<1> QED BY <1>3, <1>4

\* Moving the ready transaction of one queue.
LEMMA MoveReadyOK ==
  ASSUME NEW l \in Seq(Tx), ListOK(l), NEW prev \in OptTx, NEW new \in OptTx
  PROVE  /\ ListOK(moveReady(l, prev, new))
         /\ Range(moveReady(l, prev, new)) = (Range(l) \ AsSet(prev)) \cup AsSet(new)
<1> DEFINE d == IF prev = NoTx THEN l ELSE delete(l, prev)
<1>1. ListOK(d) /\ Range(d) = Range(l) \ AsSet(prev)
  BY DeleteOK DEF OptTx, AsSet
<1>2. moveReady(l, prev, new) = IF new = NoTx THEN d ELSE add(d, new)
  BY DEF moveReady
<1> HIDE DEF d
<1>3. d \in Seq(Tx)
  BY <1>1 DEF ListOK
<1> QED BY <1>1, <1>2, <1>3, AddOK DEF OptTx, AsSet
=============================================================================
