---------------------------- MODULE Worker_proofs ----------------------------
(***************************************************************************)
(* The invariants of the worker for any senders, transactions, prices,     *)
(* balances and number of events.                                          *)
(***************************************************************************)
EXTENDS Worker, WorkerLists_proofs, FiniteSetTheorems

\* A leaf may take the SMT solver up to 30 seconds, twice.
USE SMTT(30), Z3T(30)

-----------------------------------------------------------------------------
(* The two structures the mutex protects, as functions of their values.    *)

\* The ready transaction of an entry of the map, as a set.
ReadyOf(x) == IF x = NoQueue THEN {} ELSE AsSet(x.readyTx)

\* Consistent queues, and a sorted list of exactly their ready transactions.
WorkerOK(p, l) ==
  /\ p \in [Addr -> AddrQueue \cup {NoQueue}]
  /\ \A a \in Addr : p[a] # NoQueue => QueueOK(p[a], a)
  /\ l \in Seq(Tx) /\ ListOK(l)
  /\ \A t \in Tx : t \in Range(l) <=> t \in ReadyOf(p[From[t]])

\* The range of the empty sequence.
LEMMA EmptyRange == Range(<<>>) = {}
BY DEF Range

\* The range of a sequence of one element.
LEMMA SingletonRange ==
  ASSUME NEW S, NEW x \in S
  PROVE  <<x>> \in Seq(S) /\ Range(<<x>>) = {x}
<1>1. DOMAIN <<x>> = 1..1 /\ <<x>>[1] = x /\ <<x>> \in Seq(S)
  OBVIOUS
<1> QED BY <1>1 DEF Range

\* A function on 1..n is a sequence.
LEMMA FunctionIsSeq ==
  ASSUME NEW S, NEW n \in Nat, NEW f \in [1..n -> S]
  PROVE  f \in Seq(S) /\ Range(f) \subseteq S
BY DEF Range

\* A suffix of a sequence is a sequence of the same set.
LEMMA SuffixType ==
  ASSUME NEW S, NEW s \in Seq(S), NEW m \in 1..Len(s)
  PROVE  SubSeq(s, m + 1, Len(s)) \in Seq(S)
<1>1. \A i \in (m + 1)..Len(s) : s[i] \in S
  BY ElementOfSeq
<1> QED BY <1>1, SubSeqProperties

\* The elements of a sequence are those at its indexes.
LEMMA ElementsOfSeq ==
  ASSUME NEW S, NEW l \in Seq(S)
  PROVE  /\ Range(l) \subseteq S
         /\ \A x \in Range(l) : \E i \in 1..Len(l) : x = l[i]
         /\ \A i \in 1..Len(l) : l[i] \in Range(l)
<1>1. DOMAIN l = 1..Len(l)
  OBVIOUS
<1>2. \A i \in 1..Len(l) : l[i] \in S
  BY Zenon, ElementOfSeq
<1> QED BY Zenon, <1>1, <1>2 DEF Range

\* A ready transaction is in the list.
LEMMA ReadyInList ==
  ASSUME NEW p, NEW l, WorkerOK(p, l), NEW a \in Addr
  PROVE  ReadyOf(p[a]) \subseteq Range(l) /\ ReadyOf(p[a]) \subseteq Tx
         /\ \A t \in ReadyOf(p[a]) : From[t] = a
<1>1. SUFFICES ASSUME NEW t \in ReadyOf(p[a])
               PROVE  t \in Range(l) /\ t \in Tx /\ From[t] = a
  BY Zenon
<1>2. p[a] # NoQueue /\ p[a] \in AddrQueue /\ t = p[a].readyTx /\ t # NoTx
  BY Zenon, <1>1 DEF ReadyOf, AsSet, WorkerOK
<1>3. t \in Tx
  BY Zenon, <1>2 DEF AddrQueue, OptTx
<1>4. From[t] = a
  BY Zenon, <1>2 DEF WorkerOK, QueueOK, getTransactions, AsSet
<1> QED BY Zenon, <1>1, <1>3, <1>4 DEF WorkerOK

\* One entry of the map changes, and the list with it.
LEMMA QueueStep ==
  ASSUME NEW p, NEW l, WorkerOK(p, l), NEW a \in Addr, NEW m,
         NEW q \in AddrQueue \cup {NoQueue}, q # NoQueue => QueueOK(q, a),
         ListOK(m), Range(m) = (Range(l) \ ReadyOf(p[a])) \cup ReadyOf(q)
  PROVE  WorkerOK([p EXCEPT ![a] = q], m)
<1> DEFINE n == [p EXCEPT ![a] = q]
<1>1. /\ n \in [Addr -> AddrQueue \cup {NoQueue}]
      /\ n[a] = q /\ \A b \in Addr : b # a => n[b] = p[b]
  BY Zenon DEF WorkerOK
<1> HIDE DEF n
<1>2. \A b \in Addr : n[b] # NoQueue => QueueOK(n[b], b)
  BY Zenon, <1>1 DEF WorkerOK
<1>3. ASSUME NEW t \in Tx PROVE t \in Range(m) <=> t \in ReadyOf(n[From[t]])
  <2>1. From[t] \in Addr
    BY Zenon, TxFields
  <2>2. CASE From[t] = a
    <3>1. t \in Range(l) <=> t \in ReadyOf(p[a])
      BY Zenon, <2>2 DEF WorkerOK
    <3> QED BY Zenon, <1>1, <2>2, <3>1
  <2>3. CASE From[t] # a
    <3>1. t \notin ReadyOf(p[a])
      BY Zenon, <2>3, ReadyInList
    <3>2. t \notin ReadyOf(q)
      <4>1. ASSUME t \in ReadyOf(q) PROVE From[t] = a
        <5>1. q # NoQueue /\ t = q.readyTx /\ t # NoTx
          BY Zenon, <4>1 DEF ReadyOf, AsSet
        <5> QED BY Zenon, <5>1 DEF QueueOK, getTransactions, AsSet
      <4> QED BY Zenon, <2>3, <4>1
    <3> QED BY <1>1, <2>1, <2>3, <3>1, <3>2, ZenonT(60) DEF WorkerOK
  <2> QED BY Zenon, <2>2, <2>3
<1> QED BY Zenon, <1>1, <1>2, <1>3 DEF WorkerOK, ListOK, n

\* The change an operation of the queue reports, applied with moveReady.
LEMMA MoveStep ==
  ASSUME NEW p, NEW l, WorkerOK(p, l), NEW a \in Addr,
         NEW old \in OptTx, AsSet(old) = ReadyOf(p[a]),
         NEW q \in AddrQueue, QueueOK(q, a), NEW prev, NEW new,
         Moves(old, q.readyTx, prev, new)
  PROVE  WorkerOK([p EXCEPT ![a] = q], moveReady(l, prev, new))
<1> DEFINE m == moveReady(l, prev, new)
<1>1. l \in Seq(Tx) /\ ListOK(l)
  BY Zenon DEF WorkerOK
<1>2. ListOK(m) /\ Range(m) = (Range(l) \ AsSet(prev)) \cup AsSet(new)
  BY <1>1, MoveReadyOK DEF Moves
<1>3. ReadyOf(p[a]) \subseteq Range(l)
  BY Zenon, ReadyInList
<1>4. ReadyOf(q) = AsSet(q.readyTx)
  BY Zenon, WorkerAssumption DEF ReadyOf
<1> HIDE DEF m
<1>5. Range(m) = (Range(l) \ ReadyOf(p[a])) \cup ReadyOf(q)
  BY ZenonT(60), <1>2, <1>3, <1>4 DEF Moves
<1>6. WorkerOK([p EXCEPT ![a] = q], m)
  BY ZenonT(60), <1>2, <1>5, QueueStep
<1> QED BY Zenon, <1>6 DEF m

\* A queue loses its ready transaction, or keeps it: delete from the list.
LEMMA TakeStep ==
  ASSUME NEW p, NEW l, WorkerOK(p, l), NEW a \in Addr, p[a] # NoQueue,
         NEW q \in AddrQueue, QueueOK(q, a),
         NEW taken \in BOOLEAN, taken => p[a].readyTx # NoTx,
         q.readyTx = IF taken THEN NoTx ELSE p[a].readyTx
  PROVE  WorkerOK([p EXCEPT ![a] = q], IF taken THEN delete(l, p[a].readyTx) ELSE l)
<1> DEFINE m == IF taken THEN delete(l, p[a].readyTx) ELSE l
<1>1. l \in Seq(Tx) /\ ListOK(l) /\ p[a] \in AddrQueue /\ p[a].readyTx \in OptTx
  BY Zenon, QueueFields DEF WorkerOK
<1>2. ReadyOf(p[a]) \subseteq Range(l) /\ ReadyOf(p[a]) = AsSet(p[a].readyTx)
  BY Zenon, ReadyInList DEF ReadyOf
<1>3. ReadyOf(q) = AsSet(q.readyTx)
  BY Zenon, WorkerAssumption DEF ReadyOf
<1>4. CASE taken
  <2>1. p[a].readyTx \in Tx /\ m = delete(l, p[a].readyTx)
    BY ZenonT(60), <1>1, <1>4 DEF OptTx
  <2>2. ListOK(m) /\ Range(m) = Range(l) \ {p[a].readyTx}
    BY Zenon, <1>1, <2>1, DeleteOK
  <2> HIDE DEF m
  <2>3. Range(m) = (Range(l) \ ReadyOf(p[a])) \cup ReadyOf(q)
    BY <1>2, <1>3, <1>4, <2>1, <2>2, ZenonT(60) DEF AsSet
  <2>4. WorkerOK([p EXCEPT ![a] = q], m)
    BY ZenonT(60), <2>2, <2>3, QueueStep
  <2> QED BY Zenon, <2>4 DEF m
<1>5. CASE ~taken
  <2>1. Range(l) = (Range(l) \ ReadyOf(p[a])) \cup ReadyOf(q)
    BY ZenonT(60), <1>2, <1>3, <1>5
  <2>2. WorkerOK([p EXCEPT ![a] = q], l)
    BY ZenonT(60), <1>1, <2>1, QueueStep
  <2> QED BY ZenonT(60), <1>5, <2>2
<1> QED BY Zenon, <1>4, <1>5

-----------------------------------------------------------------------------
(* The inductive invariant.                                                *)

\* The threads do not meet in the worker: the senders of pending transactions
\* have queues; a reorg in progress (clearing, restoring) has something to
\* restore, nothing pending and no expiry running, and restores no transaction
\* of the sender whose account the loader is reading; the expirer only visits
\* queues that exist.
ThreadsApart ==
  /\ \A t \in Range(pendingToStore) : From[t] \in Queued
  /\ fin.pc \in {"clearing", "restoring"} => fin.restore # <<>> /\ pendingToStore = <<>>
  /\ fin.pc \notin {"clearing", "restoring"} => fin.restore = <<>>
  /\ fin.pc \in {"updating", "clearing", "restoring"} => expirer.todo = {}
  /\ loader.pc \in {"fetching", "fetched"} =>
       \A t \in Range(fin.restore) : From[t] # From[loader.tx]
  /\ expirer.todo \subseteq Queued

WorkerInv ==
  /\ TypeOK
  /\ WorkerOK(pool, txSortedList)
  /\ LoaderCreatesNewQueue
  /\ ThreadsApart

\* It implies the invariants the runs check.
LEMMA InvImplies ==
  ASSUME WorkerInv
  PROVE  SortedListExact /\ SortedByGasPrice /\ QueueConsistent
<1> USE DEF WorkerInv
<1>1. SortedByGasPrice /\ IsInjective(txSortedList) /\ txSortedList \in Seq(Tx)
  BY Zenon DEF WorkerOK, ListOK, SortedByGasPrice
<1>2. QueueConsistent
  BY Zenon DEF WorkerOK, QueueOK, QueueConsistent, Queued
<1>3. ASSUME NEW t \in Range(txSortedList) PROVE t \in {pool[a].readyTx : a \in Queued} \ {NoTx}
  <2>1. t \in Tx /\ t # NoTx /\ From[t] \in Addr
    BY Zenon, <1>1, ElementsOfSeq, TxFields
  <2>2. t \in ReadyOf(pool[From[t]])
    BY Zenon, <2>1 DEF WorkerOK
  <2>3. From[t] \in Queued /\ t = pool[From[t]].readyTx
    BY Zenon, <2>1, <2>2 DEF ReadyOf, AsSet, Queued
  <2> QED BY Zenon, <2>1, <2>3
<1>4. ASSUME NEW t \in {pool[a].readyTx : a \in Queued} \ {NoTx} PROVE t \in Range(txSortedList)
  <2>1. PICK a \in Queued : t = pool[a].readyTx
    BY Zenon, <1>4
  <2>2. a \in Addr /\ t \in ReadyOf(pool[a])
    BY Zenon, <1>4, <2>1 DEF Queued, ReadyOf, AsSet
  <2> QED BY Zenon, <2>2, ReadyInList
<1>5. Range(txSortedList) = {pool[a].readyTx : a \in Queued} \ {NoTx}
  BY Zenon, <1>3, <1>4
<1> QED BY ZenonT(60), <1>1, <1>2, <1>5 DEF SortedListExact

\* A worker just created (NewWorker) satisfies the invariant.
LEMMA InitInv == Init => WorkerInv
<1> SUFFICES ASSUME Init PROVE WorkerInv
  OBVIOUS
<1> USE DEF Init
<1>1. TypeOK
  <2>1. stored \in Account /\ exec \in Account
    BY WorkerAssumption DEF Account
  <2>2. /\ pool \in [Addr -> AddrQueue \cup {NoQueue}]
        /\ txPool \in [Tx -> [status : Status, isWIP : BOOLEAN]]
        /\ events \in [Event -> Nat]
    BY Zenon DEF Status
  <2> QED BY <2>1, <2>2 DEF TypeOK, Idle, LoaderState, FinIdle, FinState, StoreIdle, ExpIdle, OptTx
<1>2. Range(txSortedList) = {} /\ Range(pendingToStore) = {} /\ Range(fin.restore) = {}
  BY DEF Range, FinIdle
<1>3. WorkerOK(pool, txSortedList)
  <2>1. ListOK(txSortedList)
    BY DEF ListOK, IsInjective, isSorted
  <2>2. \A a \in Addr : pool[a] = NoQueue
    BY Zenon
  <2>3. \A t \in Tx : ReadyOf(pool[From[t]]) = {}
    BY <2>2, TxFields DEF ReadyOf
  <2> QED BY <1>1, <1>2, <2>1, <2>2, <2>3, ZenonT(60) DEF WorkerOK, TypeOK
<1>4. LoaderCreatesNewQueue /\ ThreadsApart
  BY Zenon, <1>2 DEF LoaderCreatesNewQueue, ThreadsApart, Idle, FinIdle, ExpIdle
<1> QED BY Zenon, <1>1, <1>3, <1>4 DEF WorkerInv

-----------------------------------------------------------------------------
(* Steps that leave the structures of the worker alone.                    *)

\* Counting an event keeps the counters natural numbers.
LEMMA HappensType ==
  ASSUME TypeOK, NEW e \in Event, Happens(e)
  PROVE  events' \in [Event -> Nat]
BY DEF TypeOK, Happens

\* UpdateTxStatus keeps the type of the pool.
LEMMA SetStatusType ==
  ASSUME TypeOK, NEW t \in Tx, NEW status \in Status, SetStatus(t, status)
  PROVE  txPool' \in [Tx -> [status : Status, isWIP : BOOLEAN]]
BY Zenon DEF TypeOK, SetStatus

\* The writes to the pool, of the API, the loader, the finalizer and the
\* expirer, keep the invariant: they do not touch the worker.
LEMMA PoolStatusInv ==
  ASSUME WorkerInv, \/ \E t \in Tx : AddTxToPool(t)
                    \/ \E w \in poolWrites : UpdateTxStatus(w)
                    \/ MarkDroppedFailed \/ MarkReplacedFailed \/ UpdateTxWIPStatus
  PROVE  WorkerInv'
<1> USE DEF WorkerInv, workerVars, chainVars
<1>1. CASE \E t \in Tx : AddTxToPool(t)
  <2>1. TypeOK'
    <3>1. txPool' \in [Tx -> [status : Status, isWIP : BOOLEAN]]
      BY <1>1, SetStatusType, ZenonT(60) DEF AddTxToPool, Status
    <3>2. events' \in [Event -> Nat]
      <4>1. events' = events \/ Happens("resubmit")
        BY <1>1, ZenonT(60) DEF AddTxToPool
      <4> QED BY <4>1, HappensType, ZenonT(60) DEF TypeOK, Event
    <3> QED BY <1>1, <3>1, <3>2 DEF AddTxToPool, TypeOK
  <2>2. UNCHANGED <<pool, txSortedList, pendingToStore, loader, fin, expirer>>
    BY <1>1, ZenonT(60) DEF AddTxToPool
  <2> QED BY <2>1, <2>2, ZenonT(60) DEF LoaderCreatesNewQueue, ThreadsApart, Queued
<1>2. CASE \E w \in poolWrites : UpdateTxStatus(w)
  <2>1. TypeOK'
    <3>1. PICK w \in poolWrites : UpdateTxStatus(w)
      BY Zenon, <1>2
    <3>2. w[1] \in Tx /\ w[2] \in Status
      BY Zenon DEF TypeOK, Status
    <3>3. txPool' \in [Tx -> [status : Status, isWIP : BOOLEAN]]
      BY <3>1, <3>2, SetStatusType DEF UpdateTxStatus
    <3> QED BY <3>1, <3>3, Zenon DEF UpdateTxStatus, TypeOK
  <2>2. UNCHANGED <<pool, txSortedList, pendingToStore, loader, fin, expirer>>
    BY <1>2, ZenonT(60) DEF UpdateTxStatus
  <2> QED BY Zenon, <2>1, <2>2 DEF LoaderCreatesNewQueue, ThreadsApart, Queued
<1>3. CASE MarkDroppedFailed \/ MarkReplacedFailed \/ UpdateTxWIPStatus
  <2>1. TypeOK'
    <3>1. CASE MarkDroppedFailed
      BY Zenon, <3>1 DEF MarkDroppedFailed, TypeOK, SetStatus, Status, Idle, LoaderState, OptTx
    <3>2. CASE MarkReplacedFailed
      BY <3>2, Zenon DEF MarkReplacedFailed, TypeOK, SetStatus, Status, LoaderState, OptTx
    <3>3. CASE UpdateTxWIPStatus
      <4>1. loader.tx \in Tx /\ txPool \in [Tx -> [status : Status, isWIP : BOOLEAN]]
        BY Zenon, <3>3 DEF UpdateTxWIPStatus, TypeOK
      <4>2. [txPool EXCEPT ![loader.tx].isWIP = TRUE] \in [Tx -> [status : Status, isWIP : BOOLEAN]]
        BY <4>1, Zenon
      <4>3. txPool' \in [Tx -> [status : Status, isWIP : BOOLEAN]]
        BY <3>3, <4>2, ZenonT(60) DEF UpdateTxWIPStatus
      <4> QED BY <3>3, <4>3, ZenonT(60) DEF UpdateTxWIPStatus, TypeOK, Idle, LoaderState, OptTx
    <3> QED BY <1>3, <3>1, <3>2, <3>3, ZenonT(60)
  <2>2. /\ UNCHANGED <<pool, txSortedList, pendingToStore, fin, expirer>>
        /\ loader'.pc \in {"idle", "wip"}
    <3>1. CASE MarkDroppedFailed
      BY <3>1, Zenon DEF MarkDroppedFailed, Idle, TypeOK, LoaderState
    <3>2. CASE MarkReplacedFailed
      BY <3>2, Zenon DEF MarkReplacedFailed, TypeOK, LoaderState
    <3>3. CASE UpdateTxWIPStatus
      BY <3>3, Zenon DEF UpdateTxWIPStatus, Idle, TypeOK, LoaderState
    <3> QED BY <1>3, <3>1, <3>2, <3>3, ZenonT(60)
  <2> QED BY Zenon, <2>1, <2>2 DEF LoaderCreatesNewQueue, ThreadsApart, Queued
<1> QED BY <1>1, <1>2, <1>3, ZenonT(60)

\* The reads of the state between the two locks of addTxTracker keep it.
LEMMA FetchAccountInv ==
  ASSUME WorkerInv, FetchAccount
  PROVE  WorkerInv'
<1> USE DEF WorkerInv, workerVars, chainVars
<1>1. loader.tx \in Tx /\ From[loader.tx] \in Addr
  BY Zenon, TxFields DEF FetchAccount, TypeOK
<1>2. stored.nonce[From[loader.tx]] \in Nat /\ stored.balance[From[loader.tx]] \in Nat
  BY <1>1, ZenonT(60) DEF TypeOK, Account
<1>3. events' \in [Event -> Nat]
  <2>1. events' = events \/ Happens("dbError")
    BY Zenon DEF FetchAccount
  <2> QED BY <2>1, HappensType, ZenonT(60) DEF TypeOK, Event
<1>4. /\ loader' \in LoaderState
      /\ loader'.pc \in {"fetched", "failing"} /\ loader'.tx = loader.tx
  BY <1>2, ZenonT(60) DEF FetchAccount, TypeOK, LoaderState
<1>5. TypeOK'
  BY Zenon, <1>1, <1>3, <1>4 DEF FetchAccount, TypeOK
<1>6. UNCHANGED <<pool, txSortedList, pendingToStore, fin, expirer>> /\ loader.pc = "fetching"
  BY Zenon DEF FetchAccount
<1> QED BY ZenonT(60), <1>4, <1>5, <1>6 DEF LoaderCreatesNewQueue, ThreadsApart, Queued

\* The finalizer when it has chosen a transaction.
LEMMA FinProcessing ==
  ASSUME NEW t \in Tx
  PROVE  LET f == [FinIdle EXCEPT !.pc = "processing", !.tx = t]
         IN  f \in FinState /\ f.pc = "processing" /\ f.tx = t /\ f.restore = <<>>
<1>1. FinIdle \in FinState /\ FinIdle.restore = <<>>
  BY DEF FinIdle, FinState, OptTx
<1> QED BY <1>1, Zenon DEF FinState, OptTx

\* The steps of the finalizer that change no queue keep it: GetBestFittingTx,
\* a skipped transaction, a forced batch, a write of a failed status.
LEMMA FinalizerControlInv ==
  ASSUME WorkerInv, GetBestFittingTx \/ ProcessTxSkipped \/ ForcedBatch
                    \/ \E t \in Tx : MarkInvalidatedFailed(t)
  PROVE  WorkerInv'
<1> USE DEF WorkerInv, workerVars, chainVars
<1>1. CASE GetBestFittingTx
  <2>1. /\ reorgedTxs' \in Seq(Tx) /\ wipTx' \in OptTx
        /\ fin' = fin \/ \E t \in Tx : fin' = [FinIdle EXCEPT !.pc = "processing", !.tx = t]
    <3>1. reorgedTxs \in Seq(Tx) /\ txSortedList \in Seq(Tx) /\ Len(reorgedTxs) \in Nat
      BY DEF TypeOK
    <3>2. \A i \in 1..Len(reorgedTxs) : reorgedTxs[i] \in Tx
      BY Zenon, <3>1, ElementOfSeq
    <3>3. \A i \in 1..Len(txSortedList) : txSortedList[i] \in Tx
      BY Zenon, <3>1, ElementOfSeq
    <3>4. CASE returnable # {} /\ fin' = [FinIdle EXCEPT !.pc = "processing", !.tx = reorgedTxs[Min(returnable)]]
               /\ reorgedTxs' = SubSeq(reorgedTxs, Min(returnable) + 1, Len(reorgedTxs)) /\ wipTx' = NoTx
      <4>1. returnable \in SUBSET Nat /\ returnable \subseteq 1..Len(reorgedTxs)
        BY <3>1 DEF returnable
      <4>2. Min(returnable) \in 1..Len(reorgedTxs)
        BY ZenonT(60), <3>4, <4>1, MinOfNats
      <4>4. reorgedTxs' \in Seq(Tx)
        BY <3>1, <3>4, <4>2, SuffixType, ZenonT(60)
      <4> QED BY <3>2, <3>4, <4>2, <4>4, ZenonT(60) DEF OptTx
    <3>5. CASE reorgedTxs' = <<>> /\ \E i \in 1..Len(txSortedList) :
                 /\ wipTx' = txSortedList[i]
                 /\ fin' = [FinIdle EXCEPT !.pc = "processing", !.tx = txSortedList[i]]
      <4>1. PICK i \in 1..Len(txSortedList) :
                 /\ wipTx' = txSortedList[i]
                 /\ fin' = [FinIdle EXCEPT !.pc = "processing", !.tx = txSortedList[i]]
        BY <3>5, Zenon
      <4>2. txSortedList[i] \in Tx
        BY Zenon, <3>3
      <4>3. \E t \in Tx : fin' = [FinIdle EXCEPT !.pc = "processing", !.tx = t]
        BY <4>1, <4>2, Zenon
      <4>4. reorgedTxs' \in Seq(Tx) /\ wipTx' \in OptTx
        BY <3>5, <4>1, <4>2 DEF OptTx
      <4> QED BY <4>3, <4>4, Zenon
    <3>6. CASE reorgedTxs' = <<>> /\ wipTx' = NoTx /\ UNCHANGED fin
      BY <3>6 DEF OptTx
    <3> QED BY <1>1, <3>4, <3>5, <3>6, ZenonT(60) DEF GetBestFittingTx
  <2>2. /\ fin' \in FinState
        /\ fin'.pc \in {"idle", "processing"}
        /\ fin'.pc = "processing" => fin'.tx \in Tx
    <3>1. CASE fin' = fin
      BY <1>1, <3>1, Zenon DEF GetBestFittingTx, FinState, TypeOK
    <3>2. CASE \E t \in Tx : fin' = [FinIdle EXCEPT !.pc = "processing", !.tx = t]
      BY <3>2, FinProcessing, Zenon
    <3> QED BY <2>1, <3>1, <3>2, Zenon
  <2>3. TypeOK'
    BY <1>1, <2>1, <2>2, ZenonT(60) DEF GetBestFittingTx, TypeOK
  <2>4. fin'.pc \in {"idle", "processing"} /\ fin'.restore = <<>>
    BY <1>1, <2>1, <2>2, Zenon DEF GetBestFittingTx, FinIdle, ThreadsApart
  <2>5. UNCHANGED <<pool, txSortedList, pendingToStore, loader, expirer>>
    BY <1>1, Zenon DEF GetBestFittingTx
  <2>6. Range(fin'.restore) = {}
    BY <2>4, EmptyRange, Zenon
  <2> QED BY <2>3, <2>4, <2>5, <2>6, ZenonT(60) DEF LoaderCreatesNewQueue, ThreadsApart, Queued
<1>2. CASE ProcessTxSkipped
  <2>1. TypeOK'
    BY <1>2 DEF ProcessTxSkipped, FinIdle, FinState, TypeOK, OptTx
  <2>2. /\ UNCHANGED <<pool, txSortedList, pendingToStore, loader, expirer>>
        /\ fin' = FinIdle
    BY <1>2, Zenon DEF ProcessTxSkipped
  <2>3. fin'.pc = "idle" /\ fin'.restore = <<>> /\ Range(fin'.restore) = {}
    BY <2>2, EmptyRange, ZenonT(60) DEF FinIdle
  <2> QED BY <2>1, <2>2, <2>3, ZenonT(60) DEF LoaderCreatesNewQueue, ThreadsApart, Queued
<1>3. CASE ForcedBatch
  <2>1. TypeOK'
    <3>1. exec' \in Account
      <4>1. PICK a \in Addr, b \in 0..MaxBalance :
               exec' = [nonce   |-> [exec.nonce EXCEPT ![a] = @ + 1],
                        balance |-> [exec.balance EXCEPT ![a] = b]]
        BY <1>3, Zenon DEF ForcedBatch
      <4>2. exec.nonce \in [Addr -> Nat] /\ exec.balance \in [Addr -> Nat] /\ b \in Nat
        BY WorkerAssumption DEF TypeOK, Account
      <4> QED BY <4>1, <4>2 DEF Account
    <3>2. events' \in [Event -> Nat]
      BY <1>3, HappensType, Zenon DEF ForcedBatch, Event
    <3> QED BY <1>3, <3>1, <3>2, ZenonT(60) DEF ForcedBatch, TypeOK
  <2>2. UNCHANGED <<pool, txSortedList, pendingToStore, loader, fin, expirer>>
    BY <1>3, Zenon DEF ForcedBatch
  <2> QED BY <2>1, <2>2, ZenonT(60) DEF LoaderCreatesNewQueue, ThreadsApart, Queued
<1>4. CASE \E t \in Tx : MarkInvalidatedFailed(t)
  <2>1. PICK t \in Tx : MarkInvalidatedFailed(t)
    BY Zenon, <1>4
  <2>2. txPool' \in [Tx -> [status : Status, isWIP : BOOLEAN]]
    BY <2>1, SetStatusType, Zenon DEF MarkInvalidatedFailed, Status
  <2>3. /\ fin' \in FinState
        /\ fin'.pc \in {"idle", "marking"}
        /\ fin'.pc = "marking" => fin'.tx \in Tx
        /\ fin'.restore = <<>>
    BY <2>1, ZenonT(60) DEF MarkInvalidatedFailed, finAfterUpdate, FinIdle, FinState, TypeOK, OptTx, ThreadsApart
  <2>4. TypeOK'
    BY ZenonT(60), <2>1, <2>2, <2>3 DEF MarkInvalidatedFailed, TypeOK
  <2>5. UNCHANGED <<pool, txSortedList, pendingToStore, loader, expirer>>
    BY <2>1, Zenon DEF MarkInvalidatedFailed
  <2>6. Range(fin'.restore) = {}
    BY Zenon, <2>3, EmptyRange
  <2> QED BY <2>3, <2>4, <2>5, <2>6, ZenonT(60) DEF LoaderCreatesNewQueue, ThreadsApart, Queued
<1> QED BY <1>1, <1>2, <1>3, <1>4, ZenonT(60)

-----------------------------------------------------------------------------
(* The helpers of the steps that change the worker.                        *)

\* A queue is stored in the map.
LEMMA SetQueueQueued ==
  ASSUME TypeOK, NEW a \in Addr, NEW q \in AddrQueue, SetQueue(a, q)
  PROVE  Queued' = Queued \cup {a} /\ pool'[a] = q
<1>1. pool \in [Addr -> AddrQueue \cup {NoQueue}] /\ pool' = [pool EXCEPT ![a] = q] /\ q # NoQueue
  BY WorkerAssumption, ZenonT(60) DEF TypeOK, SetQueue
<1> QED BY ZenonT(60), <1>1 DEF Queued

\* addTxTracker's second half.
LEMMA AddToQueueOK ==
  ASSUME WorkerInv, NEW t \in Tx, NEW q \in AddrQueue, QueueOK(q, From[t]),
         AsSet(q.readyTx) = ReadyOf(pool[From[t]]), addToQueue(q, t)
  PROVE  WorkerOK(pool', txSortedList') /\ Queued' = Queued \cup {From[t]}
<1> DEFINE a == From[t]
           r == addTx(q, t)
<1>1. /\ QueueOK(r.queue, a)
      /\ r.dropped => r.queue = q
      /\ Moves(q.readyTx, r.queue.readyTx, r.prevReadyTx, r.newReadyTx)
  BY AddTxOK, ZenonT(60)
<1>2. a \in Addr /\ r.queue \in AddrQueue /\ q.readyTx \in OptTx
  BY <1>1, TxFields, QueueFields, ZenonT(60) DEF QueueOK
<1>3. SetQueue(a, r.queue) /\ txSortedList' = IF r.dropped THEN txSortedList
                                              ELSE moveReady(txSortedList, r.prevReadyTx, r.newReadyTx)
  BY Zenon DEF addToQueue
<1> HIDE DEF r
<1>4. WorkerOK(pool, txSortedList) /\ TypeOK /\ pool' = [pool EXCEPT ![a] = r.queue]
  BY Zenon, <1>3 DEF WorkerInv, SetQueue
<1>5. CASE r.dropped
  <2>1. Moves(q.readyTx, q.readyTx, NoTx, NoTx)
    BY Zenon DEF Moves, OptTx, AsSet
  <2>2. WorkerOK([pool EXCEPT ![a] = q], moveReady(txSortedList, NoTx, NoTx))
    BY <1>2, <1>4, <2>1, MoveStep, ZenonT(60)
  <2>3. moveReady(txSortedList, NoTx, NoTx) = txSortedList
    BY Zenon DEF moveReady
  <2> QED BY <1>1, <1>2, <1>3, <1>4, <1>5, <2>2, <2>3, SetQueueQueued, ZenonT(60)
<1>6. CASE ~r.dropped
  <2>1. WorkerOK([pool EXCEPT ![a] = r.queue], moveReady(txSortedList, r.prevReadyTx, r.newReadyTx))
    BY <1>1, <1>2, <1>4, MoveStep, ZenonT(60)
  <2> QED BY <1>2, <1>3, <1>4, <1>6, <2>1, SetQueueQueued, ZenonT(60)
<1> QED BY Zenon, <1>5, <1>6

\* What addTxToWorker goes on with after addTxTracker.
LEMMA LoaderAfterAddOK ==
  ASSUME NEW t \in Tx, NEW q \in AddrQueue, QueueOK(q, From[t]), loaderAfterAdd(q, t)
  PROVE  /\ loader' \in LoaderState /\ loader'.tx = t
         /\ loader'.pc \in {"failing", "replaced", "wip"}
         /\ loader'.pc = "replaced" => loader'.replaced \in Tx
<1> DEFINE r == addTx(q, t)
<1>1. r.replacedTx \in OptTx
  BY Zenon, AddTxOK
<1>2. loader' = [Idle EXCEPT !.tx = t, !.replaced = r.replacedTx,
                             !.pc = IF r.dropped THEN "failing"
                                    ELSE IF r.replacedTx # NoTx THEN "replaced" ELSE "wip"]
  BY Zenon DEF loaderAfterAdd
<1> HIDE DEF r
<1>3. Idle \in LoaderState
  BY Zenon DEF Idle, LoaderState, OptTx
<1> QED BY <1>1, <1>2, <1>3, Zenon DEF LoaderState, OptTx

\* applyAddressUpdate.
LEMMA ApplyAddressUpdateOK ==
  ASSUME WorkerInv, NEW a \in Addr, NEW nonce \in Nat, NEW balance \in Nat,
         applyAddressUpdate(a, nonce, balance)
  PROVE  WorkerOK(pool', txSortedList') /\ Queued' = Queued /\ failedBy(a, nonce, balance) \subseteq Tx
<1>1. WorkerOK(pool, txSortedList) /\ TypeOK
  BY ZenonT(60) DEF WorkerInv
<1>2. CASE a \in Queued
  <2> DEFINE r == updateCurrentNonceBalance(pool[a], nonce, balance)
  <2>1. pool[a] # NoQueue /\ pool[a] \in AddrQueue /\ QueueOK(pool[a], a)
    BY Zenon, <1>1, <1>2 DEF WorkerOK, Queued
  <2>2. /\ QueueOK(r.queue, a) /\ r.toDelete \subseteq Tx
        /\ Moves(pool[a].readyTx, r.queue.readyTx, r.prevReadyTx, r.newReadyTx)
    BY <2>1, UpdateCurrentNonceBalanceOK, Zenon
  <2>3. /\ SetQueue(a, r.queue)
        /\ txSortedList' = moveReady(txSortedList, r.prevReadyTx, r.newReadyTx)
        /\ failedBy(a, nonce, balance) = r.toDelete
    BY <1>2, ZenonT(60) DEF applyAddressUpdate, failedBy
  <2> HIDE DEF r
  <2>4. /\ r.queue \in AddrQueue /\ pool[a].readyTx \in OptTx
        /\ AsSet(pool[a].readyTx) = ReadyOf(pool[a]) /\ pool' = [pool EXCEPT ![a] = r.queue]
    BY <2>1, <2>2, <2>3, QueueFields, ZenonT(60) DEF QueueOK, ReadyOf, SetQueue
  <2>5. WorkerOK([pool EXCEPT ![a] = r.queue], moveReady(txSortedList, r.prevReadyTx, r.newReadyTx))
    BY <1>1, <2>2, <2>4, MoveStep, ZenonT(60)
  <2>6. Queued' = Queued \cup {a}
    BY <1>1, <2>3, <2>4, SetQueueQueued, ZenonT(60)
  <2> QED BY <1>2, <2>2, <2>3, <2>4, <2>5, <2>6, ZenonT(60)
<1>3. CASE a \notin Queued
  BY <1>1, <1>3, ZenonT(60) DEF applyAddressUpdate, failedBy, Queued
<1> QED BY Zenon, <1>2, <1>3

\* deleteTx of the worker, then any change of the set of pending hashes.
LEMMA DeleteFromQueueOK ==
  ASSUME WorkerInv, NEW t \in Tx, From[t] \in Queued, NEW q \in AddrQueue, QueueOK(q, From[t]),
         q.readyTx = deleteTx(pool[From[t]], t).readyTx, SetQueue(From[t], q),
         txSortedList' = IF isReady(t) THEN delete(txSortedList, t) ELSE txSortedList
  PROVE  WorkerOK(pool', txSortedList') /\ Queued' = Queued
<1> DEFINE a == From[t]
           taken == pool[a].readyTx = t
<1>1. WorkerOK(pool, txSortedList) /\ TypeOK /\ pool' = [pool EXCEPT ![a] = q]
  BY ZenonT(60) DEF WorkerInv, SetQueue
<1>2. a \in Addr /\ t # NoTx /\ pool[a] # NoQueue /\ pool[a] \in AddrQueue /\ QueueOK(pool[a], a)
  BY <1>1, TxFields, ZenonT(60) DEF WorkerOK, Queued
<1>3. q.readyTx = IF taken THEN NoTx ELSE pool[a].readyTx
  BY <1>2, DeleteTxOK, ZenonT(60)
<1>4. isReady(t) <=> taken
  BY ZenonT(60) DEF isReady
<1>5. taken => pool[a].readyTx # NoTx
  BY Zenon, <1>2
<1>6. WorkerOK([pool EXCEPT ![a] = q], IF taken THEN delete(txSortedList, pool[a].readyTx) ELSE txSortedList)
  BY <1>1, <1>2, <1>3, <1>5, TakeStep, ZenonT(60)
<1>7. Queued' = Queued \cup {a}
  BY <1>1, <1>2, SetQueueQueued, ZenonT(60)
<1> QED BY <1>1, <1>4, <1>6, <1>7, ZenonT(60)

\* What the finalizer goes on with after an update of a queue.
LEMMA FinAfterUpdateOK ==
  ASSUME fin \in FinState, fin.tx \in Tx, fin.restore = <<>>,
         NEW touched \in SUBSET Addr, NEW failed \in SUBSET Tx, finAfterUpdate(touched, failed)
  PROVE  /\ fin' \in FinState /\ fin'.restore = <<>> /\ Range(fin'.restore) = {}
         /\ fin'.pc \in {"idle", "updating", "marking"}
         /\ fin'.pc # "idle" => fin'.tx \in Tx
<1>1. FinIdle \in FinState /\ FinIdle.restore = <<>> /\ FinIdle.pc = "idle"
  BY Zenon DEF FinIdle, FinState, OptTx
<1>2. /\ fin' \in FinState /\ fin'.restore = <<>>
      /\ fin'.pc \in {"idle", "updating", "marking"}
      /\ fin'.pc # "idle" => fin'.tx \in Tx
  BY <1>1, Zenon DEF finAfterUpdate, FinState
<1>3. Range(fin'.restore) = {}
  BY <1>2 DEF Range
<1> QED BY <1>2, <1>3, ZenonT(60)

-----------------------------------------------------------------------------
(* The loader.                                                             *)

\* The first part of addTxTracker keeps the invariant.
LEMMA AddTxTrackerInv ==
  ASSUME WorkerInv, NEW t \in Tx, AddTxTracker(t)
  PROVE  WorkerInv'
<1> USE DEF WorkerInv, workerVars, chainVars
<1>1. /\ UNCHANGED <<pendingToStore, reorgedTxs, wipTx, txPool, poolWrites, fin, storer,
                     expirer, exec, stored, executed, storedTxs, orphans, events>>
      /\ Unlocked
  BY ZenonT(60) DEF AddTxTracker
<1>2. fin.pc \notin {"updating", "clearing", "restoring"} /\ fin.restore = <<>>
      /\ Range(fin.restore) = {}
  BY <1>1 DEF Unlocked, ThreadsApart, Range
<1>3. From[t] \in Addr
  BY Zenon, TxFields
<1>4. CASE /\ loader' = [Idle EXCEPT !.pc = "failing", !.tx = t]
           /\ UNCHANGED <<pool, txSortedList>>
  <2>1. loader' \in LoaderState /\ loader'.pc = "failing" /\ loader'.tx = t
    BY <1>4, Zenon DEF Idle, LoaderState, OptTx
  <2>2. TypeOK'
    BY <1>1, <1>4, <2>1, ZenonT(60) DEF TypeOK
  <2> QED BY <1>1, <1>4, <2>1, <2>2, ZenonT(60) DEF LoaderCreatesNewQueue, ThreadsApart, Queued
<1>5. CASE /\ From[t] \in Queued
           /\ addToQueue(pool[From[t]], t)
           /\ loaderAfterAdd(pool[From[t]], t)
  <2>1. /\ pool[From[t]] \in AddrQueue /\ QueueOK(pool[From[t]], From[t])
        /\ AsSet(pool[From[t]].readyTx) = ReadyOf(pool[From[t]])
    BY <1>5, ZenonT(60) DEF WorkerOK, Queued, ReadyOf
  <2>2. WorkerOK(pool', txSortedList') /\ Queued' = Queued \cup {From[t]}
    BY <1>5, <2>1, AddToQueueOK, ZenonT(60)
  <2>3. /\ loader' \in LoaderState /\ loader'.tx = t
        /\ loader'.pc \in {"failing", "replaced", "wip"}
        /\ loader'.pc = "replaced" => loader'.replaced \in Tx
    BY ZenonT(60), <1>5, <2>1, LoaderAfterAddOK
  <2>4. TypeOK'
    BY <1>1, <2>2, <2>3, ZenonT(60) DEF TypeOK, WorkerOK
  <2> QED BY <1>1, <2>2, <2>3, <2>4, ZenonT(60) DEF LoaderCreatesNewQueue, ThreadsApart
<1>6. CASE /\ From[t] \notin Queued
           /\ loader' = [Idle EXCEPT !.pc = "fetching", !.tx = t]
           /\ UNCHANGED <<pool, txSortedList>>
  <2>1. loader' \in LoaderState /\ loader'.pc = "fetching" /\ loader'.tx = t
    BY <1>6, Zenon DEF Idle, LoaderState, OptTx
  <2>2. TypeOK'
    BY <1>1, <1>6, <2>1 DEF TypeOK
  <2> QED BY <1>1, <1>2, <1>6, <2>1, <2>2, ZenonT(60) DEF LoaderCreatesNewQueue, ThreadsApart, Queued
<1> QED BY <1>4, <1>5, <1>6, ZenonT(60) DEF AddTxTracker

\* The second part of addTxTracker, which creates the queue, keeps it.
LEMMA AddTxToNewQueueInv ==
  ASSUME WorkerInv, AddTxToNewQueue
  PROVE  WorkerInv'
<1> USE DEF WorkerInv, chainVars
<1> DEFINE t == loader.tx
           q == newAddrQueue(loader.nonce, loader.balance)
<1>1. /\ UNCHANGED <<pendingToStore, reorgedTxs, wipTx, txPool, poolWrites, fin, storer,
                     expirer, exec, stored, executed, storedTxs, orphans, events>>
      /\ addToQueue(q, t) /\ loaderAfterAdd(q, t) /\ loader.pc = "fetched"
  BY ZenonT(60) DEF AddTxToNewQueue
<1>2. t \in Tx /\ From[t] \in Addr /\ loader.nonce \in Nat /\ loader.balance \in Nat
  BY Zenon, <1>1, TxFields DEF TypeOK, LoaderState
<1>3. QueueOK(q, From[t]) /\ q \in AddrQueue /\ q.readyTx = NoTx
  <2>1. QueueOK(q, From[t]) /\ q.readyTx = NoTx
    BY Zenon, <1>2, NewAddrQueueOK
  <2> QED BY <2>1, Zenon DEF QueueOK
<1>4. AsSet(q.readyTx) = ReadyOf(pool[From[t]])
  BY <1>1, <1>2, <1>3, ZenonT(60) DEF LoaderCreatesNewQueue, Queued, ReadyOf, AsSet
<1> HIDE DEF q, t
<1>5. WorkerOK(pool', txSortedList') /\ Queued' = Queued \cup {From[t]}
  BY <1>1, <1>2, <1>3, <1>4, AddToQueueOK, ZenonT(60)
<1>6. /\ loader' \in LoaderState /\ loader'.tx = t
      /\ loader'.pc \in {"failing", "replaced", "wip"}
      /\ loader'.pc = "replaced" => loader'.replaced \in Tx
  BY <1>1, <1>2, <1>3, LoaderAfterAddOK, ZenonT(60)
<1>7. TypeOK'
  BY <1>1, <1>2, <1>5, <1>6, ZenonT(60) DEF TypeOK, WorkerOK
<1> QED BY <1>1, <1>5, <1>6, <1>7, ZenonT(60) DEF LoaderCreatesNewQueue, ThreadsApart

-----------------------------------------------------------------------------
(* The finalizer.                                                          *)

\* Incrementing one nonce keeps the nonces a function to naturals.
LEMMA NonceIncrement ==
  ASSUME NEW S, NEW f \in [S -> Nat], NEW x \in S
  PROVE  [f EXCEPT ![x] = @ + 1] \in [S -> Nat]
OBVIOUS

\* MoveTxPendingToStore keeps it.
LEMMA ProcessTxOkInv ==
  ASSUME WorkerInv, ProcessTxOk
  PROVE  WorkerInv'
<1> USE DEF WorkerInv
<1> DEFINE t == fin.tx
           a == From[t]
           found == a \in Queued /\ t \in getTransactions(pool[a])
<1>1. /\ UNCHANGED <<reorgedTxs, wipTx, txPool, poolWrites, loader, storer, expirer, stored,
                     storedTxs, events>>
      /\ fin.pc = "processing" /\ Unlocked
      /\ IF a \in Queued
         THEN SetQueue(a, addPendingTxToStore(deleteTx(pool[a], t), t))
         ELSE UNCHANGED pool
      /\ txSortedList' = IF isReady(t) THEN delete(txSortedList, t) ELSE txSortedList
      /\ pendingToStore' = IF found THEN Append(pendingToStore, t) ELSE pendingToStore
      /\ orphans' = IF found THEN orphans ELSE orphans \cup {t}
  BY ZenonT(60) DEF ProcessTxOk, movePendingToStore
<1>2. t \in Tx /\ a \in Addr
  BY Zenon, <1>1, TxFields DEF TypeOK
<1>3. PICK touched \in SUBSET Addr, b \in [Addr -> 0..MaxBalance] :
        LET post == [nonce |-> [exec.nonce EXCEPT ![a] = @ + 1], balance |-> b]
        IN  /\ exec' = post
            /\ executed' = Append(executed, [tx |-> t, post |-> post])
            /\ fin' = [fin EXCEPT !.pc = "moved", !.touched = touched]
  BY ZenonT(60) DEF ProcessTxOk
<1> DEFINE post == [nonce |-> [exec.nonce EXCEPT ![a] = @ + 1], balance |-> b]
<1>4. post \in Account
  <2>1. exec.nonce \in [Addr -> Nat] /\ b \in [Addr -> Nat]
    BY WorkerAssumption DEF TypeOK, Account
  <2>2. [exec.nonce EXCEPT ![a] = @ + 1] \in [Addr -> Nat]
    BY <1>2, <2>1, NonceIncrement, ZenonT(60)
  <2> QED BY <2>1, <2>2, ZenonT(60) DEF Account
<1>5. exec' = post /\ executed' = Append(executed, [tx |-> t, post |-> post])
  BY <1>3, ZenonT(60)
<1> HIDE DEF post
<1>6. exec' \in Account /\ executed' \in Seq([tx : Tx, post : Account])
  BY <1>2, <1>4, <1>5 DEF TypeOK
<1>7. fin' \in FinState /\ fin'.pc = "moved" /\ fin'.tx = t /\ fin'.restore = fin.restore
  BY <1>3, ZenonT(60) DEF TypeOK, FinState
<1>8. WorkerOK(pool', txSortedList') /\ Queued' = Queued
  <2>1. CASE a \in Queued
    <3> DEFINE d == deleteTx(pool[a], t)
               q == addPendingTxToStore(d, t)
    <3>1. pool[a] \in AddrQueue /\ QueueOK(pool[a], a)
      BY Zenon, <1>2, <2>1 DEF WorkerOK, Queued
    <3>2. QueueOK(d, a) /\ d \in AddrQueue
      <4>1. QueueOK(d, a)
        BY <1>2, <3>1, DeleteTxOK, ZenonT(60)
      <4> QED BY <4>1, Zenon DEF QueueOK
    <3>3. QueueOK(q, a) /\ q \in AddrQueue /\ q.readyTx = d.readyTx
      <4> HIDE DEF d
      <4>1. QueueOK(q, a) /\ q.readyTx = d.readyTx
        BY <1>2, <3>2, PendingTxsToStoreOK, ZenonT(60)
      <4> QED BY <4>1, ZenonT(60) DEF QueueOK
    <3>4. SetQueue(a, q)
      BY <1>1, <2>1, Zenon
    <3> HIDE DEF q
    <3> QED BY <1>1, <1>2, <2>1, <3>3, <3>4, DeleteFromQueueOK, ZenonT(60)
  <2>2. CASE a \notin Queued
    BY <1>1, <2>2, Zenon DEF isReady, Queued
  <2> QED BY <2>1, <2>2, Zenon
<1>9. pendingToStore' \in Seq(Tx) /\ \A u \in Range(pendingToStore') : From[u] \in Queued'
  <2>1. CASE found
    <3>1. pendingToStore \in Seq(Tx) /\ pendingToStore' = Append(pendingToStore, t)
      BY <1>1, <2>1, ZenonT(60) DEF TypeOK
    <3>2. Range(pendingToStore') \subseteq Range(pendingToStore) \cup {t}
      BY <1>2, <3>1, AppendProperties DEF Range
    <3>3. \A u \in Range(pendingToStore) : From[u] \in Queued'
      BY <1>8, Zenon DEF ThreadsApart
    <3>4. From[t] \in Queued'
      BY <1>8, <2>1, Zenon
    <3>5. pendingToStore' \in Seq(Tx)
      BY <1>2, <3>1, AppendProperties, ZenonT(60)
    <3> QED BY <3>2, <3>3, <3>4, <3>5, ZenonT(60)
  <2>2. CASE ~found
    BY <1>1, <1>8, <2>2, ZenonT(60) DEF TypeOK, ThreadsApart
  <2> QED BY <2>1, <2>2, ZenonT(60)
<1>10. TypeOK'
  BY <1>1, <1>2, <1>6, <1>7, <1>8, <1>9, ZenonT(60) DEF TypeOK, WorkerOK
<1> QED BY <1>1, <1>7, <1>8, <1>9, <1>10, ZenonT(60) DEF LoaderCreatesNewQueue, ThreadsApart

\* The nonce and the balance of an account are natural numbers.
LEMMA AccountOf ==
  ASSUME TypeOK, NEW a \in Addr
  PROVE  /\ exec.nonce[a] \in Nat /\ exec.balance[a] \in Nat
         /\ stored.nonce[a] \in Nat /\ stored.balance[a] \in Nat
BY Zenon DEF TypeOK, Account

\* UpdateAfterSingleSuccessfulTxExecution keeps it: the sender ...
LEMMA UpdateSenderInv ==
  ASSUME WorkerInv, UpdateSender
  PROVE  WorkerInv'
<1> USE DEF WorkerInv, chainVars
<1> DEFINE a == From[fin.tx]
           failed == failedBy(a, exec.nonce[a], exec.balance[a])
<1>1. /\ UNCHANGED <<pendingToStore, reorgedTxs, wipTx, txPool, poolWrites, loader, storer,
                     expirer, exec, stored, executed, storedTxs, orphans, events>>
      /\ applyAddressUpdate(a, exec.nonce[a], exec.balance[a])
      /\ finAfterUpdate(fin.touched \ {a}, failed)
      /\ fin.pc = "moved" /\ Unlocked
  BY Zenon DEF UpdateSender
<1>2. fin.tx \in Tx /\ a \in Addr /\ fin \in FinState /\ fin.restore = <<>> /\ expirer.todo = {}
  BY <1>1, TxFields, ZenonT(60) DEF TypeOK, ThreadsApart, Unlocked
<1>3. WorkerOK(pool', txSortedList') /\ Queued' = Queued /\ failed \subseteq Tx
  BY <1>1, <1>2, AccountOf, ApplyAddressUpdateOK, ZenonT(60)
<1> HIDE DEF failed, a
<1>4. fin.touched \ {a} \in SUBSET Addr
  BY Zenon, <1>2 DEF FinState
<1>5. /\ fin' \in FinState /\ fin'.restore = <<>> /\ Range(fin'.restore) = {}
      /\ fin'.pc \in {"idle", "updating", "marking"}
      /\ fin'.pc # "idle" => fin'.tx \in Tx
  BY <1>1, <1>2, <1>3, <1>4, FinAfterUpdateOK, ZenonT(60)
<1>6. TypeOK'
  BY <1>1, <1>3, <1>5, ZenonT(60) DEF TypeOK, WorkerOK
<1> QED BY <1>1, <1>2, <1>3, <1>5, <1>6, ZenonT(60) DEF LoaderCreatesNewQueue, ThreadsApart

\* ... and the other accounts that the execution touched.
LEMMA UpdateTouchedInv ==
  ASSUME WorkerInv, NEW a \in Addr, UpdateTouched(a)
  PROVE  WorkerInv'
<1> USE DEF WorkerInv, chainVars
<1> DEFINE nonce == IF a \in Queued THEN pool[a].currentNonce ELSE 0
           failed == failedBy(a, nonce, exec.balance[a])
<1>1. /\ UNCHANGED <<pendingToStore, reorgedTxs, wipTx, txPool, poolWrites, loader, storer,
                     expirer, exec, stored, executed, storedTxs, orphans, events>>
      /\ applyAddressUpdate(a, nonce, exec.balance[a])
      /\ finAfterUpdate(fin.touched \ {a}, fin.failed \cup failed)
      /\ fin.pc = "updating"
  BY Zenon DEF UpdateTouched
<1>2. fin.tx \in Tx /\ fin \in FinState /\ fin.restore = <<>> /\ expirer.todo = {}
  BY <1>1, Zenon DEF TypeOK, ThreadsApart
<1>3. nonce \in Nat
  <2>1. a \in Queued => pool[a] \in AddrQueue
    BY Zenon DEF TypeOK, Queued
  <2> QED BY <2>1, QueueFields, ZenonT(60)
<1> HIDE DEF nonce
<1>4. WorkerOK(pool', txSortedList') /\ Queued' = Queued /\ failed \subseteq Tx
  BY <1>1, <1>3, AccountOf, ApplyAddressUpdateOK, ZenonT(60)
<1> HIDE DEF failed
<1>5. fin.touched \ {a} \in SUBSET Addr /\ fin.failed \cup failed \in SUBSET Tx
  BY Zenon, <1>2, <1>4 DEF FinState
<1>6. /\ fin' \in FinState /\ fin'.restore = <<>> /\ Range(fin'.restore) = {}
      /\ fin'.pc \in {"idle", "updating", "marking"}
      /\ fin'.pc # "idle" => fin'.tx \in Tx
  BY <1>1, <1>2, <1>5, FinAfterUpdateOK, ZenonT(60)
<1>7. TypeOK'
  BY <1>1, <1>4, <1>6, ZenonT(60) DEF TypeOK, WorkerOK
<1> QED BY <1>1, <1>2, <1>4, <1>6, <1>7, ZenonT(60) DEF LoaderCreatesNewQueue, ThreadsApart

\* The finalizer between two transactions.
LEMMA FinIdleOK ==
  FinIdle \in FinState /\ FinIdle.pc = "idle" /\ FinIdle.restore = <<>> /\ Range(FinIdle.restore) = {}
<1>1. <<>> \in Seq(Tx)
  BY EmptySeq, Zenon
<1>2. NoTx \in OptTx
  BY Zenon DEF OptTx
<1>3. FinIdle.pc = "idle" /\ FinIdle.restore = <<>>
  BY Zenon DEF FinIdle
<1>4. FinIdle \in FinState
  BY <1>1, <1>2, Zenon DEF FinIdle, FinState
<1> QED BY <1>3, <1>4, EmptyRange, ZenonT(60)

\* MoveTxToNotReady keeps it.
LEMMA ProcessTxNotReadyInv ==
  ASSUME WorkerInv, ProcessTxNotReady
  PROVE  WorkerInv'
<1> USE DEF WorkerInv, chainVars
<1> DEFINE a == From[fin.tx]
           failed == failedBy(a, exec.nonce[a], exec.balance[a])
<1>1. /\ UNCHANGED <<pendingToStore, reorgedTxs, txPool, loader, storer, expirer, exec, stored,
                     executed, storedTxs, orphans, events>>
      /\ applyAddressUpdate(a, exec.nonce[a], exec.balance[a])
      /\ poolWrites' = poolWrites \cup (failed \X {"failed"})
      /\ resetWipTx(fin.tx) /\ fin' = FinIdle /\ fin.pc = "processing"
  BY Zenon DEF ProcessTxNotReady
<1>2. fin.tx \in Tx /\ a \in Addr /\ wipTx \in OptTx
  BY <1>1, TxFields, Zenon DEF TypeOK
<1>3. WorkerOK(pool', txSortedList') /\ Queued' = Queued /\ failed \subseteq Tx
  BY <1>1, <1>2, AccountOf, ApplyAddressUpdateOK, ZenonT(60)
<1> HIDE DEF failed
<1>4. poolWrites' \subseteq Tx \X {"failed", "invalid"} /\ wipTx' \in OptTx
  BY <1>1, <1>2, <1>3, ZenonT(60) DEF TypeOK, resetWipTx, OptTx
<1>5. TypeOK'
  BY <1>1, <1>3, <1>4, FinIdleOK, ZenonT(60) DEF TypeOK, WorkerOK
<1> QED BY <1>1, <1>3, <1>5, FinIdleOK, ZenonT(60) DEF LoaderCreatesNewQueue, ThreadsApart

\* DeleteTx keeps it.
LEMMA ProcessTxErrorInv ==
  ASSUME WorkerInv, ProcessTxError
  PROVE  WorkerInv'
<1> USE DEF WorkerInv, chainVars
<1> DEFINE t == fin.tx
           a == From[t]
<1>1. /\ UNCHANGED <<pendingToStore, reorgedTxs, txPool, loader, storer, expirer, exec, stored,
                     executed, storedTxs, orphans, events>>
      /\ deleteFromWorker(t) /\ resetWipTx(t) /\ fin' = FinIdle /\ fin.pc = "processing"
      /\ \E status \in {"failed", "invalid"} : poolWrites' = poolWrites \cup {<<t, status>>}
  BY ZenonT(60) DEF ProcessTxError
<1>2. t \in Tx /\ a \in Addr /\ wipTx \in OptTx
  BY ZenonT(60), <1>1, TxFields DEF TypeOK
<1>3. WorkerOK(pool', txSortedList') /\ Queued' = Queued
  <2>1. CASE a \in Queued
    <3> DEFINE q == deleteTx(pool[a], t)
    <3>1. pool[a] \in AddrQueue /\ QueueOK(pool[a], a)
      BY <1>2, <2>1, ZenonT(60) DEF WorkerOK, Queued
    <3>2. QueueOK(q, a)
      BY <1>2, <3>1, DeleteTxOK, ZenonT(60)
    <3>3. q \in AddrQueue
      BY <3>2, ZenonT(60) DEF QueueOK
    <3>4. /\ SetQueue(a, q)
          /\ txSortedList' = IF isReady(t) THEN delete(txSortedList, t) ELSE txSortedList
      BY <1>1, <2>1, ZenonT(60) DEF deleteFromWorker
    <3> HIDE DEF q
    <3>5. q.readyTx = deleteTx(pool[From[t]], t).readyTx
      BY ZenonT(60) DEF q
    <3> QED BY <1>2, <2>1, <3>2, <3>3, <3>4, <3>5, DeleteFromQueueOK, ZenonT(60)
  <2>2. CASE a \notin Queued
    BY <1>1, <2>2, ZenonT(60) DEF deleteFromWorker, Queued
  <2> QED BY Zenon, <2>1, <2>2
<1>4. poolWrites' \subseteq Tx \X {"failed", "invalid"} /\ wipTx' \in OptTx
  BY <1>1, <1>2 DEF TypeOK, resetWipTx, OptTx
<1>5. TypeOK'
  BY <1>1, <1>3, <1>4, FinIdleOK, ZenonT(60) DEF TypeOK, WorkerOK
<1> QED BY <1>1, <1>3, <1>5, FinIdleOK, ZenonT(60) DEF LoaderCreatesNewQueue, ThreadsApart

-----------------------------------------------------------------------------
(* L2 block reorgs.                                                        *)

\* The start of RestoreTxsPendingToStore keeps it.
LEMMA RestoreTxsPendingToStoreInv ==
  ASSUME WorkerInv, RestoreTxsPendingToStore
  PROVE  WorkerInv'
<1> USE DEF WorkerInv
<1> DEFINE found == {From[t] : t \in Range(pendingToStore)} \cap Queued
<1>1. /\ UNCHANGED <<pool, txSortedList, txPool, poolWrites, loader, storer, expirer, stored,
                     storedTxs, orphans>>
      /\ Unlocked /\ Happens("reorg") /\ reorgedTxs' = pendingToStore /\ pendingToStore' = <<>>
      /\ wipTx' = NoTx /\ exec' = stored /\ executed' = <<>>
      /\ fin' = IF pendingToStore = <<>> THEN FinIdle
                ELSE [FinIdle EXCEPT !.pc = IF found = {} THEN "restoring" ELSE "clearing",
                                     !.restore = pendingToStore, !.touched = found]
  BY Zenon DEF RestoreTxsPendingToStore
<1>2. pendingToStore \in Seq(Tx) /\ Range(pendingToStore) \subseteq Tx
  BY ZenonT(60), ElementsOfSeq DEF TypeOK
<1>3. found \subseteq Addr
  BY Zenon DEF Queued
<1> HIDE DEF found
<1>4. /\ fin' \in FinState /\ fin'.pc \in {"idle", "clearing", "restoring"}
      /\ fin'.pc # "idle" => fin'.restore # <<>>
      /\ fin'.pc = "idle" => fin'.restore = <<>>
      /\ fin'.restore = <<>> \/ fin'.restore = pendingToStore
  <2>1. CASE pendingToStore = <<>>
    BY <1>1, <2>1, FinIdleOK, ZenonT(60)
  <2>2. CASE pendingToStore # <<>>
    <3> DEFINE pc == IF found = {} THEN "restoring" ELSE "clearing"
    <3>1. fin' = [FinIdle EXCEPT !.pc = pc, !.restore = pendingToStore, !.touched = found]
      BY ZenonT(60), <1>1, <2>2
    <3>2. pc \in {"clearing", "restoring"}
      BY Zenon
    <3> HIDE DEF pc
    <3>3. fin' = [pc |-> pc, tx |-> NoTx, touched |-> found, failed |-> {},
                  restore |-> pendingToStore]
      BY <3>1, ZenonT(60) DEF FinIdle
    <3> QED BY <1>2, <1>3, <2>2, <3>2, <3>3, ZenonT(60) DEF FinState, OptTx
  <2> QED BY ZenonT(60), <2>1, <2>2
<1>5. events' \in [Event -> Nat]
  BY <1>1, HappensType DEF Event
<1>6. TypeOK'
  BY <1>1, <1>2, <1>4, <1>5 DEF TypeOK, OptTx
<1>7. Range(pendingToStore') = {} /\ Range(fin'.restore) \subseteq Range(pendingToStore)
  BY <1>1, <1>4 DEF Range
<1>8. expirer.todo = {}
  BY ZenonT(60), <1>1 DEF Unlocked
<1>9. LoaderCreatesNewQueue' /\ Queued' = Queued
  BY Zenon, <1>1 DEF LoaderCreatesNewQueue, Queued
<1>10. ASSUME loader.pc \in {"fetching", "fetched"}, NEW t \in Range(fin'.restore)
       PROVE  From[t] # From[loader.tx]
  <2>1. From[t] \in Queued
    BY Zenon, <1>7 DEF ThreadsApart
  <2> QED BY <1>10, <2>1, ZenonT(60) DEF LoaderCreatesNewQueue
<1>11. ThreadsApart'
  BY <1>1, <1>4, <1>7, <1>8, <1>9, <1>10, ZenonT(60) DEF ThreadsApart
<1> QED BY <1>1, <1>6, <1>9, <1>11, ZenonT(60)

\* The elements of a concatenation.
LEMMA ConcatRange ==
  ASSUME NEW S, NEW s \in Seq(S), NEW u \in Seq(S)
  PROVE  /\ s \o u \in Seq(S)
         /\ Range(s \o u) \subseteq Range(s) \cup Range(u)
         /\ s # <<>> => s \o u # <<>>
<1> DEFINE r == s \o u
<1>1. /\ r \in Seq(S) /\ Len(r) = Len(s) + Len(u)
      /\ \A i \in 1..(Len(s) + Len(u)) : r[i] = IF i <= Len(s) THEN s[i] ELSE u[i - Len(s)]
  BY ZenonT(60), ConcatProperties
<1> HIDE DEF r
<1>2. DOMAIN r = 1..(Len(s) + Len(u)) /\ DOMAIN s = 1..Len(s) /\ DOMAIN u = 1..Len(u)
  BY <1>1
<1>3. ASSUME NEW i \in 1..(Len(s) + Len(u)) PROVE r[i] \in Range(s) \cup Range(u)
  <2>1. CASE i <= Len(s)
    BY <1>1, <1>2, <2>1 DEF Range
  <2>2. CASE i > Len(s)
    <3>1. Len(s) \in Nat /\ Len(u) \in Nat /\ i - Len(s) \in 1..Len(u)
      BY <2>2
    <3>2. r[i] = u[i - Len(s)]
      BY <1>1, <2>2
    <3> QED BY <1>2, <3>1, <3>2 DEF Range
  <2> QED BY <2>1, <2>2
<1>4. Range(r) \subseteq Range(s) \cup Range(u)
  BY ZenonT(60), <1>2, <1>3 DEF Range
<1>5. s # <<>> => r # <<>>
  <2>1. s # <<>> => Len(s) > 0
    BY EmptySeq
  <2>2. r = <<>> => Len(r) = 0
    OBVIOUS
  <2> QED BY <1>1, <2>1, <2>2
<1> QED BY <1>1, <1>4, <1>5, ZenonT(60) DEF r

\* Deleting the queue of a sender in RestoreTxsPendingToStore keeps it.
LEMMA RestoreClearQueueInv ==
  ASSUME WorkerInv, NEW a \in Addr, RestoreClearQueue(a)
  PROVE  WorkerInv'
<1> USE DEF WorkerInv, chainVars
<1> DEFINE q     == pool[a]
           ready == IF q.readyTx = NoTx THEN <<>> ELSE <<q.readyTx>>
<1>1. PICK waiting \in Injection(1 .. Cardinality(q.notReadyTxs), q.notReadyTxs) :
        /\ SetQueue(a, NoQueue)
        /\ txSortedList' = moveReady(txSortedList, q.readyTx, NoTx)
        /\ fin' = [fin EXCEPT !.touched = @ \ {a}, !.restore = @ \o ready \o waiting,
                              !.pc = IF fin.touched = {a} THEN "restoring" ELSE @]
  BY Zenon DEF RestoreClearQueue
<1>2. /\ UNCHANGED <<pendingToStore, reorgedTxs, wipTx, txPool, poolWrites, loader, storer,
                     expirer, exec, stored, executed, storedTxs, orphans, events>>
      /\ fin.pc = "clearing" /\ a \in Queued
  BY ZenonT(60) DEF RestoreClearQueue
<1>3. q \in AddrQueue /\ q # NoQueue /\ QueueOK(q, a) /\ ReadyOf(q) = AsSet(q.readyTx)
  BY Zenon, <1>2 DEF WorkerOK, Queued, ReadyOf
<1>4. q.readyTx \in OptTx /\ q.notReadyTxs \in SUBSET Tx
      /\ \A t \in getTransactions(q) : From[t] = a
  BY <1>3, QueueFields, ZenonT(60) DEF QueueOK
<1>5. waiting \in Seq(Tx) /\ Range(waiting) \subseteq q.notReadyTxs
  <2>1. IsFiniteSet(q.notReadyTxs)
    BY <1>4, TxAssumption, FS_Subset, ZenonT(60)
  <2>2. Cardinality(q.notReadyTxs) \in Nat
    BY <2>1, FS_CardinalityType, ZenonT(60)
  <2>3. waiting \in [1..Cardinality(q.notReadyTxs) -> q.notReadyTxs]
    BY ZenonT(60) DEF Injection
  <2>4. waiting \in [1..Cardinality(q.notReadyTxs) -> Tx]
    BY <1>4, <2>3, Zenon
  <2> QED BY <2>2, <2>3, <2>4, FunctionIsSeq, ZenonT(60)
<1>6. ready \in Seq(Tx) /\ Range(ready) \subseteq AsSet(q.readyTx)
  <2>1. CASE q.readyTx = NoTx
    <3>1. ready = <<>>
      BY <2>1, ZenonT(60)
    <3> QED BY <3>1, EmptySeq, EmptyRange, ZenonT(60)
  <2>2. CASE q.readyTx # NoTx
    <3>1. ready = <<q.readyTx>> /\ q.readyTx \in Tx
      BY <1>4, <2>2, Zenon DEF OptTx
    <3> QED BY <2>2, <3>1, SingletonRange, ZenonT(60) DEF AsSet
  <2> QED BY <2>1, <2>2, Zenon
<1> HIDE DEF ready
<1>7. /\ fin.restore \o ready \o waiting \in Seq(Tx)
      /\ Range(fin.restore \o ready \o waiting) \subseteq Range(fin.restore) \cup getTransactions(q)
      /\ fin.restore \o ready \o waiting # <<>>
  <2>1. fin.restore \in Seq(Tx) /\ fin.restore # <<>>
    BY ZenonT(60), <1>2 DEF TypeOK, FinState, ThreadsApart
  <2> DEFINE s == fin.restore \o ready
  <2>2. s \in Seq(Tx) /\ Range(s) \subseteq Range(fin.restore) \cup Range(ready) /\ s # <<>>
    BY <1>6, <2>1, ConcatRange, ZenonT(60)
  <2> HIDE DEF s
  <2>3. s \o waiting \in Seq(Tx) /\ Range(s \o waiting) \subseteq Range(s) \cup Range(waiting)
        /\ s \o waiting # <<>>
    BY <1>5, <2>2, ConcatRange
  <2> QED BY <1>5, <1>6, <2>2, <2>3, ZenonT(60) DEF s, getTransactions
<1> DEFINE list == fin.restore \o ready \o waiting
<1> HIDE DEF list
<1>8. /\ fin' \in FinState /\ fin'.pc \in {"clearing", "restoring"} /\ fin'.restore = list
  BY <1>1, <1>2, <1>7, ZenonT(60) DEF TypeOK, FinState, list
<1>9. WorkerOK(pool', txSortedList') /\ Queued' = Queued \ {a}
  <2> DEFINE m == moveReady(txSortedList, q.readyTx, NoTx)
  <2>1. ListOK(m) /\ Range(m) = (Range(txSortedList) \ AsSet(q.readyTx)) \cup AsSet(NoTx)
    <3>1. txSortedList \in Seq(Tx) /\ ListOK(txSortedList)
      BY Zenon DEF WorkerOK
    <3>2. NoTx \in OptTx
      BY DEF OptTx
    <3>3. ASSUME NEW prev \in OptTx
          PROVE  /\ ListOK(moveReady(txSortedList, prev, NoTx))
                 /\ Range(moveReady(txSortedList, prev, NoTx))
                      = (Range(txSortedList) \ AsSet(prev)) \cup AsSet(NoTx)
      BY <3>1, <3>2, MoveReadyOK, ZenonT(60)
    <3> QED BY <1>4, <3>3, ZenonT(60)
  <2> HIDE DEF m
  <2>2. Range(m) = (Range(txSortedList) \ ReadyOf(pool[a])) \cup ReadyOf(NoQueue)
    BY <1>3, <2>1, ZenonT(60) DEF AsSet, ReadyOf
  <2>3. WorkerOK([pool EXCEPT ![a] = NoQueue], m)
    BY ZenonT(60), <2>1, <2>2, QueueStep
  <2>4. pool' = [pool EXCEPT ![a] = NoQueue] /\ txSortedList' = m
    BY <1>1, ZenonT(60) DEF SetQueue, m
  <2>5. pool \in [Addr -> AddrQueue \cup {NoQueue}]
    BY Zenon DEF TypeOK
  <2> QED BY <2>3, <2>4, <2>5, ZenonT(60) DEF Queued
<1>10. TypeOK'
  BY <1>2, <1>8, <1>9, ZenonT(60) DEF TypeOK, WorkerOK
<1>11. LoaderCreatesNewQueue'
  BY <1>2, <1>9, ZenonT(60) DEF LoaderCreatesNewQueue
<1>12. ASSUME loader.pc \in {"fetching", "fetched"}, NEW t \in Range(list)
       PROVE  From[t] # From[loader.tx]
  <2>1. t \in Range(fin.restore) \/ From[t] = a
    BY <1>4, <1>7, ZenonT(60) DEF list
  <2> QED BY <1>2, <1>12, <2>1, ZenonT(60) DEF LoaderCreatesNewQueue, ThreadsApart
<1>13. pendingToStore = <<>> /\ Range(pendingToStore) = {} /\ expirer.todo = {} /\ list # <<>>
  BY <1>2, <1>7 DEF ThreadsApart, Range, list
<1>14. ThreadsApart'
  BY <1>2, <1>8, <1>12, <1>13, ZenonT(60) DEF ThreadsApart
<1> QED BY <1>9, <1>10, <1>11, <1>14, ZenonT(60)

\* The head and the tail of a sequence that is not empty.
LEMMA TailRange ==
  ASSUME NEW S, NEW s \in Seq(S), s # <<>>
  PROVE  /\ Head(s) \in S /\ Head(s) \in Range(s)
         /\ Tail(s) \in Seq(S) /\ Range(Tail(s)) \subseteq Range(s)
         /\ Len(s) # 1 => Tail(s) # <<>>
<1>1. Len(s) \in Nat /\ Len(s) > 0 /\ DOMAIN s = 1..Len(s) /\ Head(s) = s[1]
  BY EmptySeq
<1> DEFINE r == Tail(s)
<1>2. r \in Seq(S) /\ Len(r) = Len(s) - 1 /\ \A i \in 1..(Len(s) - 1) : r[i] = s[i + 1]
  BY Zenon, <1>1, HeadTailProperties
<1> HIDE DEF r
<1>3. DOMAIN r = 1..(Len(s) - 1)
  BY <1>2
<1>4. ASSUME NEW i \in 1..(Len(s) - 1) PROVE r[i] \in Range(s)
  <2>1. i + 1 \in 1..Len(s) /\ r[i] = s[i + 1]
    BY <1>1, <1>2
  <2> QED BY ZenonT(60), <1>1, <2>1 DEF Range
<1>5. Head(s) \in S /\ Head(s) \in Range(s)
  BY <1>1 DEF Range
<1>6. Len(s) # 1 => r # <<>>
  BY <1>1, <1>2, EmptySeq
<1> QED BY <1>2, <1>3, <1>4, <1>5, <1>6, ZenonT(60) DEF Range, r

\* Adding one transaction again in RestoreTxsPendingToStore keeps it.
LEMMA RestoreTxInv ==
  ASSUME WorkerInv, RestoreTx
  PROVE  WorkerInv'
<1> USE DEF WorkerInv, chainVars
<1> DEFINE t == Head(fin.restore)
           a == From[t]
           q == IF a \in Queued THEN pool[a] ELSE newAddrQueue(stored.nonce[a], stored.balance[a])
<1>1. /\ UNCHANGED <<pendingToStore, reorgedTxs, wipTx, txPool, poolWrites, loader, storer,
                     expirer, exec, stored, executed, storedTxs, orphans>>
      /\ \/ addToQueue(q, t) /\ UNCHANGED events
         \/ a \notin Queued /\ Happens("dbError") /\ UNCHANGED <<pool, txSortedList>>
      /\ fin' = IF Len(fin.restore) = 1 THEN FinIdle ELSE [fin EXCEPT !.restore = Tail(@)]
      /\ fin.pc = "restoring"
  BY Zenon DEF RestoreTx
<1>2. fin.restore \in Seq(Tx) /\ fin.restore # <<>> /\ pendingToStore = <<>> /\ expirer.todo = {}
  BY ZenonT(60), <1>1 DEF TypeOK, FinState, ThreadsApart
<1>3. /\ t \in Tx /\ a \in Addr /\ t \in Range(fin.restore)
      /\ Tail(fin.restore) \in Seq(Tx) /\ Range(Tail(fin.restore)) \subseteq Range(fin.restore)
      /\ Len(fin.restore) # 1 => Tail(fin.restore) # <<>>
  BY ZenonT(60), <1>2, TailRange, TxFields
<1>4. QueueOK(q, a) /\ q \in AddrQueue /\ AsSet(q.readyTx) = ReadyOf(pool[a])
  <2>1. CASE a \in Queued
    BY <1>3, <2>1, Zenon DEF WorkerOK, Queued, ReadyOf
  <2>2. CASE a \notin Queued
    <3>1. QueueOK(q, a) /\ q.readyTx = NoTx
      BY <1>3, <2>2, AccountOf, NewAddrQueueOK, ZenonT(60)
    <3>2. q \in AddrQueue
      BY <3>1, Zenon DEF QueueOK
    <3> QED BY <1>3, <2>2, <3>1, <3>2, ZenonT(60) DEF Queued, ReadyOf, AsSet
  <2> QED BY <2>1, <2>2, ZenonT(60)
<1> HIDE DEF q
<1>5. WorkerOK(pool', txSortedList') /\ (Queued' = Queued \/ Queued' = Queued \cup {a})
  <2>1. CASE addToQueue(q, t)
    BY <1>3, <1>4, <2>1, AddToQueueOK, ZenonT(60)
  <2>2. CASE UNCHANGED <<pool, txSortedList>>
    BY <2>2, ZenonT(60) DEF Queued
  <2> QED BY <1>1, <2>1, <2>2, ZenonT(60)
<1>6. events' \in [Event -> Nat]
  <2>1. events' = events \/ Happens("dbError")
    BY <1>1, ZenonT(60)
  <2> QED BY Zenon, <2>1, HappensType DEF TypeOK, Event
<1>7. /\ fin' \in FinState
      /\ \/ fin'.pc = "idle" /\ fin'.restore = <<>> /\ Range(fin'.restore) = {}
         \/ fin'.pc = "restoring" /\ fin'.restore = Tail(fin.restore) /\ fin'.restore # <<>>
  <2>1. CASE Len(fin.restore) = 1
    BY <1>1, <2>1, FinIdleOK, ZenonT(60)
  <2>2. CASE Len(fin.restore) # 1
    BY <1>1, <1>3, <2>2, ZenonT(60) DEF TypeOK, FinState
  <2> QED BY ZenonT(60), <2>1, <2>2
<1>8. TypeOK'
  BY <1>1, <1>5, <1>6, <1>7, ZenonT(60) DEF TypeOK, WorkerOK
<1>9. LoaderCreatesNewQueue'
  BY <1>1, <1>3, <1>5, ZenonT(60) DEF LoaderCreatesNewQueue, ThreadsApart
<1>10. ThreadsApart'
  BY <1>1, <1>2, <1>3, <1>5, <1>7, ZenonT(60) DEF ThreadsApart
<1> QED BY <1>5, <1>8, <1>9, <1>10, ZenonT(60)

-----------------------------------------------------------------------------
(* The storer, the expirer, a restart.                                     *)

\* The commit of an L2 block keeps it.
LEMMA StoreL2BlockInv ==
  ASSUME WorkerInv, NEW n \in 1..Len(executed), StoreL2Block(n)
  PROVE  WorkerInv'
<1> USE DEF WorkerInv, workerVars
<1> DEFINE txs == [i \in 1..n |-> executed[i].tx]
<1>1. /\ UNCHANGED <<pool, txSortedList, pendingToStore, reorgedTxs, wipTx, txPool, poolWrites,
                     loader, fin, expirer, exec, orphans, events>>
      /\ storer' = [select |-> txs, delete |-> txs] /\ storedTxs' = storedTxs \cup Range(txs)
      /\ stored' = executed[n].post /\ executed' = SubSeq(executed, n + 1, Len(executed))
  BY DEF StoreL2Block
<1>2. executed \in Seq([tx : Tx, post : Account]) /\ Len(executed) \in Nat
  <2>1. executed \in Seq([tx : Tx, post : Account])
    BY Zenon DEF TypeOK
  <2> QED BY <2>1, LenProperties, ZenonT(60)
<1>3. \A i \in 1..Len(executed) : executed[i].tx \in Tx /\ executed[i].post \in Account
  <2>1. ASSUME NEW i \in 1..Len(executed) PROVE executed[i] \in [tx : Tx, post : Account]
    BY <1>2, ElementOfSeq, Zenon
  <2> QED BY Zenon, <2>1
<1>4. txs \in Seq(Tx) /\ Range(txs) \subseteq Tx
  <2>1. txs \in [1..n -> Tx]
    BY <1>2, <1>3
  <2>2. n \in Nat
    BY <1>2
  <2> HIDE DEF txs
  <2> QED BY <2>1, <2>2, FunctionIsSeq, ZenonT(60)
<1> HIDE DEF txs
<1>5. executed' \in Seq([tx : Tx, post : Account])
  BY <1>1, <1>2, SuffixType, ZenonT(60)
<1>6. TypeOK'
  BY <1>1, <1>3, <1>4, <1>5, ZenonT(60) DEF TypeOK
<1> QED BY <1>1, <1>6, ZenonT(60) DEF LoaderCreatesNewQueue, ThreadsApart, Queued

\* Setting a stored transaction as selected keeps it.
LEMMA SelectStoredTxInv ==
  ASSUME WorkerInv, SelectStoredTx
  PROVE  WorkerInv'
<1> USE DEF WorkerInv, workerVars, chainVars
<1>1. Head(storer.select) \in Tx /\ Tail(storer.select) \in Seq(Tx)
  BY Zenon, TailRange DEF SelectStoredTx, TypeOK
<1>2. txPool' \in [Tx -> [status : Status, isWIP : BOOLEAN]]
  BY <1>1, SetStatusType DEF SelectStoredTx, Status
<1>3. TypeOK'
  BY <1>1, <1>2, ZenonT(60) DEF SelectStoredTx, TypeOK
<1>4. UNCHANGED <<pool, txSortedList, pendingToStore, loader, fin, expirer>>
  BY Zenon DEF SelectStoredTx
<1> QED BY <1>3, <1>4, ZenonT(60) DEF LoaderCreatesNewQueue, ThreadsApart, Queued

\* removeFirst returns a sequence of elements of the list.
LEMMA RemoveFirstRange ==
  ASSUME NEW S, NEW s \in Seq(S), NEW e
  PROVE  removeFirst(s, e) \in Seq(S) /\ Range(removeFirst(s, e)) \subseteq Range(s)
<1> DEFINE I == {i \in 1..Len(s) : s[i] = e}
<1>1. CASE I = {}
  BY <1>1, ZenonT(60) DEF removeFirst
<1>2. CASE I # {}
  <2>1. I \in SUBSET Nat
    OBVIOUS
  <2>2. removeFirst(s, e) = removeAt(s, Min(I))
    BY Zenon, <1>2 DEF removeFirst
  <2>3. Min(I) \in 1..Len(s)
    BY <1>2, <2>1, MinOfNats, ZenonT(60)
  <2> HIDE DEF I
  <2> QED BY <2>2, <2>3, RemoveAtElements, RemoveAtRange, ZenonT(60)
<1> QED BY <1>1, <1>2, ZenonT(60)

\* DeleteTxPendingToStore keeps it.
LEMMA DeleteTxPendingToStoreInv ==
  ASSUME WorkerInv, DeleteTxPendingToStore
  PROVE  WorkerInv'
<1> USE DEF WorkerInv, chainVars
<1> DEFINE t == Head(storer.delete)
           a == From[t]
<1>1. /\ UNCHANGED <<txSortedList, reorgedTxs, wipTx, txPool, poolWrites, loader, fin, expirer,
                     exec, stored, executed, storedTxs, orphans, events>>
      /\ Unlocked /\ storer.delete # <<>>
      /\ storer' = [storer EXCEPT !.delete = Tail(@)]
      /\ pendingToStore' = removeFirst(pendingToStore, t)
      /\ IF a \in Queued THEN SetQueue(a, deletePendingTxToStore(pool[a], t)) ELSE UNCHANGED pool
  BY Zenon DEF DeleteTxPendingToStore
<1>2. t \in Tx /\ a \in Addr /\ Tail(storer.delete) \in Seq(Tx)
  BY <1>1, TailRange, TxFields, ZenonT(60) DEF TypeOK
<1>3. pendingToStore' \in Seq(Tx) /\ Range(pendingToStore') \subseteq Range(pendingToStore)
  BY <1>1, RemoveFirstRange, ZenonT(60) DEF TypeOK
<1>4. WorkerOK(pool', txSortedList') /\ Queued' = Queued
  <2>1. CASE a \in Queued
    <3> DEFINE q == deletePendingTxToStore(pool[a], t)
    <3>1. pool[a] # NoQueue /\ pool[a] \in AddrQueue /\ QueueOK(pool[a], a)
      BY <1>2, <2>1, ZenonT(60) DEF WorkerOK, Queued
    <3>2. QueueOK(q, a) /\ q.readyTx = pool[a].readyTx
      BY <1>2, <3>1, PendingTxsToStoreOK, ZenonT(60)
    <3> HIDE DEF q
    <3>3. q \in AddrQueue
      BY Zenon, <3>2 DEF QueueOK
    <3>4. WorkerOK([pool EXCEPT ![a] = q], IF FALSE THEN delete(txSortedList, pool[a].readyTx) ELSE txSortedList)
      BY <1>2, <3>1, <3>2, <3>3, TakeStep, ZenonT(60)
    <3>5. pool' = [pool EXCEPT ![a] = q]
      BY ZenonT(60), <1>1, <2>1 DEF q, SetQueue
    <3>6. SetQueue(a, q)
      BY Zenon, <3>5 DEF SetQueue
    <3>7. Queued' = Queued
      <4> HIDE DEF a
      <4>1. Queued' = Queued \cup {a}
        BY <1>2, <3>3, <3>6, SetQueueQueued, ZenonT(60)
      <4> QED BY ZenonT(60), <2>1, <4>1
    <3> QED BY <1>1, <3>4, <3>5, <3>7, ZenonT(60)
  <2>2. CASE a \notin Queued
    BY <1>1, <2>2 DEF Queued
  <2> QED BY <2>1, <2>2, ZenonT(60)
<1>5. TypeOK'
  BY <1>1, <1>2, <1>3, <1>4, ZenonT(60) DEF TypeOK, WorkerOK
<1>6. LoaderCreatesNewQueue'
  BY <1>1, <1>4, ZenonT(60) DEF LoaderCreatesNewQueue
<1>7. ThreadsApart'
  BY <1>1, <1>3, <1>4, ZenonT(60) DEF ThreadsApart, Unlocked
<1> QED BY <1>4, <1>5, <1>6, <1>7, ZenonT(60)

\* ExpireTransactions keeps it: taking the mutex, and visiting each queue.
LEMMA ExpireInv ==
  ASSUME WorkerInv, \/ StartExpireTransactions
                    \/ \E a \in Addr : ExpireQueue(a)
                    \/ \E t \in Tx : MarkExpiredFailed(t)
  PROVE  WorkerInv'
<1> USE DEF WorkerInv, workerVars, chainVars
<1>1. CASE StartExpireTransactions
  <2>1. TypeOK'
    <3>1. events' \in [Event -> Nat]
      BY <1>1, HappensType DEF StartExpireTransactions, Event
    <3> QED BY <1>1, <3>1, ZenonT(60) DEF StartExpireTransactions, TypeOK, Queued
  <2>2. /\ UNCHANGED <<pool, txSortedList, pendingToStore, loader, fin>>
        /\ expirer'.todo = Queued /\ fin.pc \notin {"updating", "clearing", "restoring"}
    BY <1>1, Zenon DEF StartExpireTransactions, Unlocked, TypeOK
  <2> QED BY <2>1, <2>2 DEF LoaderCreatesNewQueue, ThreadsApart, Queued
<1>2. CASE \E a \in Addr : ExpireQueue(a)
  <2>1. PICK a \in Addr : ExpireQueue(a)
    BY Zenon, <1>2
  <2>2. PICK old \in SUBSET getTransactions(pool[a]) :
          /\ SetQueue(a, ExpireTransactions(pool[a], old))
          /\ txSortedList' = IF pool[a].readyTx \in old
                             THEN delete(txSortedList, pool[a].readyTx) ELSE txSortedList
          /\ expirer' = [todo |-> expirer.todo \ {a}, txs |-> expirer.txs \cup old]
    BY <2>1, Zenon DEF ExpireQueue
  <2>3. /\ UNCHANGED <<pendingToStore, reorgedTxs, wipTx, txPool, poolWrites, loader, fin, storer,
                       exec, stored, executed, storedTxs, orphans, events>>
        /\ a \in expirer.todo
    BY <2>1, Zenon DEF ExpireQueue
  <2>4. a \in Queued /\ pool[a] # NoQueue /\ pool[a] \in AddrQueue /\ QueueOK(pool[a], a)
    BY <2>3, Zenon DEF ThreadsApart, WorkerOK, Queued
  <2>5. old \in SUBSET Tx /\ NoTx \notin old
    BY <2>4, QueueFields, TxFields, ZenonT(60) DEF getTransactions, AsSet, OptTx
  <2> DEFINE q == ExpireTransactions(pool[a], old)
             taken == pool[a].readyTx \in old
  <2>6. QueueOK(q, a) /\ q.readyTx = IF taken THEN NoTx ELSE pool[a].readyTx
    BY <2>4, <2>5, ExpireTransactionsOK, ZenonT(60)
  <2> HIDE DEF q
  <2>7. q \in AddrQueue
    BY Zenon, <2>6 DEF QueueOK
  <2>8. taken => pool[a].readyTx # NoTx
    BY Zenon, <2>5
  <2>9. WorkerOK([pool EXCEPT ![a] = q], IF taken THEN delete(txSortedList, pool[a].readyTx) ELSE txSortedList)
    BY <2>4, <2>6, <2>7, <2>8, TakeStep, ZenonT(60)
  <2>10. WorkerOK(pool', txSortedList') /\ Queued' = Queued
    <3>1. pool' = [pool EXCEPT ![a] = q]
      BY ZenonT(60), <2>2 DEF q, SetQueue
    <3>2. SetQueue(a, q)
      BY Zenon, <3>1 DEF SetQueue
    <3>3. Queued' = Queued
      BY <2>4, <2>7, <3>2, SetQueueQueued, ZenonT(60)
    <3> QED BY <2>2, <2>9, <3>1, <3>3, ZenonT(60)
  <2>11. TypeOK'
    BY <2>2, <2>3, <2>5, <2>10, ZenonT(60) DEF TypeOK, WorkerOK
  <2> QED BY <2>2, <2>3, <2>10, <2>11, ZenonT(60) DEF LoaderCreatesNewQueue, ThreadsApart
<1>3. CASE \E t \in Tx : MarkExpiredFailed(t)
  <2>1. PICK t \in Tx : MarkExpiredFailed(t)
    BY Zenon, <1>3
  <2>2. txPool' \in [Tx -> [status : Status, isWIP : BOOLEAN]]
    BY ZenonT(60), <2>1, SetStatusType DEF MarkExpiredFailed, Status
  <2>3. TypeOK'
    BY <2>1, <2>2, ZenonT(60) DEF MarkExpiredFailed, TypeOK
  <2>4. /\ UNCHANGED <<pool, txSortedList, pendingToStore, loader, fin>>
        /\ expirer'.todo = {}
    BY Zenon, <2>1 DEF MarkExpiredFailed, TypeOK
  <2> QED BY <2>3, <2>4, ZenonT(60) DEF LoaderCreatesNewQueue, ThreadsApart, Queued
<1> QED BY <1>1, <1>2, <1>3, ZenonT(60)

\* A restart, which creates the worker again, keeps it.
LEMMA RestartInv ==
  ASSUME WorkerInv, Restart
  PROVE  WorkerInv'
<1> USE DEF Restart
<1>1. TypeOK'
  <2>1. events' \in [Event -> Nat]
    BY Zenon, HappensType DEF WorkerInv, Event
  <2>2. txPool' \in [Tx -> [status : Status, isWIP : BOOLEAN]]
    BY Zenon DEF WorkerInv, TypeOK
  <2>3. Idle \in LoaderState /\ Idle.pc = "idle"
    BY Zenon DEF Idle, LoaderState, OptTx
  <2>4. <<>> \in Seq(Tx) /\ <<>> \in Seq([tx : Tx, post : Account])
    BY EmptySeq, Zenon
  <2> QED BY <2>1, <2>2, <2>3, <2>4, FinIdleOK, ZenonT(60) DEF WorkerInv, TypeOK, StoreIdle, ExpIdle, OptTx
<1>2. Range(txSortedList') = {} /\ Range(pendingToStore') = {} /\ Range(fin'.restore) = {}
  BY Zenon, FinIdleOK DEF Range
<1>3. WorkerOK(pool', txSortedList')
  <2>1. ListOK(txSortedList')
    BY DEF ListOK, IsInjective, isSorted
  <2>2. \A a \in Addr : pool'[a] = NoQueue
    BY Zenon
  <2>3. \A t \in Tx : ReadyOf(pool'[From[t]]) = {}
    BY ZenonT(60), <2>2, TxFields DEF ReadyOf
  <2> QED BY <1>1, <1>2, <2>1, <2>2, <2>3, ZenonT(60) DEF WorkerOK, TypeOK
<1>4. LoaderCreatesNewQueue' /\ ThreadsApart'
  BY <1>2, FinIdleOK, ZenonT(60) DEF LoaderCreatesNewQueue, ThreadsApart, Idle, ExpIdle
<1> QED BY <1>1, <1>3, <1>4, ZenonT(60) DEF WorkerInv

\* One case per action, and the stuttering step.
LEMMA NextInv ==
  ASSUME WorkerInv, [Next]_vars
  PROVE  WorkerInv'
<1>1. CASE UNCHANGED vars
  BY <1>1, Zenon DEF vars, workerVars, chainVars, WorkerInv, TypeOK, WorkerOK, LoaderCreatesNewQueue,
              ThreadsApart, Queued
<1>2. CASE \/ \E t \in Tx : AddTxToPool(t)
           \/ \E w \in poolWrites : UpdateTxStatus(w)
           \/ MarkDroppedFailed \/ MarkReplacedFailed \/ UpdateTxWIPStatus
  BY <1>2, PoolStatusInv, ZenonT(60)
<1>3. CASE \E t \in Tx : AddTxTracker(t)
  BY Zenon, <1>3, AddTxTrackerInv
<1>4. CASE FetchAccount
  BY Zenon, <1>4, FetchAccountInv
<1>5. CASE AddTxToNewQueue
  BY <1>5, AddTxToNewQueueInv
<1>6. CASE \/ GetBestFittingTx \/ ProcessTxSkipped \/ ForcedBatch
           \/ \E t \in Tx : MarkInvalidatedFailed(t)
  BY <1>6, FinalizerControlInv, ZenonT(60)
<1>7. CASE ProcessTxOk
  BY Zenon, <1>7, ProcessTxOkInv
<1>8. CASE UpdateSender
  BY Zenon, <1>8, UpdateSenderInv
<1>9. CASE \E a \in Addr : UpdateTouched(a)
  BY Zenon, <1>9, UpdateTouchedInv
<1>10. CASE ProcessTxNotReady
  BY Zenon, <1>10, ProcessTxNotReadyInv
<1>11. CASE ProcessTxError
  BY Zenon, <1>11, ProcessTxErrorInv
<1>12. CASE RestoreTxsPendingToStore
  BY Zenon, <1>12, RestoreTxsPendingToStoreInv
<1>13. CASE \E a \in Addr : RestoreClearQueue(a)
  BY Zenon, <1>13, RestoreClearQueueInv
<1>14. CASE RestoreTx
  BY Zenon, <1>14, RestoreTxInv
<1>15. CASE \E n \in 1..Len(executed) : StoreL2Block(n)
  BY <1>15, StoreL2BlockInv, ZenonT(60)
<1>16. CASE SelectStoredTx
  BY Zenon, <1>16, SelectStoredTxInv
<1>17. CASE DeleteTxPendingToStore
  BY Zenon, <1>17, DeleteTxPendingToStoreInv
<1>18. CASE \/ StartExpireTransactions
            \/ \E a \in Addr : ExpireQueue(a)
            \/ \E t \in Tx : MarkExpiredFailed(t)
  BY <1>18, ExpireInv, ZenonT(60)
<1>19. CASE Restart
  BY Zenon, <1>19, RestartInv
<1> QED BY ZenonT(60), <1>1, <1>2, <1>3, <1>4, <1>5, <1>6, <1>7, <1>8, <1>9, <1>10, <1>11, <1>12, <1>13,
           <1>14, <1>15, <1>16, <1>17, <1>18, <1>19 DEF Next

\* The inductive invariant holds in every reachable state of the worker, for
\* any set of senders and transactions and any bound.
THEOREM WorkerInvariant == Spec => []WorkerInv
<1>1. Init => WorkerInv
  BY Zenon, InitInv
<1>2. WorkerInv /\ [Next]_vars => WorkerInv'
  BY Zenon, NextInv
<1> QED BY <1>1, <1>2, PTL DEF Spec

\* Type correctness of the worker and of its threads' control states.
THEOREM TypeCorrect == Spec => []TypeOK
<1>1. WorkerInv => TypeOK
  BY Zenon DEF WorkerInv
<1> QED BY <1>1, WorkerInvariant, PTL

\* worker.go keeps Worker.txSortedList and the ready transactions of
\* Worker.pool equal through every interleaving of loader, finalizer, storer
\* and expirer.
THEOREM SortedListIsExact == Spec => []SortedListExact
<1>1. WorkerInv => SortedListExact
  BY InvImplies, ZenonT(60)
<1> QED BY <1>1, WorkerInvariant, PTL

\* The binary searches of txsortedlist.go always run on a sorted slice.
THEOREM SortedListIsSorted == Spec => []SortedByGasPrice
<1>1. WorkerInv => SortedByGasPrice
  BY InvImplies, ZenonT(60)
<1> QED BY <1>1, WorkerInvariant, PTL

\* Every addrQueue keeps its own rules about nonces, balance and sender.
THEOREM QueuesAreConsistent == Spec => []QueueConsistent
<1>1. WorkerInv => QueueConsistent
  BY InvImplies, ZenonT(60)
<1> QED BY <1>1, WorkerInvariant, PTL

\* addTxTracker never overwrites a queue although it releases the mutex
\* between looking for it and creating it.
THEOREM LoaderNeverDiscardsQueue == Spec => []LoaderCreatesNewQueue
<1>1. WorkerInv => LoaderCreatesNewQueue
  BY Zenon DEF WorkerInv
<1> QED BY <1>1, WorkerInvariant, PTL
=============================================================================
