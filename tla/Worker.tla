------------------------------- MODULE Worker -------------------------------
(***************************************************************************)
(* The sequencer's worker and the threads that share it.                   *)
(*                                                                         *)
(*   loader     loadFromPool / addTxToWorker: moves pending transactions   *)
(*              of the pool database into the worker                       *)
(*   finalizer  finalizeBatches: takes the best transaction, executes it   *)
(*              and tells the worker the outcome; on an L2 block reorg it  *)
(*              restores the transactions that were executed, not stored   *)
(*   storer     storePendingL2Blocks: stores executed blocks in order      *)
(*   expirer    expireOldWorkerTxs                                         *)
(*                                                                         *)
(* Every exported method of the worker holds workerMutex; a step of this   *)
(* module is what one thread does between two points where another thread  *)
(* may run.  Methods that loop over several queues or transactions under   *)
(* the mutex take one step per iteration, and Unlocked keeps every other   *)
(* user of the worker out meanwhile.                                       *)
(*                                                                         *)
(* The chain is abstracted to the nonce and balance of each sender: exec   *)
(* at the root the finalizer executes on, stored at the last stored block. *)
(***************************************************************************)
EXTENDS AddrQueue, TxSortedList

CONSTANTS NoQueue,     \* an address that is not in the map Worker.pool
          Rejected,    \* transactions with an invalid IP or too many counters
          MaxBalance,  \* bound on the balances executions produce
          MaxEvents    \* how often each of Event may happen

Event == {"resubmit", "reorg", "forcedBatch", "restart", "expire", "dbError"}

ASSUME WorkerAssumption == /\ NoQueue \notin AddrQueue
                           /\ Rejected \subseteq Tx
                           /\ MaxBalance \in Nat
                           /\ MaxEvents \in [Event -> Nat]

VARIABLES
  pool,            \* Worker.pool: address -> addrQueue
  txSortedList,    \* Worker.txSortedList
  pendingToStore,  \* Worker.pendingToStore
  reorgedTxs,      \* Worker.reorgedTxs
  wipTx,           \* Worker.wipTx
  txPool,          \* the rows of pool.transaction
  poolWrites,      \* pool updates started in goroutines and not done yet
  loader,          \* control state of the loader
  fin,             \* control state of the finalizer
  storer,          \* blocks' transactions still to select / to delete
  expirer,         \* queues still to scan, expired transactions to report
  exec, stored,    \* account state at imStateRoot / at the last stored block
  executed,        \* executed transactions not stored yet, oldest first
  storedTxs,       \* transactions in stored blocks
  orphans,         \* executed transactions MoveTxPendingToStore did not find
  events           \* how often each bounded event has happened

workerVars == <<pool, txSortedList, pendingToStore, reorgedTxs, wipTx>>
chainVars  == <<exec, stored, executed, storedTxs, orphans>>
vars == <<workerVars, txPool, poolWrites, loader, fin, storer, expirer,
          chainVars, events>>

Account == [nonce : [Addr -> Nat], balance : [Addr -> Nat]]
Status  == {"none", "pending", "selected", "failed", "invalid"}

Idle      == [pc |-> "idle", tx |-> NoTx, replaced |-> NoTx, nonce |-> 0, balance |-> 0]
FinIdle   == [pc |-> "idle", tx |-> NoTx, touched |-> {}, failed |-> {}, restore |-> <<>>]
StoreIdle == [select |-> <<>>, delete |-> <<>>]
ExpIdle   == [todo |-> {}, txs |-> {}]

LoaderState == [pc : {"idle", "fetching", "fetched", "failing", "replaced", "wip"},
                tx : OptTx, replaced : OptTx, nonce : Nat, balance : Nat]
FinState == [pc : {"idle", "processing", "moved", "updating", "marking", "clearing", "restoring"},
             tx : OptTx, touched : SUBSET Addr, failed : SUBSET Tx, restore : Seq(Tx)]

TypeOK ==
  /\ pool \in [Addr -> AddrQueue \cup {NoQueue}]
  /\ txSortedList \in Seq(Tx)
  /\ pendingToStore \in Seq(Tx)
  /\ reorgedTxs \in Seq(Tx)
  /\ wipTx \in OptTx
  /\ txPool \in [Tx -> [status : Status, isWIP : BOOLEAN]]
  /\ poolWrites \subseteq Tx \X {"failed", "invalid"}
  /\ loader \in LoaderState
  /\ loader.pc # "idle" => loader.tx \in Tx
  /\ loader.pc = "replaced" => loader.replaced \in Tx
  /\ fin \in FinState
  /\ fin.pc \in {"processing", "moved", "updating", "marking"} => fin.tx \in Tx
  /\ storer \in [select : Seq(Tx), delete : Seq(Tx)]
  /\ expirer \in [todo : SUBSET Addr, txs : SUBSET Tx]
  /\ exec \in Account /\ stored \in Account
  /\ executed \in Seq([tx : Tx, post : Account])
  /\ storedTxs \subseteq Tx
  /\ orphans \subseteq Tx
  /\ events \in [Event -> Nat]

Init ==
  /\ pool = [a \in Addr |-> NoQueue]
  /\ txSortedList = <<>>
  /\ pendingToStore = <<>>
  /\ reorgedTxs = <<>>
  /\ wipTx = NoTx
  /\ txPool = [t \in Tx |-> [status |-> "none", isWIP |-> FALSE]]
  /\ poolWrites = {}
  /\ loader = Idle
  /\ fin = FinIdle
  /\ storer = StoreIdle
  /\ expirer = ExpIdle
  /\ \E b \in [Addr -> 0..MaxBalance] : stored = [nonce |-> [a \in Addr |-> 0], balance |-> b]
  /\ exec = stored
  /\ executed = <<>>
  /\ storedTxs = {}
  /\ orphans = {}
  /\ events = [e \in Event |-> 0]

\* A step that is one of the bounded events.
Happens(e) == /\ events[e] < MaxEvents[e]
              /\ events' = [events EXCEPT ![e] = @ + 1]

\* workerMutex is free.
Unlocked == fin.pc \notin {"updating", "clearing", "restoring"} /\ expirer.todo = {}

SetStatus(t, status) == txPool' = [txPool EXCEPT ![t] = [status |-> status, isWIP |-> FALSE]]

\* w.pool[a] = q
SetQueue(a, q) == pool' = [pool EXCEPT ![a] = q]

\* The addresses found in w.pool.
Queued == {a \in Addr : pool[a] # NoQueue}

-----------------------------------------------------------------------------
(* The pool: eth_sendRawTransaction, and the asynchronous status updates.  *)

\* validateTx and AddTx; a transaction that failed may be sent again.
AddTxToPool(t) ==
  /\ txPool[t].status \notin {"pending", "selected"}
  /\ Nonce[t] >= stored.nonce[From[t]]
  /\ Cost[t] <= stored.balance[From[t]]
  /\ ~ \E u \in Tx : /\ From[u] = From[t] /\ Nonce[u] = Nonce[t]
                     /\ txPool[u].status \in {"pending", "selected"}
                     /\ GasPrice[u] > GasPrice[t]
  /\ IF txPool[t].status = "none" THEN UNCHANGED events ELSE Happens("resubmit")
  /\ SetStatus(t, "pending")
  /\ UNCHANGED <<workerVars, poolWrites, loader, fin, storer, expirer, chainVars>>

UpdateTxStatus(w) ==
  /\ w \in poolWrites
  /\ poolWrites' = poolWrites \ {w}
  /\ SetStatus(w[1], w[2])
  /\ UNCHANGED <<workerVars, loader, fin, storer, expirer, chainVars, events>>

-----------------------------------------------------------------------------
(* The loader.                                                             *)

\* The part of addTxTracker after the queue is known.
addToQueue(q, t) ==
  LET r == addTx(q, t)
  IN  /\ SetQueue(From[t], r.queue)
      /\ txSortedList' = IF r.dropped THEN txSortedList
                         ELSE moveReady(txSortedList, r.prevReadyTx, r.newReadyTx)

\* Mutant: addTxToWorker ignores the replaced transaction.
loaderAfterAdd_ignoresReplaced(q, t) ==
  LET r == addTx(q, t)
  IN  loader' = [Idle EXCEPT !.tx = t, !.pc = IF r.dropped THEN "failing" ELSE "wip"]

\* What addTxToWorker does next with the outcome.
loaderAfterAdd(q, t) ==
  LET r == addTx(q, t)
  IN  loader' = [Idle EXCEPT !.tx = t, !.replaced = r.replacedTx,
                             !.pc = IF r.dropped THEN "failing"
                                    ELSE IF r.replacedTx # NoTx THEN "replaced"
                                    ELSE "wip"]

\* Mutant: only the same transaction is refused.
matchesWipTx_sameHash(t) == wipTx = t

\* addTxTracker refuses a transaction with the sender and nonce of wipTx.
matchesWipTx(t) == wipTx # NoTx /\ From[wipTx] = From[t] /\ Nonce[wipTx] = Nonce[t]

AddTxTracker(t) ==
  /\ loader.pc = "idle"
  /\ Unlocked
  /\ txPool[t].status = "pending" /\ ~txPool[t].isWIP
  /\ \/ /\ t \in Rejected \/ matchesWipTx(t)
        /\ loader' = [Idle EXCEPT !.pc = "failing", !.tx = t]
        /\ UNCHANGED <<pool, txSortedList>>
     \/ /\ t \notin Rejected /\ ~matchesWipTx(t)
        /\ From[t] \in Queued
        /\ addToQueue(pool[From[t]], t)
        /\ loaderAfterAdd(pool[From[t]], t)
     \/ /\ t \notin Rejected /\ ~matchesWipTx(t)
        /\ From[t] \notin Queued
        /\ loader' = [Idle EXCEPT !.pc = "fetching", !.tx = t]
        /\ UNCHANGED <<pool, txSortedList>>
  /\ UNCHANGED <<pendingToStore, reorgedTxs, wipTx, txPool, poolWrites, fin, storer,
                 expirer, chainVars, events>>

\* Without the mutex: nonce and balance at the last stored root, or an error.
FetchAccount ==
  /\ loader.pc = "fetching"
  /\ \/ /\ loader' = [loader EXCEPT !.pc = "fetched",
                                    !.nonce = stored.nonce[From[loader.tx]],
                                    !.balance = stored.balance[From[loader.tx]]]
        /\ UNCHANGED events
     \/ /\ Happens("dbError")
        /\ loader' = [loader EXCEPT !.pc = "failing"]
  /\ UNCHANGED <<workerVars, txPool, poolWrites, fin, storer, expirer, chainVars>>

AddTxToNewQueue ==
  /\ loader.pc = "fetched"
  /\ Unlocked
  /\ LET q == newAddrQueue(loader.nonce, loader.balance)
     IN  addToQueue(q, loader.tx) /\ loaderAfterAdd(q, loader.tx)
  /\ UNCHANGED <<pendingToStore, reorgedTxs, wipTx, txPool, poolWrites, fin, storer,
                 expirer, chainVars, events>>

MarkDroppedFailed ==
  /\ loader.pc = "failing"
  /\ SetStatus(loader.tx, "failed")
  /\ loader' = Idle
  /\ UNCHANGED <<workerVars, poolWrites, fin, storer, expirer, chainVars, events>>

MarkReplacedFailed ==
  /\ loader.pc = "replaced"
  /\ SetStatus(loader.replaced, "failed")
  /\ loader' = [loader EXCEPT !.pc = "wip"]
  /\ UNCHANGED <<workerVars, poolWrites, fin, storer, expirer, chainVars, events>>

UpdateTxWIPStatus ==
  /\ loader.pc = "wip"
  /\ txPool' = [txPool EXCEPT ![loader.tx].isWIP = TRUE]
  /\ loader' = Idle
  /\ UNCHANGED <<workerVars, poolWrites, fin, storer, expirer, chainVars, events>>

-----------------------------------------------------------------------------
(* The finalizer: choosing a transaction.                                  *)

isReady(t) == From[t] \in Queued /\ pool[From[t]].readyTx = t

\* The reorged transactions GetBestFittingTx would return.
returnable == {i \in 1..Len(reorgedTxs) : isReady(reorgedTxs[i])}

\* First the reorged transactions in their order, skipping those that are not
\* the ready one; then the first of the sorted list that fits (which ones fit
\* depends on counters this module leaves out, so it may be any of them).
GetBestFittingTx ==
  /\ fin.pc = "idle"
  /\ Unlocked
  /\ \/ /\ returnable # {}
        /\ fin' = [FinIdle EXCEPT !.pc = "processing", !.tx = reorgedTxs[Min(returnable)]]
        /\ reorgedTxs' = SubSeq(reorgedTxs, Min(returnable) + 1, Len(reorgedTxs))
        /\ wipTx' = NoTx
     \/ /\ returnable = {}
        /\ reorgedTxs' = <<>>
        /\ \E i \in 1..Len(txSortedList) :
              /\ wipTx' = txSortedList[i]
              /\ fin' = [FinIdle EXCEPT !.pc = "processing", !.tx = txSortedList[i]]
     \/ /\ returnable = {}
        /\ reorgedTxs' = <<>>
        /\ wipTx' = NoTx
        /\ UNCHANGED fin
  /\ UNCHANGED <<pool, txSortedList, pendingToStore, txPool, poolWrites, loader, storer,
                 expirer, chainVars, events>>

-----------------------------------------------------------------------------
(* The finalizer: executing it and telling the worker.                     *)

\* deleteTx of the worker.
deleteFromWorker(t) ==
  IF From[t] \in Queued
  THEN /\ SetQueue(From[t], deleteTx(pool[From[t]], t))
       /\ txSortedList' = IF isReady(t) THEN delete(txSortedList, t) ELSE txSortedList
  ELSE UNCHANGED <<pool, txSortedList>>

\* resetWipTx
resetWipTx(t) == wipTx' = IF wipTx = t THEN NoTx ELSE wipTx

\* applyAddressUpdate; the failed transactions it returns are in failedBy.
applyAddressUpdate(a, nonce, balance) ==
  IF a \in Queued
  THEN LET r == updateCurrentNonceBalance(pool[a], nonce, balance)
       IN  /\ SetQueue(a, r.queue)
           /\ txSortedList' = moveReady(txSortedList, r.prevReadyTx, r.newReadyTx)
  ELSE UNCHANGED <<pool, txSortedList>>

failedBy(a, nonce, balance) ==
  IF a \in Queued
  THEN updateCurrentNonceBalance(pool[a], nonce, balance).toDelete
  ELSE {}

canExecute(t) == /\ Nonce[t] = exec.nonce[From[t]]
                 /\ Cost[t] <= exec.balance[From[t]]

\* Mutant: the transaction is put in front.
movePendingToStore_prepends(t) == <<t>> \o pendingToStore

\* w.pendingToStore = append(w.pendingToStore, deletedTx)
movePendingToStore(t) == Append(pendingToStore, t)

\* A successful execution: the sender pays at most the cost, other accounts
\* can only receive; then MoveTxPendingToStore.
ProcessTxOk ==
  /\ fin.pc = "processing"
  /\ Unlocked
  /\ canExecute(fin.tx)
  /\ \E touched \in SUBSET Addr, b \in [Addr -> 0..MaxBalance] :
       LET t    == fin.tx
           a    == From[t]
           post == [nonce |-> [exec.nonce EXCEPT ![a] = @ + 1], balance |-> b]
       IN  /\ a \in touched
           /\ b[a] >= exec.balance[a] - Cost[t]
           /\ \A o \in Addr \ {a} : /\ b[o] >= exec.balance[o]
                                    /\ o \notin touched => b[o] = exec.balance[o]
           /\ exec' = post
           /\ executed' = Append(executed, [tx |-> t, post |-> post])
           /\ fin' = [fin EXCEPT !.pc = "moved", !.touched = touched]
  /\ LET t     == fin.tx
         a     == From[t]
         found == a \in Queued /\ t \in getTransactions(pool[a])
     IN  /\ IF a \in Queued
            THEN SetQueue(a, addPendingTxToStore(deleteTx(pool[a], t), t))
            ELSE UNCHANGED pool
         /\ txSortedList' = IF isReady(t) THEN delete(txSortedList, t) ELSE txSortedList
         /\ pendingToStore' = IF found THEN movePendingToStore(t) ELSE pendingToStore
         /\ orphans' = IF found THEN orphans ELSE orphans \cup {t}
  /\ UNCHANGED <<reorgedTxs, wipTx, txPool, poolWrites, loader, storer, expirer, stored,
                 storedTxs, events>>

\* Control of the finalizer while it updates the touched addresses, then
\* reports the failed transactions to the pool.
finAfterUpdate(touched, failed) ==
  fin' = IF touched = {} /\ failed = {} THEN FinIdle
         ELSE [fin EXCEPT !.touched = touched, !.failed = failed,
                          !.pc = IF touched # {} THEN "updating" ELSE "marking"]

\* UpdateAfterSingleSuccessfulTxExecution: the sender first, then the others.
UpdateSender ==
  /\ fin.pc = "moved"
  /\ Unlocked
  /\ LET a == From[fin.tx]
     IN  /\ applyAddressUpdate(a, exec.nonce[a], exec.balance[a])
         /\ finAfterUpdate(fin.touched \ {a}, failedBy(a, exec.nonce[a], exec.balance[a]))
  /\ UNCHANGED <<pendingToStore, reorgedTxs, wipTx, txPool, poolWrites, loader, storer,
                 expirer, chainVars, events>>

UpdateTouched(a) ==
  /\ fin.pc = "updating"
  /\ a \in fin.touched
  /\ LET nonce == IF a \in Queued THEN pool[a].currentNonce ELSE 0
     IN  /\ applyAddressUpdate(a, nonce, exec.balance[a])
         /\ finAfterUpdate(fin.touched \ {a},
                           fin.failed \cup failedBy(a, nonce, exec.balance[a]))
  /\ UNCHANGED <<pendingToStore, reorgedTxs, wipTx, txPool, poolWrites, loader, storer,
                 expirer, chainVars, events>>

MarkInvalidatedFailed(t) ==
  /\ fin.pc = "marking"
  /\ t \in fin.failed
  /\ SetStatus(t, "failed")
  /\ finAfterUpdate({}, fin.failed \ {t})
  /\ UNCHANGED <<workerVars, poolWrites, loader, storer, expirer, chainVars, events>>

\* The executor reports an invalid nonce or balance: MoveTxToNotReady.
ProcessTxNotReady ==
  /\ fin.pc = "processing"
  /\ Unlocked
  /\ ~canExecute(fin.tx)
  /\ LET a == From[fin.tx]
     IN  /\ applyAddressUpdate(a, exec.nonce[a], exec.balance[a])
         /\ poolWrites' = poolWrites \cup
              (failedBy(a, exec.nonce[a], exec.balance[a]) \X {"failed"})
  /\ resetWipTx(fin.tx)
  /\ fin' = FinIdle
  /\ UNCHANGED <<pendingToStore, reorgedTxs, txPool, loader, storer, expirer, chainVars,
                 events>>

\* The executor fails, or reports out of counters (node or ROM) or any other
\* intrinsic error: DeleteTx, and the status is written to the pool.
ProcessTxError ==
  /\ fin.pc = "processing"
  /\ Unlocked
  /\ deleteFromWorker(fin.tx)
  /\ resetWipTx(fin.tx)
  /\ \E status \in {"failed", "invalid"} : poolWrites' = poolWrites \cup {<<fin.tx, status>>}
  /\ fin' = FinIdle
  /\ UNCHANGED <<pendingToStore, reorgedTxs, txPool, loader, storer, expirer, chainVars,
                 events>>

\* The transaction does not fit in the batch (UpdateTxZKCounters) or the
\* executor's database failed: the worker keeps it, and keeps wipTx.
ProcessTxSkipped ==
  /\ fin.pc = "processing"
  /\ Unlocked
  /\ fin' = FinIdle
  /\ UNCHANGED <<workerVars, txPool, poolWrites, loader, storer, expirer, chainVars, events>>

-----------------------------------------------------------------------------
(* The finalizer: L2 block reorgs and forced batches.                      *)

\* processL2BlockReorg: a block that is executed but not stored failed, so the
\* finalizer goes back to the stored root and RestoreTxsPendingToStore takes the
\* mutex.  The queues of the senders of the lost transactions (fin.touched) are
\* deleted one by one, then fin.restore is added again one by one.
RestoreTxsPendingToStore ==
  /\ fin.pc = "idle"
  /\ Unlocked
  /\ executed # <<>>
  /\ storer = StoreIdle
  /\ Happens("reorg")
  /\ reorgedTxs' = pendingToStore
  /\ pendingToStore' = <<>>
  /\ wipTx' = NoTx
  /\ exec' = stored
  /\ executed' = <<>>
  /\ LET found == {From[t] : t \in Range(pendingToStore)} \cap Queued
     IN  fin' = IF pendingToStore = <<>> THEN FinIdle
                ELSE [FinIdle EXCEPT !.pc = IF found = {} THEN "restoring" ELSE "clearing",
                                     !.restore = pendingToStore, !.touched = found]
  /\ UNCHANGED <<pool, txSortedList, txPool, poolWrites, loader, storer, expirer, stored,
                 storedTxs, orphans>>

\* Its loop over the senders: the ready transaction, then notReadyTxs in any
\* order, join the list to restore and the queue is deleted.
RestoreClearQueue(a) ==
  /\ fin.pc = "clearing"
  /\ a \in fin.touched \cap Queued
  /\ LET q     == pool[a]
         ready == IF q.readyTx = NoTx THEN <<>> ELSE <<q.readyTx>>
     IN  \E waiting \in Injection(1 .. Cardinality(q.notReadyTxs), q.notReadyTxs) :
            /\ SetQueue(a, NoQueue)
            /\ txSortedList' = moveReady(txSortedList, q.readyTx, NoTx)
            /\ fin' = [fin EXCEPT !.touched = @ \ {a}, !.restore = @ \o ready \o waiting,
                                  !.pc = IF fin.touched = {a} THEN "restoring" ELSE @]
  /\ UNCHANGED <<pendingToStore, reorgedTxs, wipTx, txPool, poolWrites, loader, storer,
                 expirer, chainVars, events>>

\* One addTxTracker of its last loop, which creates the queues again.  The
\* checks of the IP and of the counters passed when the transaction came in.
\* What is dropped or replaced here is returned to processL2BlockReorg, which
\* ignores it.
RestoreTx ==
  /\ fin.pc = "restoring"
  /\ LET t == Head(fin.restore)
         a == From[t]
     IN  \/ /\ addToQueue(IF a \in Queued THEN pool[a]
                          ELSE newAddrQueue(stored.nonce[a], stored.balance[a]), t)
            /\ UNCHANGED events
         \/ /\ a \notin Queued
            /\ Happens("dbError")
            /\ UNCHANGED <<pool, txSortedList>>
  /\ fin' = IF Len(fin.restore) = 1 THEN FinIdle
            ELSE [fin EXCEPT !.restore = Tail(@)]
  /\ UNCHANGED <<pendingToStore, reorgedTxs, wipTx, txPool, poolWrites, loader, storer,
                 expirer, chainVars>>

\* processForcedBatch, run when no block is in flight: the transactions of L1
\* are executed and stored at once.  AddForcedTx and DeleteForcedTx of the same
\* hashes cancel out, and the queues do not learn the new nonces or balances.
ForcedBatch ==
  /\ fin.pc = "idle"
  /\ Unlocked
  /\ executed = <<>>
  /\ storer = StoreIdle
  /\ Happens("forcedBatch")
  /\ \E a \in Addr, b \in 0..MaxBalance :
        exec' = [nonce   |-> [exec.nonce EXCEPT ![a] = @ + 1],
                 balance |-> [exec.balance EXCEPT ![a] = b]]
  /\ stored' = exec'
  /\ UNCHANGED <<workerVars, txPool, poolWrites, loader, fin, storer, expirer, executed,
                 storedTxs, orphans>>

-----------------------------------------------------------------------------
(* The storer.                                                             *)

\* storeL2Block up to the commit of a block with the n oldest transactions; the
\* transaction the finalizer is still working on is not in a closed block.
StoreL2Block(n) ==
  /\ storer = StoreIdle
  /\ n <= Len(executed) - (IF fin.pc \in {"moved", "updating", "marking"} THEN 1 ELSE 0)
  /\ LET txs == [i \in 1..n |-> executed[i].tx]
     IN  /\ storer' = [select |-> txs, delete |-> txs]
         /\ storedTxs' = storedTxs \cup Range(txs)
  /\ stored' = executed[n].post
  /\ executed' = SubSeq(executed, n + 1, Len(executed))
  /\ UNCHANGED <<workerVars, txPool, poolWrites, loader, fin, expirer, exec, orphans, events>>

\* storeL2Block after the commit: every transaction is set as selected, ...
SelectStoredTx ==
  /\ storer.select # <<>>
  /\ SetStatus(Head(storer.select), "selected")
  /\ storer' = [storer EXCEPT !.select = Tail(@)]
  /\ UNCHANGED <<workerVars, poolWrites, loader, fin, expirer, chainVars, events>>

\* The list without the first t, if there is one.
removeFirst(list, t) ==
  LET at == {i \in 1..Len(list) : list[i] = t}
  IN  IF at = {} THEN list ELSE removeAt(list, Min(at))

\* ... then each one leaves the pending lists.
DeleteTxPendingToStore ==
  /\ storer.select = <<>> /\ storer.delete # <<>>
  /\ Unlocked
  /\ LET t == Head(storer.delete)
         a == From[t]
     IN  /\ pendingToStore' = removeFirst(pendingToStore, t)
         /\ IF a \in Queued THEN SetQueue(a, deletePendingTxToStore(pool[a], t))
            ELSE UNCHANGED pool
  /\ storer' = [storer EXCEPT !.delete = Tail(@)]
  /\ UNCHANGED <<txSortedList, reorgedTxs, wipTx, txPool, poolWrites, loader, fin, expirer,
                 chainVars, events>>

-----------------------------------------------------------------------------
(* The expirer.                                                            *)

StartExpireTransactions ==
  /\ Unlocked
  /\ expirer = ExpIdle
  /\ Queued # {}
  /\ Happens("expire")
  /\ expirer' = [expirer EXCEPT !.todo = Queued]
  /\ UNCHANGED <<workerVars, txPool, poolWrites, loader, fin, storer, chainVars>>

\* Mutant: a queue without transactions is deleted although it has some to store.
ExpireQueue_deletesQueue(a) ==
  /\ a \in expirer.todo
  /\ \E old \in SUBSET getTransactions(pool[a]) :
        /\ SetQueue(a, IF old = getTransactions(pool[a]) THEN NoQueue
                       ELSE ExpireTransactions(pool[a], old))
        /\ txSortedList' = IF pool[a].readyTx \in old
                           THEN delete(txSortedList, pool[a].readyTx) ELSE txSortedList
        /\ expirer' = [todo |-> expirer.todo \ {a}, txs |-> expirer.txs \cup old]
  /\ UNCHANGED <<pendingToStore, reorgedTxs, wipTx, txPool, poolWrites, loader, fin, storer,
                 chainVars, events>>

\* One queue of the loop, with the mutex held: any of its transactions may be
\* old enough, the one being executed included.
ExpireQueue(a) ==
  /\ a \in expirer.todo
  /\ \E old \in SUBSET getTransactions(pool[a]) :
        /\ SetQueue(a, ExpireTransactions(pool[a], old))
        /\ txSortedList' = IF pool[a].readyTx \in old
                           THEN delete(txSortedList, pool[a].readyTx) ELSE txSortedList
        /\ expirer' = [todo |-> expirer.todo \ {a}, txs |-> expirer.txs \cup old]
  /\ UNCHANGED <<pendingToStore, reorgedTxs, wipTx, txPool, poolWrites, loader, fin, storer,
                 chainVars, events>>

MarkExpiredFailed(t) ==
  /\ expirer.todo = {}
  /\ t \in expirer.txs
  /\ SetStatus(t, "failed")
  /\ expirer' = [expirer EXCEPT !.txs = @ \ {t}]
  /\ UNCHANGED <<workerVars, poolWrites, loader, fin, storer, chainVars, events>>

-----------------------------------------------------------------------------
\* The node stops at any point and starts again: memory is lost, the executor
\* goes on from the last stored block, and MarkWIPTxsAsPending lets the loader
\* take again what the worker had.
Restart ==
  /\ Happens("restart")
  /\ pool' = [a \in Addr |-> NoQueue]
  /\ txSortedList' = <<>>
  /\ pendingToStore' = <<>>
  /\ reorgedTxs' = <<>>
  /\ wipTx' = NoTx
  /\ txPool' = [t \in Tx |-> [txPool[t] EXCEPT !.isWIP = FALSE]]
  /\ poolWrites' = {}
  /\ loader' = Idle
  /\ fin' = FinIdle
  /\ storer' = StoreIdle
  /\ expirer' = ExpIdle
  /\ exec' = stored
  /\ executed' = <<>>
  /\ orphans' = {}
  /\ UNCHANGED <<stored, storedTxs>>

Next ==
  \/ \E t \in Tx : AddTxToPool(t)
  \/ \E w \in poolWrites : UpdateTxStatus(w)
  \/ \E t \in Tx : AddTxTracker(t)
  \/ FetchAccount
  \/ AddTxToNewQueue
  \/ MarkDroppedFailed
  \/ MarkReplacedFailed
  \/ UpdateTxWIPStatus
  \/ GetBestFittingTx
  \/ ProcessTxOk
  \/ UpdateSender
  \/ \E a \in Addr : UpdateTouched(a)
  \/ \E t \in Tx : MarkInvalidatedFailed(t)
  \/ ProcessTxNotReady
  \/ ProcessTxError
  \/ ProcessTxSkipped
  \/ RestoreTxsPendingToStore
  \/ \E a \in Addr : RestoreClearQueue(a)
  \/ RestoreTx
  \/ ForcedBatch
  \/ \E n \in 1..Len(executed) : StoreL2Block(n)
  \/ SelectStoredTx
  \/ DeleteTxPendingToStore
  \/ StartExpireTransactions
  \/ \E a \in Addr : ExpireQueue(a)
  \/ \E t \in Tx : MarkExpiredFailed(t)
  \/ Restart

Spec == Init /\ [][Next]_vars

-----------------------------------------------------------------------------
(* Properties.                                                             *)

\* The sorted list holds exactly the ready transactions of the queues, each
\* once: addTxTracker, applyAddressUpdate, deleteTx, ExpireTransactions and
\* RestoreTxsPendingToStore keep the two structures in step.
SortedListExact ==
  /\ Range(txSortedList) = {pool[a].readyTx : a \in Queued} \ {NoTx}
  /\ IsInjective(txSortedList)

\* The sorted list is by descending gas price, which the binary searches of
\* txSortedList.addSort and txSortedList.delete rely on.
SortedByGasPrice == isSorted(txSortedList)

\* A queue only holds transactions of its sender; the ready one has the next
\* nonce and is paid for by the balance the queue knows; the waiting ones have
\* nonces that are not used yet, at most one transaction for each.
QueueConsistent ==
  \A a \in Queued :
    LET q == pool[a]
    IN  /\ \A t \in getTransactions(q) : From[t] = a /\ Nonce[t] >= q.currentNonce
        /\ \A t, u \in q.notReadyTxs : Nonce[t] = Nonce[u] => t = u
        /\ q.readyTx # NoTx => /\ Nonce[q.readyTx] = q.currentNonce
                               /\ Cost[q.readyTx] <= q.currentBalance

\* While addTxTracker reads the account without the mutex, nobody creates the
\* queue of that sender: the assignment w.pool[tx.FromStr] = addr that follows
\* never discards a queue.
LoaderCreatesNewQueue ==
  loader.pc \in {"fetching", "fetched"} => From[loader.tx] \notin Queued

\* As long as MoveTxPendingToStore finds its transactions, pendingToStore is
\* what a reorg has to execute again, in the order of execution: the executed
\* transactions that are not stored, after those stored whose turn in the loop
\* of DeleteTxPendingToStore has not come.
PendingMatchesExecuted ==
  orphans = {} =>
    pendingToStore = storer.delete \o [i \in 1..Len(executed) |-> executed[i].tx]

\* As long as MoveTxPendingToStore finds its transactions, no queue is ahead of
\* the state the finalizer executes on, and without forced batches none is
\* behind, except between MoveTxPendingToStore and the update that follows it.
QueueNonceInSync ==
  \A a \in Queued :
    orphans = {} /\ fin.pc # "clearing" =>
      /\ pool[a].currentNonce <= exec.nonce[a]
      /\ \/ pool[a].currentNonce = exec.nonce[a]
         \/ events["forcedBatch"] > 0
         \/ fin.pc = "moved" /\ From[fin.tx] = a

\* A transaction that the pool shows as being worked on is somewhere in the
\* sequencer: in its queue, being restored, executed and not yet selected, or
\* about to get its final status.
NoTxLost ==
  \A t \in Tx :
    txPool[t].status = "pending" /\ txPool[t].isWIP =>
      \/ From[t] \in Queued /\ t \in getTransactions(pool[From[t]])
      \/ t \in Range(fin.restore) \cup fin.failed \cup Range(storer.select) \cup expirer.txs
      \/ \E i \in 1..Len(executed) : executed[i].tx = t
      \/ loader.pc = "replaced" /\ loader.replaced = t
      \/ \E w \in poolWrites : w[1] = t

\* The same until an L2 block reorg or a resubmission of the same transaction,
\* through a restart and a failing read of the state at any point (addTxToWorker,
\* MarkWIPTxsAsPending); it is checked where every balance is enough.
NoTxLostUntilReorg == events["reorg"] + events["resubmit"] = 0 => NoTxLost

\* Until the node restarts, a block is executed again or a transaction expires, a
\* transaction in a stored block is selected in the pool once the storer has passed
\* it, and stays so: no write that another thread started earlier undoes it.
StoredTxSelected ==
  events["restart"] + events["reorg"] + events["expire"] = 0 =>
    \A t \in storedTxs \ Range(storer.select) : txPool[t].status = "selected"

\* While the finalizer executes a transaction, the loader does not take it out of
\* its queue (addTxTracker logs "matches current processing tx ..., rejecting it as
\* duplicated nonce").
ProcessingTxNotReplaced ==
  [][\A t \in Tx : /\ fin.pc = "processing" /\ fin.tx = t /\ fin' = fin
                   /\ isReady(t)
                   /\ loader' # loader
                   => isReady(t)']_vars

\* The next reorged transaction is the ready one of its sender (of the other case
\* GetBestFittingTx says "this shouldn't happen").
ReorgedTxIsReady ==
  fin.pc = "idle" /\ reorgedTxs # <<>> => isReady(Head(reorgedTxs))

\* A transaction that the executor refuses and whose nonce is not used yet waits
\* in notReadyTxs ("MoveTxToNotReady move a tx to not ready after it fails to
\* execute"; updateCurrentNonceBalance: "if it has a valid nonce").
RefusedTxKept ==
  [][\A t \in Tx : /\ ProcessTxNotReady /\ fin.tx = t /\ isReady(t)
                   /\ Nonce[t] >= exec.nonce[From[t]]
                   => t \in getTransactions(pool'[From[t]])]_vars
=============================================================================
