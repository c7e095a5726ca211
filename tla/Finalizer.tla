------------------------------ MODULE Finalizer ------------------------------
(***************************************************************************)
(* The finalizer of the sequencer: L2 blocks and batches from the tx-by-tx *)
(* execution to the state database.                                        *)
(*                                                                         *)
(* Three goroutines work on a pipeline of L2 blocks.  finalizeBatches      *)
(* (main) executes transactions into the wip L2 block of the wip batch,    *)
(* closes blocks and batches and goes on from an intermediate state root;  *)
(* processPendingL2Blocks (processor) executes the whole block on the      *)
(* final root of the pip batch; storePendingL2Blocks (storer) writes it to *)
(* the database, closing the sip batch and inserting the next one.  The    *)
(* batches are shared between them by pointer (heap).  A block that fails  *)
(* in the processor causes an L2 block reorg: everything after it is       *)
(* discarded and executed again.                                           *)
(*                                                                         *)
(* A state root is the sequence of what has been executed since the        *)
(* genesis: the identifiers of L2 blocks, and -n for forced batch n.  The  *)
(* worker is a queue of transactions of one sender in nonce order (module  *)
(* Worker has the details), SequentialProcessL2Block is false, and isSynced*)
(* is true.  main.stack holds the labels of the pending function bodies:   *)
(* each label is a stretch of code without waits.                          *)
(***************************************************************************)
EXTENDS Integers, Sequences, SequencesExt, FiniteSets

CONSTANTS MaxBlocks,    \* bound: L2 blocks opened
          NTx,          \* bound: transactions
          MaxForced,    \* bound: forced batches on L1
          MaxErrors,    \* bound: errors of the executor and of the database
          MaxRestarts,  \* bound: restarts of the node
          HaltOnBatchNumber  \* configuration, 0 for none

ASSUME FinalizerAssumption ==
  {MaxBlocks, NTx, MaxForced, MaxErrors, MaxRestarts, HaltOnBatchNumber} \subseteq Nat

VARIABLES
  db,                   \* state.batch: the batches, batch n at index n
  checks,               \* batchSanityCheck calls running in goroutines
  checkFailed,          \* a sanity check has found another root
  heap,                 \* *Batch: the batches in memory
  wipBatch, pipBatch, sipBatch,   \* pointers (indices of heap), or nil
  wipL2Block,
  nextBlock,            \* identifier of the next L2 block
  main, processor, storer,
  toProcess, toStore,   \* pendingL2BlocksToProcess, pendingL2BlocksToStore
  l2BlockReorg, lastL2BlockWasReorg, haltFinalizer,
  ready, pendingToStore,          \* the worker
  l1Forced,             \* forced batches on L1 (final)
  nextForcedBatches, lastForcedBatchNum,
  nextForcedBatchDeadline,        \* TRUE when it is set (not 0)
  panic,                \* the process has crashed
  errors, restarts

batchVars  == <<heap, wipBatch, pipBatch, sipBatch, wipL2Block, nextBlock>>
dbVars     == <<db, checks, checkFailed>>
flags      == <<l2BlockReorg, lastL2BlockWasReorg, haltFinalizer>>
workerVars == <<ready, pendingToStore>>
forcedVars == <<nextForcedBatches, lastForcedBatchNum, nextForcedBatchDeadline>>
pipeline   == <<processor, storer, toProcess, toStore>>
env        == <<l1Forced, restarts>>
vars == <<batchVars, dbVars, flags, workerVars, forcedVars, pipeline, main, panic,
          errors, env>>

-----------------------------------------------------------------------------
nil == 0
NoBlock == [id |-> 0, txs |-> <<>>, batch |-> nil, im |-> <<>>]

\* openNewWIPBatch
newBatch(num, root) ==
  [num |-> num, initial |-> root, im |-> root, final |-> root, count |-> 0]

storedBlock(b) == [id |-> b.id, txs |-> b.txs, im |-> b.im]

Ids(blocks) == [i \in DOMAIN blocks |-> blocks[i].id]

\* Mutant: the number of the last forced batch is not read again.
LastForced_zero(d) == 0

LastForced(d) ==  \* GetLastTrustedForcedBatchNumber
  Max({d[n].forced : n \in DOMAIN d})

StoredBlocks == FlattenSeq([n \in DOMAIN db |-> db[n].blocks])
StoredTxs == FlattenSeq([i \in DOMAIN StoredBlocks |-> StoredBlocks[i].txs])

\* Mutant: Wait of pendingL2BlocksToProcessWG is left out.
NoneToProcess_noWait == TRUE

\* The wait groups at zero.
NoneToProcess == toProcess = <<>> /\ processor.pc = "idle"
NoneToStore == toStore = <<>> /\ storer.pc = "idle"
NonePending == NoneToProcess /\ NoneToStore

\* The label that main runs, and the labels that replace it.
At(label) == ~panic /\ Head(main.stack) = label
jump(m, labels) == [m EXCEPT !.stack = labels \o Tail(@)]
Jump(labels) == main' = jump(main, labels)

\* Mutant: the last batch is taken as the wip batch although it is closed.
initWIPBatch_reopens(d) ==
  LET n == Len(d)
  IN  IF n > 1
      THEN /\ heap' = <<[num |-> n, initial |-> d[n-1].root, im |-> d[n].root,
                         final |-> d[n].root, count |-> Len(d[n].blocks)]>>
           /\ wipBatch' = 1 /\ pipBatch' = 1 /\ sipBatch' = 1
      ELSE /\ heap' = <<newBatch(n + 1, d[n].root)>>
           /\ wipBatch' = 1 /\ pipBatch' = nil /\ sipBatch' = nil

\* setWIPBatch, or openNewWIPBatch after a closed batch, on the database d:
\* what initWIPBatch leaves in memory.
initWIPBatch(d) ==
  LET n == Len(d)
  IN  IF d[n].wip
      THEN /\ heap' = <<[num |-> n, initial |-> d[n-1].root, im |-> d[n].root,
                         final |-> d[n].root, count |-> Len(d[n].blocks)]>>
           /\ wipBatch' = 1 /\ pipBatch' = 1 /\ sipBatch' = 1
      ELSE /\ heap' = <<newBatch(n + 1, d[n].root)>>
           /\ wipBatch' = 1 /\ pipBatch' = nil /\ sipBatch' = nil

Genesis == [wip |-> FALSE, forced |-> 0, root |-> <<>>, blocks |-> <<>>, checked |-> TRUE]

Idle == [pc |-> "idle", block |-> NoBlock, root |-> <<>>]

Init ==
  /\ db = <<Genesis>>
  /\ checks = {} /\ checkFailed = FALSE
  /\ heap = <<newBatch(2, <<>>)>>
  /\ wipBatch = 1 /\ pipBatch = nil /\ sipBatch = nil
  /\ wipL2Block = NoBlock /\ nextBlock = 1
  /\ main = [stack |-> <<"open", "top">>, last |-> 0, root |-> <<>>, forced |-> FALSE]
  /\ processor = Idle /\ storer = Idle
  /\ toProcess = <<>> /\ toStore = <<>>
  /\ l2BlockReorg = FALSE /\ lastL2BlockWasReorg = FALSE /\ haltFinalizer = FALSE
  /\ ready = [i \in 1 .. NTx |-> i] /\ pendingToStore = <<>>
  /\ l1Forced = 0 /\ nextForcedBatches = <<>> /\ lastForcedBatchNum = 0
  /\ nextForcedBatchDeadline = FALSE
  /\ panic = FALSE /\ errors = 0 /\ restarts = 0

Error == errors < MaxErrors /\ errors' = errors + 1

-----------------------------------------------------------------------------
(* finalizeBatches: the loop                                               *)

LoopTop ==
  /\ At("top")
  /\ Jump(IF l2BlockReorg THEN <<"reorg", "block">> ELSE <<"block">>)
  /\ UNCHANGED <<batchVars, dbVars, flags, workerVars, forcedVars, pipeline, panic,
                 errors, env>>

\* finalizeWIPL2Block when the L2 block time is over.
CheckL2BlockTime ==
  /\ At("block")
  /\ \/ Jump(<<"tx">>)
     \/ nextBlock <= MaxBlocks /\ Jump(<<"close", "open", "tx">>)
  /\ UNCHANGED <<batchVars, dbVars, flags, workerVars, forcedVars, pipeline, panic,
                 errors, env>>

\* finalizeWIPBatch: the wip L2 block is closed only if it has transactions.
finalizeWIPBatch ==
  (IF wipL2Block.txs # <<>> THEN <<"close">> ELSE <<>>) \o <<"closeOpen", "openIfNil">>

\* A batch just opened has room for an L2 block and for any transaction.
notFresh == heap[wipBatch].count > 0 \/ wipL2Block.txs # <<>>

\* GetBestFittingTx finds nothing (or processTransaction puts it back).
NoTransaction ==
  /\ At("tx")
  /\ Jump(<<"batch">>)
  /\ UNCHANGED <<batchVars, dbVars, flags, workerVars, forcedVars, pipeline, panic,
                 errors, env>>

NoFittingTransaction ==
  /\ At("tx")
  /\ ready # <<>> /\ notFresh /\ nextBlock <= MaxBlocks
  /\ Jump(finalizeWIPBatch \o <<"top">>)
  /\ UNCHANGED <<batchVars, dbVars, flags, workerVars, forcedVars, pipeline, panic,
                 errors, env>>

ProcessTransaction ==
  /\ At("tx")
  /\ ready # <<>>
  /\ wipL2Block' = [wipL2Block EXCEPT !.txs = Append(@, Head(ready))]
  /\ pendingToStore' = Append(pendingToStore, Head(ready))
  /\ ready' = Tail(ready)
  /\ Jump(<<"batch">>)
  /\ UNCHANGED <<heap, wipBatch, pipBatch, sipBatch, nextBlock, dbVars, flags,
                 forcedVars, pipeline, panic, errors, env>>

\* haltFinalizer, then checkIfFinalizeBatch.
CheckIfFinalizeBatch ==
  /\ At("batch")
  /\ IF haltFinalizer THEN Jump(<<"halt">>)
     ELSE \/ Jump(<<"top">>)
          \/ /\ notFresh \/ nextForcedBatchDeadline
             /\ nextBlock <= MaxBlocks
             /\ Jump(finalizeWIPBatch \o <<"top">>)
  /\ UNCHANGED <<batchVars, dbVars, flags, workerVars, forcedVars, pipeline, panic,
                 errors, env>>

-----------------------------------------------------------------------------
(* L2 blocks                                                               *)

\* closeWIPL2Block up to addPendingL2BlockToProcess; then, when it is time,
\* the synchronisation of the state root.
CloseWIPL2Block ==
  /\ At("close")
  /\ wipL2Block.batch # nil
  /\ NoneToProcess
  /\ heap' = [heap EXCEPT ![wipBatch].count = @ + 1]
  /\ toProcess' = Append(toProcess, wipL2Block)
  /\ \/ wipL2Block' = NoBlock /\ Jump(<<>>)
     \/ UNCHANGED wipL2Block /\ Jump(<<"sync">>)
  /\ UNCHANGED <<wipBatch, pipBatch, sipBatch, nextBlock, dbVars, flags, workerVars,
                 forcedVars, processor, storer, toStore, panic, errors, env>>

\* wipBatch is not sipBatch although every pending block is stored.
sipMismatch == /\ heap[wipBatch].num # heap[sipBatch].num
               /\ ~(l2BlockReorg /\ heap[wipBatch].count <= 2)

SyncStateRoot ==
  /\ At("sync")
  /\ NonePending
  /\ sipBatch # nil
  /\ IF sipMismatch
     THEN /\ Jump(<<"halt">>) /\ haltFinalizer' = TRUE
          /\ UNCHANGED <<heap, wipL2Block>>
     ELSE /\ Jump(<<>>)
          /\ heap' = [heap EXCEPT ![wipBatch].im = heap[wipBatch].final]
          /\ wipL2Block' = NoBlock
          /\ UNCHANGED haltFinalizer
  /\ UNCHANGED <<wipBatch, pipBatch, sipBatch, nextBlock, dbVars, l2BlockReorg,
                 lastL2BlockWasReorg, workerVars, forcedVars, pipeline, panic, errors,
                 env>>

\* The root after the block, or the empty new block, is executed on root.
executeL2Block(root, id) == Append(root, id)
executeNewWIPL2Block(root, id) == Append(root, id)

\* openNewWIPL2Block: the empty block is executed on the intermediate root.
OpenNewWIPL2Block ==
  /\ At("open")
  /\ LET root == executeNewWIPL2Block(heap[wipBatch].im, nextBlock)
     IN  /\ heap' = [heap EXCEPT ![wipBatch].im = root]
         /\ \/ /\ wipL2Block' = [id |-> nextBlock, txs |-> <<>>, batch |-> wipBatch,
                                 im |-> root]
               /\ Jump(<<>>)
            \/ \* it does not fit: ResourceExhaustedClosingReason
               /\ heap[wipBatch].count > 0
               /\ wipL2Block' = [id |-> nextBlock, txs |-> <<>>, batch |-> nil,
                                 im |-> root]
               /\ Jump(<<"closeOpen", "assign">>)
  /\ nextBlock' = nextBlock + 1
  /\ UNCHANGED <<wipBatch, pipBatch, sipBatch, dbVars, flags, workerVars, forcedVars,
                 pipeline, panic, errors, env>>

\* The executor fails on the empty block.
OpenNewWIPL2BlockError ==
  /\ At("open")
  /\ Error
  /\ Jump(<<"halt">>) /\ haltFinalizer' = TRUE
  /\ UNCHANGED <<batchVars, dbVars, l2BlockReorg, lastL2BlockWasReorg, workerVars,
                 forcedVars, pipeline, panic, env>>

\* f.wipL2Block.batch = f.wipBatch, after a new batch for it has been opened.
AssignBatch ==
  /\ At("assign")
  /\ wipL2Block' = [wipL2Block EXCEPT !.batch = wipBatch]
  /\ Jump(<<>>)
  /\ UNCHANGED <<heap, wipBatch, pipBatch, sipBatch, nextBlock, dbVars, flags,
                 workerVars, forcedVars, pipeline, panic, errors, env>>

OpenIfNil ==
  /\ At("openIfNil")
  /\ Jump(IF wipL2Block = NoBlock THEN <<"open">> ELSE <<>>)
  /\ UNCHANGED <<batchVars, dbVars, flags, workerVars, forcedVars, pipeline, panic,
                 errors, env>>

-----------------------------------------------------------------------------
(* Batches                                                                 *)

\* closeAndOpenNewWIPBatch: forced batches, if any, come between the two.
CloseAndOpenNewWIPBatch ==
  /\ At("closeOpen")
  /\ main' = IF nextForcedBatches # <<>>
             THEN [jump(main, <<"close", "forcedWait">>) EXCEPT !.forced = TRUE]
             ELSE [jump(main, <<"closeBatch">>) EXCEPT !.forced = FALSE,
                                                       !.root = heap[wipBatch].im]
  /\ UNCHANGED <<batchVars, dbVars, flags, workerVars, forcedVars, pipeline, panic,
                 errors, env>>

ForcedWaitPendingL2Blocks ==
  /\ At("forcedWait")
  /\ NonePending
  /\ sipBatch # nil
  /\ main' = [jump(main, <<"finalizeSIP", "closeBatch">>) EXCEPT
                !.root = heap[sipBatch].final]
  /\ UNCHANGED <<batchVars, dbVars, flags, workerVars, forcedVars, pipeline, panic,
                 errors, env>>

\* The batch in memory that closeSIPBatch closes and has checked.
checkOf(b) == [num |-> b.num, initial |-> b.initial, final |-> b.final]

closeInDB(d, num) == [d EXCEPT ![num].wip = FALSE]

\* finalizeSIPBatch; closeSIPBatch halts on a batch that is nil or empty.
FinalizeSIPBatch ==
  /\ At("finalizeSIP")
  /\ IF sipBatch = nil \/ heap[sipBatch].count = 0
     THEN Jump(<<"halt">>) /\ haltFinalizer' = TRUE /\ UNCHANGED <<db, checks, sipBatch>>
     ELSE /\ db' = closeInDB(db, heap[sipBatch].num)
          /\ checks' = checks \cup {checkOf(heap[sipBatch])}
          /\ sipBatch' = nil
          /\ Jump(<<>>)
          /\ UNCHANGED haltFinalizer
  /\ UNCHANGED <<heap, wipBatch, pipBatch, wipL2Block, nextBlock, checkFailed,
                 l2BlockReorg, lastL2BlockWasReorg, workerVars, forcedVars, pipeline,
                 panic, errors, env>>

\* The database fails before closeSIPBatch: the reorg is tried again, elsewhere
\* the halt is fatal.  When the commit fails sipBatch is nil and the message of
\* the error follows it.
FinalizeSIPBatchError ==
  /\ At("finalizeSIP")
  /\ sipBatch # nil
  /\ Error
  /\ \/ /\ main.stack[2] = "reorgInit"
        /\ main' = [main EXCEPT !.stack = Tail(Tail(@))]
        /\ UNCHANGED panic
     \/ panic' = TRUE /\ UNCHANGED main
  /\ UNCHANGED <<batchVars, dbVars, flags, workerVars, forcedVars, pipeline, env>>

\* closeWIPBatch, and the configured halt.
CloseWIPBatch ==
  /\ At("closeBatch")
  /\ IF heap[wipBatch].count = 0
     THEN /\ Jump(<<"halt">>) /\ haltFinalizer' = TRUE
          /\ UNCHANGED <<wipBatch, nextForcedBatchDeadline>>
     ELSE LET last == heap[wipBatch].num
              next == IF last + 1 = HaltOnBatchNumber THEN "haltWait"
                      ELSE IF main.forced THEN "forced" ELSE "openBatch"
          IN  /\ main' = [jump(main, <<next>>) EXCEPT !.last = last]
              /\ wipBatch' = nil
              /\ nextForcedBatchDeadline' = (next # "forced" /\ nextForcedBatchDeadline)
              /\ UNCHANGED haltFinalizer
  /\ UNCHANGED <<heap, pipBatch, sipBatch, wipL2Block, nextBlock, dbVars, l2BlockReorg,
                 lastL2BlockWasReorg, workerVars, nextForcedBatches, lastForcedBatchNum,
                 pipeline, panic, errors, env>>

HaltOnBatch ==
  /\ At("haltWait")
  /\ NonePending
  /\ Jump(<<"finalizeSIP", "halt">>)
  /\ UNCHANGED <<batchVars, dbVars, flags, workerVars, forcedVars, pipeline, panic,
                 errors, env>>

\* OpenBatch and OpenWIPBatch accept only the next number, after a closed batch.
openable(d, num) == num = Len(d) + 1 /\ ~d[Len(d)].wip

\* processForcedBatches: the next one, in a transaction of its own; after the
\* last one or an error the new wip batch is opened.
ProcessForcedBatch ==
  /\ At("forced")
  /\ LET todo == SelectSeq(nextForcedBatches, LAMBDA f : f > LastForced(db))
         root == Append(main.root, -Head(todo))
     IN  \/ /\ todo # <<>> /\ openable(db, main.last + 1)
            /\ db' = Append(db, [wip |-> FALSE, forced |-> Head(todo), root |-> root,
                                 blocks |-> <<>>, checked |-> TRUE])
            /\ main' = [main EXCEPT !.last = @ + 1, !.root = root]
            /\ UNCHANGED <<nextForcedBatches, errors>>
         \/ /\ IF todo = <<>> \/ openable(db, main.last + 1) THEN Error
                                                           ELSE UNCHANGED errors
            /\ Jump(<<"openBatch">>)
            /\ UNCHANGED <<db, nextForcedBatches>>
         \/ /\ todo = <<>>
            /\ nextForcedBatches' = <<>>
            /\ Jump(<<"openBatch">>)
            /\ UNCHANGED <<db, errors>>
  /\ UNCHANGED <<batchVars, checks, checkFailed, flags, workerVars, lastForcedBatchNum,
                 nextForcedBatchDeadline, pipeline, panic, env>>

\* openNewWIPBatch; an empty wip L2 block moves to the new batch.
OpenNewWIPBatch ==
  /\ At("openBatch")
  /\ LET ref   == Len(heap) + 1
         new   == newBatch(main.last + 1, main.root)
         reuse == ~main.forced /\ wipL2Block # NoBlock
     IN  /\ heap' = Append(heap, IF reuse THEN [new EXCEPT !.im = wipL2Block.im] ELSE new)
         /\ wipBatch' = ref
         /\ wipL2Block' = IF reuse THEN [wipL2Block EXCEPT !.batch = ref] ELSE wipL2Block
  /\ Jump(IF main.forced THEN <<"open">> ELSE <<>>)
  /\ UNCHANGED <<pipBatch, sipBatch, nextBlock, dbVars, flags, workerVars, forcedVars,
                 pipeline, panic, errors, env>>

-----------------------------------------------------------------------------
(* processL2BlockReorg                                                     *)

ReorgWaitPendingL2Blocks ==
  /\ At("reorg")
  /\ NonePending
  /\ Jump(IF sipBatch # nil /\ heap[sipBatch].num # heap[wipBatch].num
          THEN <<"finalizeSIP", "reorgInit">> ELSE <<"reorgInit">>)
  /\ UNCHANGED <<batchVars, dbVars, flags, workerVars, forcedVars, pipeline, panic,
                 errors, env>>

\* Mutant: the batch is opened on a restart or after a reorg.
haltOnInit_never(d) == FALSE

\* initWIPBatch halts before it opens batch HaltOnBatchNumber.
haltOnInit(d) == ~d[Len(d)].wip /\ Len(d) + 1 = HaltOnBatchNumber

\* Mutant: the transactions are restored after the ready ones.
RestoreTxsPendingToStore_appends ==
  /\ ready' = ready \o pendingToStore
  /\ pendingToStore' = <<>>

\* Mutant: the list is cleared and nothing is restored.
RestoreTxsPendingToStore_cleared ==
  /\ ready' = ready
  /\ pendingToStore' = <<>>

RestoreTxsPendingToStore ==
  /\ ready' = pendingToStore \o ready
  /\ pendingToStore' = <<>>

ReorgInit ==
  /\ At("reorgInit")
  /\ RestoreTxsPendingToStore
  /\ IF haltOnInit(db)
     THEN Jump(<<"halt">>) /\ haltFinalizer' = TRUE
          /\ UNCHANGED <<heap, wipBatch, pipBatch, sipBatch>>
     ELSE Jump(<<"open", "reorgEnd">>) /\ initWIPBatch(db) /\ UNCHANGED haltFinalizer
  /\ UNCHANGED <<wipL2Block, nextBlock, dbVars, l2BlockReorg, lastL2BlockWasReorg,
                 forcedVars, pipeline, panic, errors, env>>

ReorgEnd ==
  /\ At("reorgEnd")
  /\ l2BlockReorg' = FALSE
  /\ Jump(<<>>)
  /\ UNCHANGED <<batchVars, dbVars, lastL2BlockWasReorg, haltFinalizer, workerVars,
                 forcedVars, pipeline, panic, errors, env>>

\* A nil pointer is followed: the wip L2 block in closeWIPL2Block or the batch
\* of that block, the sip batch when it synchronises the root or before forced
\* batches.
MainPanic ==
  /\ \/ At("close") /\ wipL2Block = NoBlock
     \/ At("close") /\ wipL2Block.batch = nil /\ NoneToProcess
     \/ At("sync") /\ NonePending /\ sipBatch = nil
     \/ At("forcedWait") /\ NonePending /\ sipBatch = nil
  /\ panic' = TRUE
  /\ UNCHANGED <<batchVars, dbVars, flags, workerVars, forcedVars, pipeline, main,
                 errors, env>>

-----------------------------------------------------------------------------
(* processPendingL2Blocks                                                  *)

Block == Head(toProcess)

\* Mutant: a discarded block is not counted as done.
discarded_notDone == [Idle EXCEPT !.pc = "halt"]

\* The processor after a discarded block.
discarded == Idle

DiscardL2Block ==
  /\ ~panic /\ toProcess # <<>> /\ processor.pc = "idle"
  /\ l2BlockReorg
  /\ toProcess' = Tail(toProcess)
  /\ processor' = discarded
  /\ UNCHANGED <<batchVars, dbVars, flags, workerVars, forcedVars, storer, toStore,
                 main, panic, errors, env>>

\* Mutant: the first block of a batch keeps the root the batch was opened with.
propagate_dropped(h, b) == h

\* The first block of the next batch b: it goes on from the pip batch.
propagate(h, b) ==
  IF pipBatch # nil /\ h[pipBatch].num # h[b].num
  THEN [h EXCEPT ![b].initial = h[pipBatch].final, ![b].final = h[pipBatch].final]
  ELSE h

pipBatchFor(b) ==
  IF pipBatch = nil \/ heap[pipBatch].num # heap[b].num THEN b ELSE pipBatch

ProcessL2Block ==
  /\ ~panic /\ toProcess # <<>> /\ processor.pc = "idle"
  /\ ~l2BlockReorg
  /\ LET b == Block.batch
         h == propagate(heap, b)
         root == executeL2Block(h[pipBatchFor(b)].final, Block.id)
     IN  /\ heap' = [h EXCEPT ![b].final = root]
         /\ pipBatch' = pipBatchFor(b)
         /\ processor' = [pc |-> "wait", block |-> Block, root |-> root]
  /\ toProcess' = Tail(toProcess)
  /\ UNCHANGED <<wipBatch, sipBatch, wipL2Block, nextBlock, dbVars, flags, workerVars,
                 forcedVars, storer, toStore, main, panic, errors, env>>

\* The execution fails or the block does not fit: reorg, or halt if the one
\* before failed too.
ProcessL2BlockError ==
  /\ ~panic /\ toProcess # <<>> /\ processor.pc = "idle"
  /\ ~l2BlockReorg
  /\ Error
  /\ heap' = propagate(heap, Block.batch)
  /\ pipBatch' = pipBatchFor(Block.batch)
  /\ toProcess' = Tail(toProcess)
  /\ IF lastL2BlockWasReorg
     THEN /\ haltFinalizer' = TRUE
          /\ processor' = [Idle EXCEPT !.pc = "halt"]
          /\ UNCHANGED <<l2BlockReorg, lastL2BlockWasReorg>>
     ELSE /\ l2BlockReorg' = TRUE /\ lastL2BlockWasReorg' = TRUE
          /\ UNCHANGED <<haltFinalizer, processor>>
  /\ UNCHANGED <<wipBatch, sipBatch, wipL2Block, nextBlock, dbVars, workerVars,
                 forcedVars, storer, toStore, main, panic, env>>

\* The previous block is stored: addPendingL2BlockToStore.
AddPendingL2BlockToStore ==
  /\ ~panic /\ processor.pc = "wait"
  /\ NoneToStore
  /\ toStore' = <<[block |-> processor.block, root |-> processor.root]>>
  /\ processor' = Idle
  /\ lastL2BlockWasReorg' = FALSE
  /\ UNCHANGED <<batchVars, dbVars, l2BlockReorg, haltFinalizer, workerVars, forcedVars,
                 storer, toProcess, main, panic, errors, env>>

-----------------------------------------------------------------------------
(* storePendingL2Blocks                                                    *)

\* storeL2Block up to the wait for the flush id (module FlushID).
TakeL2BlockToStore ==
  /\ ~panic /\ toStore # <<>> /\ storer.pc = "idle"
  /\ wipBatch # nil
  /\ storer' = [pc |-> "store", block |-> Head(toStore).block, root |-> Head(toStore).root]
  /\ toStore' = Tail(toStore)
  /\ UNCHANGED <<batchVars, dbVars, flags, workerVars, forcedVars, processor, toProcess,
                 main, panic, errors, env>>

\* f.wipBatch.batchNumber, read for the blob gas, while main is between
\* closeWIPBatch and openNewWIPBatch.
StorerPanic ==
  /\ ~panic /\ toStore # <<>> /\ storer.pc = "idle"
  /\ wipBatch = nil
  /\ panic' = TRUE
  /\ UNCHANGED <<batchVars, dbVars, flags, workerVars, forcedVars, pipeline, main,
                 errors, env>>

storerBatch == heap[storer.block.batch]

\* The block is of another batch than the sip batch.
changesBatch == sipBatch = nil \/ heap[sipBatch].num # storerBatch.num

\* The database once the sip batch is closed (closeSIPBatch).
closedDB == IF changesBatch /\ sipBatch # nil THEN closeInDB(db, heap[sipBatch].num)
                                              ELSE db

storable == ~changesBatch \/ openable(closedDB, storerBatch.num)

\* The transaction: close the sip batch, insert the new one, store the block.
StoreL2Block ==
  /\ ~panic /\ storer.pc = "store"
  /\ storable
  /\ LET new == [wip |-> TRUE, forced |-> 0, root |-> storerBatch.initial,
                 blocks |-> <<>>, checked |-> FALSE]
         d   == IF changesBatch THEN Append(closedDB, new) ELSE db
         n   == storerBatch.num
     IN  db' = [d EXCEPT ![n].root = storer.root,
                         ![n].blocks = Append(@, storedBlock(storer.block))]
  /\ checks' = IF changesBatch /\ sipBatch # nil
               THEN checks \cup {checkOf(heap[sipBatch])} ELSE checks
  /\ sipBatch' = IF changesBatch THEN storer.block.batch ELSE sipBatch
  /\ storer' = [storer EXCEPT !.pc = "stored"]
  /\ UNCHANGED <<heap, wipBatch, pipBatch, wipL2Block, nextBlock, checkFailed, flags,
                 workerVars, forcedVars, processor, toProcess, toStore, main, panic,
                 errors, env>>

\* An error of the database is fatal.
StoreL2BlockError ==
  /\ ~panic /\ storer.pc = "store"
  /\ IF storable THEN Error ELSE UNCHANGED errors
  /\ panic' = TRUE
  /\ UNCHANGED <<batchVars, dbVars, flags, workerVars, forcedVars, pipeline, main, env>>

\* After the commit: DeleteTxPendingToStore.
EndStoreL2Block ==
  /\ ~panic /\ storer.pc = "stored"
  /\ pendingToStore' =
       SelectSeq(pendingToStore, LAMBDA t : t \notin ToSet(storer.block.txs))
  /\ storer' = Idle
  /\ UNCHANGED <<batchVars, dbVars, flags, ready, forcedVars, processor, toProcess,
                 toStore, main, panic, errors, env>>

-----------------------------------------------------------------------------
(* Sanity checks, forced batches, restarts                                 *)

\* Executing batch n of d from the root initial.
reprocess(d, n, initial) == initial \o Ids(d[n].blocks)

BatchSanityCheck ==
  /\ ~panic
  /\ \E c \in checks :
       /\ checks' = checks \ {c}
       /\ IF reprocess(db, c.num, c.initial) = c.final
          THEN /\ db' = [db EXCEPT ![c.num].checked = TRUE]
               /\ UNCHANGED <<checkFailed, haltFinalizer>>
          ELSE checkFailed' = TRUE /\ haltFinalizer' = TRUE /\ UNCHANGED db
  /\ UNCHANGED <<batchVars, l2BlockReorg, lastL2BlockWasReorg, workerVars, forcedVars,
                 pipeline, main, panic, errors, env>>

\* A forced batch becomes final on L1.
ForceBatch ==
  /\ l1Forced < MaxForced
  /\ l1Forced' = l1Forced + 1
  /\ UNCHANGED <<batchVars, dbVars, flags, workerVars, forcedVars, pipeline, main, panic,
                 errors, restarts>>

\* checkForcedBatches; processForcedBatches holds nextForcedBatchesMux.
CheckForcedBatches ==
  LET from == IF lastForcedBatchNum = 0 THEN LastForced(db) ELSE lastForcedBatchNum
  IN  /\ ~panic /\ from < l1Forced
      /\ ~At("forced")
      /\ nextForcedBatches' = Append(nextForcedBatches, from + 1)
      /\ lastForcedBatchNum' = from + 1
      /\ nextForcedBatchDeadline' = TRUE
      /\ UNCHANGED <<batchVars, dbVars, flags, workerVars, pipeline, main, panic, errors,
                     env>>

\* GetNotCheckedBatches; forced batches are stored as checked.
unchecked(d) == {n \in 2 .. Len(d) : ~d[n].wip /\ ~d[n].checked}

\* The root that processBatchesPendingtoCheck executes batch n from: the one of
\* the batch it has checked before.
oldStateRoot(d, n) ==
  LET before == {m \in unchecked(d) : m < n}
  IN  d[IF before = {} THEN n - 1 ELSE Max(before)].root

startCheckPasses(d, n) == reprocess(d, n, oldStateRoot(d, n)) = d[n].root

\* The node stops (or has crashed) and starts again: newFinalizer, then Start,
\* which halts at the first batch whose check fails.
Restart ==
  /\ restarts < MaxRestarts
  /\ restarts' = restarts + 1
  /\ LET good == {n \in unchecked(db) :
                   \A m \in unchecked(db) : m <= n => startCheckPasses(db, m)}
         up   == good = unchecked(db) /\ ~haltOnInit(db)
     IN  /\ db' = [n \in DOMAIN db |-> IF n \in good
                                       THEN [db[n] EXCEPT !.checked = TRUE] ELSE db[n]]
         /\ haltFinalizer' = ~up
         /\ main' = [stack |-> IF up THEN <<"open", "top">> ELSE <<"halt">>,
                     last |-> 0, root |-> <<>>, forced |-> FALSE]
  /\ initWIPBatch(db)
  /\ wipL2Block' = NoBlock
  /\ processor' = Idle /\ storer' = Idle
  /\ toProcess' = <<>> /\ toStore' = <<>> /\ checks' = {}
  /\ l2BlockReorg' = FALSE /\ lastL2BlockWasReorg' = FALSE
  /\ ready' = SelectSeq([i \in 1 .. NTx |-> i], LAMBDA t : t \notin ToSet(StoredTxs))
  /\ pendingToStore' = <<>>
  /\ nextForcedBatches' = <<>> /\ lastForcedBatchNum' = 0
  /\ nextForcedBatchDeadline' = FALSE
  /\ panic' = FALSE
  /\ UNCHANGED <<nextBlock, checkFailed, errors, l1Forced>>

-----------------------------------------------------------------------------
Main ==
  \/ LoopTop \/ CheckL2BlockTime \/ NoTransaction \/ NoFittingTransaction
  \/ ProcessTransaction \/ CheckIfFinalizeBatch \/ CloseWIPL2Block \/ SyncStateRoot
  \/ OpenNewWIPL2Block \/ OpenNewWIPL2BlockError \/ AssignBatch \/ OpenIfNil
  \/ CloseAndOpenNewWIPBatch \/ ForcedWaitPendingL2Blocks \/ FinalizeSIPBatch
  \/ FinalizeSIPBatchError \/ CloseWIPBatch \/ HaltOnBatch \/ ProcessForcedBatch
  \/ OpenNewWIPBatch \/ ReorgWaitPendingL2Blocks \/ ReorgInit \/ ReorgEnd \/ MainPanic

Processor == \/ DiscardL2Block \/ ProcessL2Block \/ ProcessL2BlockError
             \/ AddPendingL2BlockToStore

Storer == \/ TakeL2BlockToStore \/ StorerPanic \/ StoreL2Block \/ StoreL2BlockError
          \/ EndStoreL2Block

Next == \/ Main \/ Processor \/ Storer \/ BatchSanityCheck
        \/ ForceBatch \/ CheckForcedBatches \/ Restart

Spec == Init /\ [][Next]_vars

\* The goroutines keep running; the block timer keeps firing.
Fairness == /\ WF_vars(Main) /\ WF_vars(Processor) /\ WF_vars(Storer)
FairSpec == Spec /\ Fairness

-----------------------------------------------------------------------------
(* Properties                                                              *)

Root == Seq(Int)
BlockType == [id : Nat, txs : Seq(1 .. NTx), batch : Nat, im : Root]

TypeOK ==
  /\ \A n \in DOMAIN db :
       db[n] \in [wip : BOOLEAN, forced : Nat, root : Root, checked : BOOLEAN,
                  blocks : Seq([id : Nat, txs : Seq(1 .. NTx), im : Root])]
  /\ \A c \in checks : c \in [num : DOMAIN db, initial : Root, final : Root]
  /\ heap \in Seq([num : Nat, initial : Root, im : Root, final : Root, count : Nat])
  /\ {wipBatch, pipBatch, sipBatch} \subseteq 0 .. Len(heap)
  /\ wipL2Block \in BlockType
  /\ nextBlock \in Nat
  /\ \A p \in {processor, storer} :
       /\ p.pc \in {"idle", "wait", "halt", "store", "stored"}
       /\ p.block \in BlockType /\ p.root \in Root
  /\ toProcess \in Seq(BlockType) /\ Len(toProcess) <= 1
  /\ Len(toStore) <= 1
  /\ {l2BlockReorg, lastL2BlockWasReorg, haltFinalizer, nextForcedBatchDeadline,
      panic, checkFailed} \subseteq BOOLEAN
  /\ ready \in Seq(1 .. NTx) /\ pendingToStore \in Seq(1 .. NTx)
  /\ nextForcedBatches \in Seq(1 .. MaxForced)
  /\ main.stack \in Seq(STRING) /\ main.root \in Root

(***************************************************************************)
(* The batches in the database form a chain: each starts from the root of  *)
(* the one before it, and its root is the result of executing its blocks   *)
(* on that root, through reorgs and restarts (processL2Block, "propagate   *)
(* finalStateRoot to the new batch").                                      *)
(***************************************************************************)
RootChain ==
  \A n \in 2 .. Len(db) :
    db[n].root = IF db[n].forced # 0 THEN Append(db[n-1].root, -db[n].forced)
                                     ELSE reprocess(db, n, db[n-1].root)

(***************************************************************************)
(* Every transaction is stored at most once and in nonce order, whatever   *)
(* blocks were discarded and executed again on the way.                    *)
(***************************************************************************)
TxsStoredOnceInOrder == StoredTxs = [i \in 1 .. Len(StoredTxs) |-> i]

(***************************************************************************)
(* No transaction is lost by a reorg: it is in the worker, in a block that *)
(* is not yet stored, or in the database.                                  *)
(***************************************************************************)
NoTxLost ==
  \A t \in 1 .. NTx :
    t \in ToSet(ready) \cup ToSet(pendingToStore) \cup ToSet(StoredTxs)

(***************************************************************************)
(* The sanity check that reprocesses every batch when it is closed, and    *)
(* that halts the node when it gets another root, never does.              *)
(***************************************************************************)
SanityChecksPass == ~checkFailed

(***************************************************************************)
(* The same as long as L1 has forced no batch, with an error of the        *)
(* executor and a restart at any point (processL2Block, initWIPBatch,      *)
(* batchSanityCheck).                                                      *)
(***************************************************************************)
SanityChecksPassUntilForced == l1Forced = 0 => SanityChecksPass

(***************************************************************************)
(* Nor does the check of the batches that were not checked when the node   *)
(* stopped: "processBatchesPendingtoCheck performs a sanity check for      *)
(* batches closed but pending to be checked".                              *)
(***************************************************************************)
StartChecksPass == \A n \in unchecked(db) : startCheckPasses(db, n)

(***************************************************************************)
(* HaltOnBatchNumber is "the batch number where the Sequencer will stop to *)
(* process more transactions and generate new batches": main halts when it *)
(* would open that batch, so neither it nor a later one ever enters the    *)
(* database, also after reorgs and restarts, as long as L1 forces none     *)
(* (processForcedBatches does not look at the number).                     *)
(***************************************************************************)
NoBatchAfterHalt ==
  HaltOnBatchNumber > 1 /\ l1Forced = 0 => Len(db) < HaltOnBatchNumber

(***************************************************************************)
(* A batch that is closed in the database never changes again, except for  *)
(* its checked flag.                                                       *)
(***************************************************************************)
ClosedBatchesAreFinal ==
  [][\A n \in DOMAIN db :
       ~db[n].wip => /\ n \in DOMAIN db'
                     /\ ~db'[n].wip
                     /\ db'[n].blocks = db[n].blocks
                     /\ db'[n].root = db[n].root]_vars

(***************************************************************************)
(* Forced batches enter the chain once each and in order, through errors   *)
(* of processForcedBatch, reorgs and restarts.                             *)
(***************************************************************************)
ForcedBatchesInOrder ==
  LET forced == SelectSeq([n \in DOMAIN db |-> db[n].forced], LAMBDA f : f # 0)
  IN  forced = [i \in 1 .. Len(forced) |-> i]

(***************************************************************************)
(* An L2 block reorg comes to its end: the pipeline drains, the batch is   *)
(* set up again and the flag is reset, unless the finalizer halts or the   *)
(* process crashes (processL2BlockReorg).                                  *)
(***************************************************************************)
ReorgCompletes == l2BlockReorg ~> (~l2BlockReorg \/ haltFinalizer \/ panic)

(***************************************************************************)
(* closeWIPL2Block always finds a wip L2 block to close: finalizeWIPBatch  *)
(* keeps it "to store it in the new wip batch" or opens a new one.         *)
(***************************************************************************)
CloseFindsL2Block == At("close") => wipL2Block # NoBlock

(***************************************************************************)
(* The storer always finds the wip batch whose number it reads ("After     *)
(* will close them f.wipBatch will be nil, therefore we store in local     *)
(* variables the info we need").                                           *)
(***************************************************************************)
StorerFindsWIPBatch == toStore # <<>> /\ storer.pc = "idle" => wipBatch # nil

(***************************************************************************)
(* When it synchronises the state root, the finalizer finds the sip batch  *)
(* equal to the wip batch, or a reorg of its first block: it does not halt.*)
(***************************************************************************)
StateRootSyncNeverHalts == At("sync") /\ NonePending /\ sipBatch # nil => ~sipMismatch

(***************************************************************************)
(* "If the sip batch is the previous to the current wip batch and it's     *)
(* still open these means that the L2 block that caused the reorg is the   *)
(* first L2 block of the wip batch": pipBatch is the batch of the block    *)
(* that failed.                                                            *)
(***************************************************************************)
ReorgClosesFinishedBatch ==
  At("finalizeSIP") /\ l2BlockReorg /\ sipBatch # nil => pipBatch = wipBatch

(***************************************************************************)
(* "The Sequencer will halt after it closes the batch equal to this        *)
(* number": HaltOnBatchNumber is closed when the finalizer has halted.     *)
(***************************************************************************)
HaltsAfterClosingBatch ==
  At("halt") => HaltOnBatchNumber \in DOMAIN db /\ ~db[HaltOnBatchNumber].wip
=============================================================================
