------------------------------- MODULE FlushID -------------------------------
(***************************************************************************)
(* Flush identifiers: how the finalizer knows that the executor (hashdb)   *)
(* has made the state of an L2 block durable before it stores that block.  *)
(*                                                                         *)
(* Every execution that updates the Merkle tree gets a FlushID from the    *)
(* executor, and the executor reports as StoredFlushID the last one it has *)
(* written.  Four goroutines of the finalizer take part: finalizeBatches   *)
(* (main), processPendingL2Blocks (processor), storePendingL2Blocks        *)
(* (storer) and updateProverIdAndFlushId (updater).                        *)
(*                                                                         *)
(* A sync.Cond wait is two steps, the test of the condition and the        *)
(* registration of the waiter, wherever the signaller does not hold the    *)
(* lock (pendingFlushIDCond).  Both signallers of storedFlushIDCond hold   *)
(* its lock, so a wait on it is a guard.                                   *)
(***************************************************************************)
EXTENDS Integers, FiniteSets

CONSTANTS MaxBlocks,   \* bound: L2 blocks and forced batches executed
          MaxOther,    \* bound: tree updates asked for by other clients
          MaxRestarts  \* bound: restarts of the executor

ASSUME FlushAssumption == /\ MaxBlocks \in Nat
                          /\ MaxOther \in Nat
                          /\ MaxRestarts \in Nat

VARIABLES
  \* the executor (external)
  epoch,               \* its run, which proverID identifies
  lastFlushID,         \* last FlushID given in this run
  durable,             \* per run, the last FlushID written to the database
  other,               \* tree updates asked for by other clients so far
  \* the finalizer
  storedFlushID, lastPendingFlushID,
  updater,             \* [pc, got]: updateProverIdAndFlushId
  processor,           \* [pc, block]: processPendingL2Blocks
  storer,              \* [pc, block]: storePendingL2Blocks
  main,                \* [pc, block]: finalizeBatches
  blocks,              \* L2 blocks and forced batches executed so far
  toProcess,           \* blocks in the channel pendingL2BlocksToProcess
  toStore,             \* blocks in the channel pendingL2BlocksToStore
  db                   \* L2 blocks committed to the state database

executor == <<epoch, lastFlushID, durable, other>>
flushIDs == <<storedFlushID, lastPendingFlushID>>
channels == <<blocks, toProcess, toStore>>
vars == <<executor, flushIDs, updater, processor, storer, main, channels, db>>

-----------------------------------------------------------------------------
Epoch == 0 .. MaxRestarts

\* What an execution answers: its FlushID, the StoredFlushID of that moment,
\* and the run of the executor it was executed in.
Response == [flushID : Nat, stored : Nat, epoch : Epoch]

NoBlock == [flushID |-> 0, stored |-> 0, epoch |-> 0]

TypeOK ==
  /\ epoch \in Epoch
  /\ lastFlushID \in Nat
  /\ durable \in [Epoch -> Nat]
  /\ other \in Nat
  /\ storedFlushID \in Nat
  /\ lastPendingFlushID \in Nat
  /\ updater \in [pc : {"check", "toWait", "waiting", "poll", "got"}, got : Nat,
                  prover : Nat]
  /\ processor \in [pc : {"idle", "pending", "stored", "wait"}, block : Response]
  /\ storer \in [pc : {"idle", "flush"}, block : Response]
  /\ main \in [pc : {"run", "waitPending", "pending", "stored", "flush"},
               block : Response]
  /\ blocks \in Nat
  /\ toProcess \in 0 .. 1
  /\ toStore \in SUBSET Response
  /\ db \in SUBSET Response

Init ==
  /\ epoch = 0
  /\ lastFlushID = 0
  /\ durable = [e \in Epoch |-> 0]
  /\ other = 0
  /\ storedFlushID = 0
  /\ lastPendingFlushID = 0
  /\ updater = [pc |-> "check", got |-> 0, prover |-> 0]
  /\ processor = [pc |-> "idle", block |-> NoBlock]
  /\ storer = [pc |-> "idle", block |-> NoBlock]
  /\ main = [pc |-> "run", block |-> NoBlock]
  /\ blocks = 0
  /\ toProcess = 0
  /\ toStore = {}
  /\ db = {}

\* pendingL2BlocksToProcessWG and pendingL2BlocksToStoreWG at zero.
NoneToProcess == toProcess = 0 /\ processor.pc = "idle"
NoneToStore == toStore = {} /\ storer.pc = "idle"

-----------------------------------------------------------------------------
(* The executor                                                            *)

\* The answer to the next execution that updates the tree.
response == [flushID |-> lastFlushID + 1, stored |-> durable[epoch],
             epoch |-> epoch]

Flush ==
  /\ \E n \in durable[epoch] + 1 .. lastFlushID :
       durable' = [durable EXCEPT ![epoch] = n]
  /\ UNCHANGED <<epoch, lastFlushID, other, flushIDs, updater, processor, storer,
                 main, channels, db>>

OtherUpdate ==
  /\ other < MaxOther
  /\ other' = other + 1
  /\ lastFlushID' = lastFlushID + 1
  /\ UNCHANGED <<epoch, durable, flushIDs, updater, processor, storer, main,
                 channels, db>>

ExecutorRestart ==
  /\ epoch < MaxRestarts
  /\ epoch' = epoch + 1
  /\ lastFlushID' = 0
  /\ UNCHANGED <<durable, other, flushIDs, updater, processor, storer, main,
                 channels, db>>

-----------------------------------------------------------------------------
(* updateFlushIDs, in two steps: pendingFlushIDCond is signalled without   *)
(* its lock, so an updater that is about to wait does not hear it.          *)

\* Mutant: the pending flush id is not recorded.
updatePending_dropped(r) ==
  UNCHANGED <<lastPendingFlushID, updater>>

updatePending(r) ==
  IF r.flushID > lastPendingFlushID
  THEN /\ lastPendingFlushID' = r.flushID
       /\ updater' = IF updater.pc = "waiting" THEN [updater EXCEPT !.pc = "check"]
                                               ELSE updater
  ELSE UNCHANGED <<lastPendingFlushID, updater>>

\* Mutant: the pending flush id is taken for the stored one.
updateStored_pending(r) ==
  storedFlushID' = IF r.flushID > storedFlushID THEN r.flushID ELSE storedFlushID

updateStored(r) ==
  storedFlushID' = IF r.stored > storedFlushID THEN r.stored ELSE storedFlushID

-----------------------------------------------------------------------------
(* finalizeBatches                                                         *)

\* closeWIPL2Block, then possibly the wait that synchronises the state root.
CloseWIPL2Block ==
  /\ main.pc = "run"
  /\ NoneToProcess
  /\ blocks < MaxBlocks
  /\ blocks' = blocks + 1
  /\ toProcess' = toProcess + 1
  /\ \E pc \in {"run", "waitPending"} : main' = [main EXCEPT !.pc = pc]
  /\ UNCHANGED <<executor, flushIDs, updater, processor, storer, toStore, db>>

\* waitPendingL2Blocks ends; the forced batches, if any, come next.
EndWaitPendingL2Blocks ==
  /\ main.pc = "waitPending"
  /\ NoneToProcess
  /\ NoneToStore
  /\ main' = [main EXCEPT !.pc = "run"]
  /\ UNCHANGED <<executor, flushIDs, updater, processor, storer, channels, db>>

ProcessForcedBatch ==
  /\ main.pc = "waitPending"
  /\ NoneToProcess
  /\ NoneToStore
  /\ blocks < MaxBlocks
  /\ blocks' = blocks + 1
  /\ main' = [pc |-> "pending", block |-> response]
  /\ lastFlushID' = lastFlushID + 1
  /\ UNCHANGED <<epoch, durable, other, flushIDs, updater, processor, storer,
                 toProcess, toStore, db>>

MainUpdatePending ==
  /\ main.pc = "pending"
  /\ updatePending(main.block)
  /\ main' = [main EXCEPT !.pc = "stored"]
  /\ UNCHANGED <<executor, storedFlushID, processor, storer, channels, db>>

MainUpdateStored ==
  /\ main.pc = "stored"
  /\ updateStored(main.block)
  /\ main' = [main EXCEPT !.pc = "flush"]
  /\ UNCHANGED <<executor, lastPendingFlushID, updater, processor, storer,
                 channels, db>>

StoreForcedBatch ==
  /\ main.pc = "flush"
  /\ storedFlushID >= main.block.flushID
  /\ db' = db \cup {main.block}
  /\ main' = [pc |-> "run", block |-> NoBlock]
  /\ UNCHANGED <<executor, flushIDs, updater, processor, storer, channels>>

-----------------------------------------------------------------------------
(* processPendingL2Blocks                                                  *)

ProcessL2Block ==
  /\ toProcess = 1
  /\ processor.pc = "idle"
  /\ toProcess' = 0
  /\ processor' = [pc |-> "pending", block |-> response]
  /\ lastFlushID' = lastFlushID + 1
  /\ UNCHANGED <<epoch, durable, other, flushIDs, updater, storer, main, blocks,
                 toStore, db>>

\* The execution fails, or the executed block does not fit in the batch: it is
\* discarded and its flush id is not recorded (see Finalizer for the reorg).
ProcessL2BlockError ==
  /\ toProcess = 1
  /\ processor.pc = "idle"
  /\ toProcess' = 0
  /\ lastFlushID' \in {lastFlushID, lastFlushID + 1}
  /\ UNCHANGED <<epoch, durable, other, flushIDs, updater, processor, storer, main,
                 blocks, toStore, db>>

ProcessorUpdatePending ==
  /\ processor.pc = "pending"
  /\ updatePending(processor.block)
  /\ processor' = [processor EXCEPT !.pc = "stored"]
  /\ UNCHANGED <<executor, storedFlushID, storer, main, channels, db>>

ProcessorUpdateStored ==
  /\ processor.pc = "stored"
  /\ updateStored(processor.block)
  /\ processor' = [processor EXCEPT !.pc = "wait"]
  /\ UNCHANGED <<executor, lastPendingFlushID, updater, storer, main, channels, db>>

\* The previous block is stored: addPendingL2BlockToStore.
AddPendingL2BlockToStore ==
  /\ processor.pc = "wait"
  /\ NoneToStore
  /\ toStore' = {processor.block}
  /\ processor' = [pc |-> "idle", block |-> NoBlock]
  /\ UNCHANGED <<executor, flushIDs, updater, storer, main, blocks, toProcess, db>>

-----------------------------------------------------------------------------
(* storePendingL2Blocks                                                    *)

TakeL2BlockToStore ==
  /\ storer.pc = "idle"
  /\ \E b \in toStore : /\ storer' = [pc |-> "flush", block |-> b]
                        /\ toStore' = toStore \ {b}
  /\ UNCHANGED <<executor, flushIDs, updater, processor, main, blocks, toProcess, db>>

\* Mutant: the storer does not wait for the flush.
flushed_always(b) == TRUE

\* The condition of the storer's wait on storedFlushIDCond.
flushed(b) == storedFlushID >= b.flushID

StoreL2Block ==
  /\ storer.pc = "flush"
  /\ flushed(storer.block)
  /\ db' = db \cup {storer.block}
  /\ storer' = [pc |-> "idle", block |-> NoBlock]
  /\ UNCHANGED <<executor, flushIDs, updater, processor, main, channels>>

-----------------------------------------------------------------------------
(* updateProverIdAndFlushId                                                *)

\* Tests the loop condition, before the waiter is registered.
UpdaterCheck ==
  /\ updater.pc = "check"
  /\ updater' = [updater EXCEPT
                   !.pc = IF storedFlushID >= lastPendingFlushID THEN "toWait"
                                                                 ELSE "poll"]
  /\ UNCHANGED <<executor, flushIDs, processor, storer, main, channels, db>>

UpdaterWait ==
  /\ updater.pc = "toWait"
  /\ updater' = [updater EXCEPT !.pc = "waiting"]
  /\ UNCHANGED <<executor, flushIDs, processor, storer, main, channels, db>>

\* GetStoredFlushID; an error only repeats the poll.
UpdaterPoll ==
  /\ updater.pc = "poll"
  /\ updater' = IF storedFlushID < lastPendingFlushID
                THEN [pc |-> "got", got |-> durable[epoch], prover |-> epoch + 1]
                ELSE [updater EXCEPT !.pc = "check"]
  /\ UNCHANGED <<executor, flushIDs, processor, storer, main, channels, db>>

\* f.proverID: empty (0) from newFinalizer on, nothing ever assigns it.
proverID == 0

checkIfProverRestarted(id) == proverID # 0 /\ proverID # id

\* Mutant: the loop ends after the first answer of the executor.
afterPoll_once(stored) == "toWait"

\* Where the updater goes once storedFlushID is stored.
afterPoll(stored) == IF stored >= lastPendingFlushID THEN "check" ELSE "poll"

UpdaterSet ==
  /\ updater.pc = "got"
  /\ ~checkIfProverRestarted(updater.prover)
  /\ storedFlushID' = updater.got
  /\ updater' = [updater EXCEPT !.pc = IF updater.got # storedFlushID
                                       THEN afterPoll(updater.got)
                                       ELSE "poll"]
  /\ UNCHANGED <<executor, lastPendingFlushID, processor, storer, main, channels, db>>

-----------------------------------------------------------------------------
Updater == UpdaterCheck \/ UpdaterWait \/ UpdaterPoll \/ UpdaterSet

Processor == \/ ProcessL2Block \/ ProcessL2BlockError
             \/ ProcessorUpdatePending \/ ProcessorUpdateStored
             \/ AddPendingL2BlockToStore

Storer == TakeL2BlockToStore \/ StoreL2Block

MainProgress == \/ EndWaitPendingL2Blocks \/ ProcessForcedBatch
                \/ MainUpdatePending \/ MainUpdateStored \/ StoreForcedBatch

Executor == Flush \/ OtherUpdate \/ ExecutorRestart

Next == Updater \/ Processor \/ Storer \/ CloseWIPL2Block \/ MainProgress \/ Executor

Spec == Init /\ [][Next]_vars

\* Every goroutine keeps running and the executor keeps flushing.
Fairness == /\ WF_vars(Updater) /\ WF_vars(Processor) /\ WF_vars(Storer)
            /\ WF_vars(MainProgress) /\ WF_vars(Flush)

FairSpec == Spec /\ Fairness
-----------------------------------------------------------------------------
(* Properties                                                              *)

\* The executor has written the state of the block.
Persisted(b) == b.flushID <= durable[b.epoch]

(***************************************************************************)
(* An L2 block is in the state database only if the executor has made its  *)
(* state durable: storeL2Block waits "until L2 block has been              *)
(* flushed/stored by the executor".                                        *)
(***************************************************************************)
FlushedBeforeStored == \A b \in db : Persisted(b)

(***************************************************************************)
(* The same until the first restart of the executor, whatever the order in *)
(* which the answers of GetStoredFlushID (which may be old when they are   *)
(* written) and of the executions reach storedFlushID.                     *)
(***************************************************************************)
FlushedUntilRestart == epoch = 0 => FlushedBeforeStored

(***************************************************************************)
(* While updateProverIdAndFlushId polls the executor it does not stop      *)
(* before the block that storeL2Block waits for is stored, even when an    *)
(* old answer makes storedFlushID go back, unless the executor restarts.   *)
(***************************************************************************)
PollingReachesStore ==
  (updater.pc \in {"poll", "got"} /\ storer.pc = "flush")
    ~> (storer.pc = "idle" \/ epoch > 0)

(***************************************************************************)
(* A wait in waitPendingL2Blocks (state root synchronisation, reorg,       *)
(* forced batches) ends: updateFlushIDs signals pendingFlushIDCond "to     *)
(* notify other go funcs that the values have changed".                    *)
(***************************************************************************)
WaitPendingL2BlocksEnds == (main.pc = "waitPending") ~> (main.pc # "waitPending")
=============================================================================
