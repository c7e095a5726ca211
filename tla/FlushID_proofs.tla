---------------------------- MODULE FlushID_proofs ----------------------------
(***************************************************************************)
(* For any number of blocks, of other clients' updates and of executor     *)
(* restarts: no L2 block is stored before the executor has flushed it, as  *)
(* long as the executor has not restarted.                                 *)
(*                                                                         *)
(* The property is not inductive: it needs that every number that may      *)
(* still be written to storedFlushID (the answer the updater holds, the    *)
(* StoredFlushID of an answer being handled) is one that the executor has  *)
(* already reached.                                                        *)
(***************************************************************************)
EXTENDS FlushID, TLAPS

\* A leaf may take the SMT solver up to 30 seconds.
USE SMTT(30)

\* A response of the first run whose StoredFlushID the executor has reached.
Sound(r) == r.epoch = 0 /\ r.stored <= durable[0]

FlushInv ==
  /\ storedFlushID <= durable[0]
  /\ updater.got <= durable[0]
  /\ Sound(processor.block) /\ Sound(main.block) /\ Sound(storer.block)
  /\ \A b \in toStore : Sound(b)
  /\ \A b \in db : b.epoch = 0 /\ b.flushID <= durable[0]

IInv == TypeOK /\ (epoch = 0 => FlushInv)

(* Zero is a run of the executor, whatever the bound on restarts.          *)
LEMMA ZeroEpoch == 0 \in Epoch
BY FlushAssumption DEF Epoch

(* Nothing has been flushed or stored when the finalizer starts.           *)
LEMMA FlushInit == Init => IInv
<1> SUFFICES ASSUME Init PROVE IInv
  OBVIOUS
<1>1. NoBlock \in Response
  BY ZeroEpoch DEF NoBlock, Response
<1>2. TypeOK
  BY <1>1, ZeroEpoch DEF Init, TypeOK
<1>3. FlushInv
  BY ZeroEpoch DEF Init, FlushInv, Sound, NoBlock
<1> QED BY <1>2, <1>3 DEF IInv

(* The answer of the executor is well formed, and in its first run sound.  *)
LEMMA ResponseFacts ==
  ASSUME TypeOK
  PROVE  /\ response \in Response
         /\ NoBlock \in Response
         /\ epoch = 0 => Sound(response)
         /\ Sound(NoBlock)
BY ZeroEpoch DEF TypeOK, response, Response, NoBlock, Sound

(* The executor's steps keep the invariant: what it has flushed grows.     *)
LEMMA ExecutorInv == IInv /\ Executor => IInv'
<1> SUFFICES ASSUME IInv, Executor PROVE IInv'
  OBVIOUS
<1> USE ZeroEpoch
<1>1. CASE Flush
  <2>1. PICK n \in durable[epoch] + 1 .. lastFlushID :
          durable' = [durable EXCEPT ![epoch] = n]
    BY <1>1, Zenon DEF Flush
  <2>2. n \in Nat /\ n > durable[epoch]
    BY <2>1 DEF IInv, TypeOK
  <2>3. TypeOK'
    BY <1>1, <2>1, <2>2 DEF Flush, IInv, TypeOK, flushIDs, channels
  <2>4. ASSUME epoch' = 0 PROVE FlushInv'
    <3>1. epoch = 0 /\ FlushInv
      BY <1>1, <2>4 DEF Flush, IInv
    <3>2. durable[0] \in Nat /\ durable'[0] \in Nat /\ durable[0] <= durable'[0]
      BY <2>1, <2>2, <3>1 DEF IInv, TypeOK
    <3>3. \A r \in Response : Sound(r) => Sound(r)'
      BY <3>2 DEF Sound, Response
    <3> QED BY <1>1, <3>1, <3>2, <3>3
        DEF Flush, FlushInv, IInv, TypeOK, Sound, Response, flushIDs, channels
  <2> QED BY <2>3, <2>4 DEF IInv
<1>2. CASE OtherUpdate
  <2>1. TypeOK'
    BY <1>2 DEF OtherUpdate, IInv, TypeOK, flushIDs, channels
  <2>2. epoch' = 0 => FlushInv'
    BY <1>2 DEF OtherUpdate, IInv, FlushInv, Sound, flushIDs, channels
  <2> QED BY <2>1, <2>2 DEF IInv
<1>3. CASE ExecutorRestart
  <2>1. TypeOK'
    BY <1>3, FlushAssumption
    DEF ExecutorRestart, IInv, TypeOK, flushIDs, channels, Epoch
  <2>2. epoch' # 0
    BY <1>3, FlushAssumption DEF ExecutorRestart, IInv, TypeOK, Epoch
  <2> QED BY <2>1, <2>2 DEF IInv
<1> QED BY <1>1, <1>2, <1>3 DEF Executor

(* updateProverIdAndFlushId writes only answers the executor has given.    *)
LEMMA UpdaterInv == IInv /\ Updater => IInv'
<1> SUFFICES ASSUME IInv, Updater PROVE IInv'
  OBVIOUS
<1> USE ZeroEpoch
<1>1. TypeOK'
  BY DEF Updater, UpdaterCheck, UpdaterWait, UpdaterPoll, UpdaterSet, afterPoll,
         IInv, TypeOK, executor, flushIDs, channels, Epoch
<1>2. ASSUME epoch' = 0 PROVE FlushInv'
  <2>1. epoch = 0 /\ FlushInv /\ TypeOK
    BY <1>2 DEF Updater, UpdaterCheck, UpdaterWait, UpdaterPoll, UpdaterSet,
                IInv, executor
  <2>2. CASE UpdaterCheck \/ UpdaterWait
    BY <2>1, <2>2 DEF UpdaterCheck, UpdaterWait, FlushInv, Sound, TypeOK,
                      executor, flushIDs, channels
  <2>3. CASE UpdaterPoll
    BY <2>1, <2>3 DEF UpdaterPoll, FlushInv, Sound, TypeOK, executor, flushIDs,
                      channels
  <2>4. CASE UpdaterSet
    BY <2>1, <2>4 DEF UpdaterSet, FlushInv, Sound, TypeOK, executor, channels
  <2> QED BY <2>2, <2>3, <2>4 DEF Updater
<1> QED BY <1>1, <1>2 DEF IInv

(* The processor hands over blocks of the current run, with sound answers. *)
LEMMA ProcessorInv == IInv /\ Processor => IInv'
<1> SUFFICES ASSUME IInv, Processor PROVE IInv'
  OBVIOUS
<1> USE ZeroEpoch
<1>0. TypeOK
  BY DEF IInv
<1>1. TypeOK'
  BY <1>0, ResponseFacts
  DEF Processor, ProcessL2Block, ProcessL2BlockError, ProcessorUpdatePending,
      ProcessorUpdateStored, AddPendingL2BlockToStore, updatePending,
      updateStored, TypeOK, Response, executor, flushIDs, channels
<1>2. ASSUME epoch' = 0 PROVE FlushInv'
  <2>1. epoch = 0 /\ FlushInv
    BY <1>2 DEF Processor, ProcessL2Block, ProcessL2BlockError,
                ProcessorUpdatePending, ProcessorUpdateStored,
                AddPendingL2BlockToStore, IInv, executor
  <2>2. CASE ProcessL2Block
    BY <1>0, <2>1, <2>2, ResponseFacts
    DEF ProcessL2Block, FlushInv, Sound, flushIDs
  <2>3. CASE ProcessL2BlockError
    BY <2>1, <2>3 DEF ProcessL2BlockError, FlushInv, Sound, executor, flushIDs
  <2>4. CASE ProcessorUpdatePending
    BY <1>0, <2>1, <2>4
    DEF ProcessorUpdatePending, updatePending, FlushInv, Sound, TypeOK, executor,
        channels
  <2>5. CASE ProcessorUpdateStored
    BY <1>0, <2>1, <2>5
    DEF ProcessorUpdateStored, updateStored, FlushInv, Sound, TypeOK, executor,
        channels
  <2>6. CASE AddPendingL2BlockToStore
    BY <1>0, <2>1, <2>6, ResponseFacts
    DEF AddPendingL2BlockToStore, FlushInv, Sound, executor, flushIDs
  <2> QED BY <2>2, <2>3, <2>4, <2>5, <2>6 DEF Processor
<1> QED BY <1>1, <1>2 DEF IInv

(* The storer stores a block only when storedFlushID has reached it.       *)
LEMMA StorerInv == IInv /\ Storer => IInv'
<1> SUFFICES ASSUME IInv, Storer PROVE IInv'
  OBVIOUS
<1> USE ZeroEpoch
<1>0. TypeOK
  BY DEF IInv
<1>1. TypeOK'
  BY <1>0, ResponseFacts
  DEF Storer, TakeL2BlockToStore, StoreL2Block, TypeOK, executor, flushIDs,
      channels
<1>2. ASSUME epoch' = 0 PROVE FlushInv'
  <2>1. epoch = 0 /\ FlushInv
    BY <1>2 DEF Storer, TakeL2BlockToStore, StoreL2Block, IInv, executor
  <2>2. CASE TakeL2BlockToStore
    BY <2>1, <2>2 DEF TakeL2BlockToStore, FlushInv, Sound, executor, flushIDs
  <2>3. CASE StoreL2Block
    BY <1>0, <2>1, <2>3, ResponseFacts
    DEF StoreL2Block, flushed, FlushInv, Sound, TypeOK, Response, executor,
        flushIDs, channels
  <2> QED BY <2>2, <2>3 DEF Storer
<1> QED BY <1>1, <1>2 DEF IInv

(* The finalizer's main goroutine, which also executes forced batches.     *)
LEMMA MainInv == IInv /\ (CloseWIPL2Block \/ MainProgress) => IInv'
<1> SUFFICES ASSUME IInv, CloseWIPL2Block \/ MainProgress PROVE IInv'
  OBVIOUS
<1> USE ZeroEpoch
<1>0. TypeOK
  BY DEF IInv
<1>1. CASE CloseWIPL2Block \/ EndWaitPendingL2Blocks
  <2>1. TypeOK'
    BY <1>0, <1>1 DEF CloseWIPL2Block, NoneToProcess, EndWaitPendingL2Blocks, TypeOK,
                      executor, flushIDs, channels
  <2>2. epoch' = 0 => FlushInv'
    BY <1>0, <1>1 DEF CloseWIPL2Block, EndWaitPendingL2Blocks, IInv, FlushInv,
                      Sound, TypeOK, executor, flushIDs, channels
  <2> QED BY <2>1, <2>2 DEF IInv
<1>2. CASE ProcessForcedBatch
  <2>1. TypeOK'
    BY <1>0, <1>2, ResponseFacts DEF ProcessForcedBatch, TypeOK, flushIDs
  <2>2. epoch' = 0 => FlushInv'
    BY <1>0, <1>2, ResponseFacts
    DEF ProcessForcedBatch, IInv, FlushInv, Sound, flushIDs
  <2> QED BY <2>1, <2>2 DEF IInv
<1>3. CASE MainUpdatePending
  <2>1. TypeOK'
    BY <1>0, <1>3 DEF MainUpdatePending, updatePending, TypeOK, Response,
                      executor, channels
  <2>2. epoch' = 0 => FlushInv'
    BY <1>0, <1>3 DEF MainUpdatePending, updatePending, IInv, FlushInv, Sound,
                      TypeOK, executor, channels
  <2> QED BY <2>1, <2>2 DEF IInv
<1>4. CASE MainUpdateStored
  <2>1. TypeOK'
    BY <1>0, <1>4 DEF MainUpdateStored, updateStored, TypeOK, Response, executor,
                      channels
  <2>2. epoch' = 0 => FlushInv'
    BY <1>0, <1>4 DEF MainUpdateStored, updateStored, IInv, FlushInv, Sound,
                      TypeOK, executor, channels
  <2> QED BY <2>1, <2>2 DEF IInv
<1>5. CASE StoreForcedBatch
  <2>1. TypeOK'
    BY <1>0, <1>5, ResponseFacts DEF StoreForcedBatch, TypeOK, executor, flushIDs,
                                     channels
  <2>2. epoch' = 0 => FlushInv'
    BY <1>0, <1>5, ResponseFacts
    DEF StoreForcedBatch, IInv, FlushInv, Sound, TypeOK, Response, executor,
        flushIDs, channels
  <2> QED BY <2>1, <2>2 DEF IInv
<1> QED BY <1>1, <1>2, <1>3, <1>4, <1>5 DEF MainProgress

(* IInv is an invariant of the flush id protocol.                          *)
THEOREM FlushInvariant == Spec => []IInv
<1>1. IInv /\ UNCHANGED vars => IInv'
  BY DEF IInv, TypeOK, FlushInv, Sound, vars, executor, flushIDs, channels
<1>2. IInv /\ [Next]_vars => IInv'
  BY <1>1, ExecutorInv, UpdaterInv, ProcessorInv, StorerInv, MainInv DEF Next
<1> QED BY FlushInit, <1>2, PTL DEF Spec

(* The variables of the flush id protocol keep their types.                *)
THEOREM FlushTypeCorrect == Spec => []TypeOK
<1>1. IInv => TypeOK
  BY DEF IInv
<1> QED BY FlushInvariant, <1>1, PTL

(***************************************************************************)
(* storeL2Block and the forced batches never store a block whose state the *)
(* executor could still lose, until the executor restarts.                 *)
(***************************************************************************)
THEOREM FlushedBeforeStoredUntilRestart == Spec => []FlushedUntilRestart
<1>1. IInv => FlushedUntilRestart
  BY DEF IInv, FlushInv, FlushedUntilRestart, FlushedBeforeStored, Persisted
<1> QED BY FlushInvariant, <1>1, PTL
=============================================================================
