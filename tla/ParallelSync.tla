----------------------------- MODULE ParallelSync ----------------------------
(***************************************************************************)
(* The parallel L1 synchronization (l1_parallel_sync): the producer asks   *)
(* L1 for ranges of blocks through several workers and puts their answers  *)
(* in order, the consumer checks that consecutive ranges join and stores   *)
(* the blocks, and Sync (synchronizer.go) starts the consumer, waits for   *)
(* it and resets both after an error.  Sync waits while the consumer runs, *)
(* so the two are one process here.                                        *)
(*                                                                         *)
(* Block numbers count from the genesis block.  checkReorg is one step: it *)
(* is modelled call by call in Synchronizer.                               *)
(***************************************************************************)
EXTENDS L1Chain, FiniteSetsExt, SequencesExt

CONSTANTS SyncChunkSize,
          NWorkers,         \* L1 clients
          Capacity,         \* of outgoingChannel, MaxPendingNoProcessedBlocks
          Eventful,         \* bound: numbers of the blocks with events, in every fork
          UnsafeDistance,   \* maximumBlockDistanceFromLatestToFinalized
          Uint,             \* bound: integers are modulo Uint, for 2^64
          MaxFaults         \* bound: failed requests and transactions, restarts, reorgs

ASSUME ParallelAssumption ==
  /\ {SyncChunkSize, NWorkers, Capacity, UnsafeDistance} \subseteq Nat \ {0}
  /\ MaxFaults \in Nat
  /\ Eventful \subseteq 1 .. MaxBlock
  /\ Uint \in Nat /\ Uint > MaxBlock + UnsafeDistance

VARIABLES stored,     \* state.block, the genesis block left out
          producer,   \* L1RollupInfoProducer, with its syncStatus and filter
          workers,    \* the request of each worker
          answers,    \* chOutgoingRollupInfo: the answers of the workers
          channel,    \* outgoingChannel, from the producer to the consumer
          cmds,       \* channelCmds: the reset commands
          sync,       \* Sync and the consumer
          unlinked,   \* some range was taken without comparing its previous block,
                      \* or with answers of L1 from two forks
          faults      \* failures and restarts so far

vars == <<chain, finalized, reorgs, stored, producer, workers, answers, channel,
          cmds, sync, unlinked, faults>>

Latest == MaxBlock + 2      \* latestBlockNumber, the largest number
Unknown == 0                \* lastBlockOnL1 before it has been asked for

Rows == stored \cup {Genesis}
TopOf(S) == CHOOSE b \in S : \A a \in S : Len(a) <= Len(b)
GetLastBlock == TopOf(Rows)

-----------------------------------------------------------------------------
(* syncStatus                                                              *)

\* The producer after Reset(n) has been executed.  The error ranges and
\* lastBlockOnL1 are those of before.
ResetTo(n, l1, errs) ==
  [pc |-> "select", status |-> "idle", store |-> n, requested |-> n, l1 |-> l1,
   processing |-> {}, errs |-> errs, sent |-> n, pending |-> <<>>]

\* Blocks up to number n may still be reorganized: unsigned subtraction.
BlockNumberIsInsideUnsafeArea(p, n) == (p.l1 - n) % Uint < UnsafeDistance

HaveRequiredAll(p) == p.l1 <= p.requested

IsNodeFullySynchronizedWithL1(p) ==
  p.l1 # Unknown /\ HaveRequiredAll(p) /\ p.errs = <<>> /\ p.processing = {}

\* Mutant: the ranges in progress are forgotten.
getHighestBlockRequested_none(p) == 0

\* The end of the ranges that are processed or have failed.
getHighestBlockRequested(p) ==
  Max({0} \cup {br[2] : br \in p.processing \cup ToSet(p.errs)})

\* getNextBlockRangeFromUnsafe
getNextBlockRangeFrom(last, l1) ==
  LET to == Min({l1, last + 1 + SyncChunkSize})
  IN  <<last + 1, IF to = l1 THEN Latest ELSE to>>

\* The set of at most one range that GetNextRange, or GetNextRangeOnlyRetries
\* when new requests are not allowed, returns.
Retry(p) == IF p.errs # <<>> /\ Head(p.errs)[2] # Latest THEN {Head(p.errs)} ELSE {}

\* A failed range up to the latest block is discarded instead of tried again.
Discard(p) == IF p.errs # <<>> /\ Head(p.errs)[2] = Latest
              THEN [p EXCEPT !.errs = Tail(@)] ELSE p

GetNextRange(p, allowNew) ==
  LET q == Discard(p)
      highest == getHighestBlockRequested(q)
  IN  IF Retry(p) # {} THEN Retry(p)
      ELSE IF ~allowNew \/ q.l1 = Unknown \/ HaveRequiredAll(q) \/ highest = Latest THEN {}
      ELSE {getNextBlockRangeFrom(Max({q.store, highest}), q.l1)}

\* Mutant: the end of a range up to the latest block is taken as a number.
OnStartedNewWorker_latest(p, br) ==
  [p EXCEPT !.errs = Remove(@, br),
            !.processing = @ \cup {br},
            !.requested = Max({@, br[2]})]

OnStartedNewWorker(p, br) ==
  [p EXCEPT !.errs = Remove(@, br),
            !.processing = @ \cup {br},
            !.requested = IF br[2] = Latest THEN p.l1 ELSE Max({@, br[2]})]

-----------------------------------------------------------------------------
(* Workers                                                                 *)

Idle == [pc |-> "idle", range |-> <<0, 0>>, unsafe |-> FALSE,
         last |-> {}, blocks |-> {}, previous |-> {}]

\* A request.  In the unsafe area the last block of the range (unless it is the
\* latest) is asked for first, and the block before the range at the end.
Request(br, unsafe) ==
  [Idle EXCEPT !.pc = IF unsafe /\ br[2] # Latest THEN "last" ELSE "rollup",
               !.range = br, !.unsafe = unsafe]

\* One iteration of launchWork: it ends when there is no range or no idle worker.
LaunchOne(s) ==
  LET next == GetNextRange(s.producer, s.allowNew)
      p == Discard(s.producer)
      idle == {w \in DOMAIN s.workers : s.workers[w].pc = "idle"}
  IN  IF s.done \/ next = {} \/ idle = {}
      THEN [s EXCEPT !.done = TRUE, !.producer = IF s.done THEN @ ELSE p]
      ELSE LET br == CHOOSE r \in next : TRUE
           IN  [s EXCEPT !.producer = OnStartedNewWorker(p, br),
                         !.workers[Min(idle)] =
                            Request(br, BlockNumberIsInsideUnsafeArea(p, br[1]))]

\* launchWork: the set with the only outcome of its loop.
launchWork(p, ws) ==
  FoldLeft(LAMBDA S, i : {LaunchOne(s) : s \in S},
           {[producer |-> p, workers |-> ws, done |-> FALSE,
             allowNew |-> Len(p.pending) + Len(channel) <= Capacity]},
           [i \in 1 .. NWorkers + 1 |-> i])

\* EthBlockByNumber
EthBlockByNumber(n) == {BlockByNumber(chain, k) : k \in {n} \cap 0 .. Len(chain)}

\* The worker is idle again and its answer, or its error, is in the channel.
Answer(w, r, ok) ==
  /\ workers' = [workers EXCEPT ![w] = Idle]
  /\ answers' = Append(answers, IF ok THEN [r EXCEPT !.pc = "ok"]
                                 ELSE [Idle EXCEPT !.pc = "error", !.range = r.range])

workerUnchanged ==
  UNCHANGED <<chain, finalized, reorgs, stored, producer, channel, cmds, sync, unlinked>>

\* fillLastBlock, before or after the events
WorkerLast(w) ==
  LET r == workers[w]
      last == EthBlockByNumber(r.range[2])
  IN  /\ r.pc \in {"last", "last2"}
      /\ IF last = {} THEN Answer(w, r, FALSE)
         ELSE IF r.pc = "last2" THEN Answer(w, [r EXCEPT !.last = last], TRUE)
         ELSE /\ workers' = [workers EXCEPT ![w].last = last, ![w].pc = "rollup"]
              /\ UNCHANGED answers
      /\ workerUnchanged /\ UNCHANGED faults

\* fillRollup
WorkerRollup(w) ==
  LET r == workers[w]
      blocks == {b \in {BlockByNumber(chain, n) : n \in r.range[1] .. Len(chain)} :
                   Len(b) <= r.range[2] /\ HasEvents(b)}
      got == [r EXCEPT !.blocks = blocks]
  IN  /\ r.pc = "rollup"
      /\ IF r.unsafe
         THEN workers' = [workers EXCEPT ![w] = [got EXCEPT !.pc = "previous"]]
              /\ UNCHANGED answers
         ELSE IF blocks = {} /\ r.range[2] # Latest
         THEN workers' = [workers EXCEPT ![w] = [got EXCEPT !.pc = "last2"]]
              /\ UNCHANGED answers
         ELSE Answer(w, got, TRUE)
      /\ workerUnchanged /\ UNCHANGED faults

\* fillPreviousBlock
WorkerPrevious(w) ==
  LET r == workers[w]
      previous == EthBlockByNumber(r.range[1] - 1)
  IN  /\ r.pc = "previous"
      /\ Answer(w, [r EXCEPT !.previous = previous], previous # {})
      /\ workerUnchanged /\ UNCHANGED faults

\* The context of the request was cancelled by a reset of the producer.
WorkerCancelled(w) ==
  /\ workers[w].pc = "cancelled"
  /\ Answer(w, workers[w], FALSE)
  /\ workerUnchanged /\ UNCHANGED faults

\* A request fails.  The bound on faults is reached before L1 stops to grow.
WorkerFails(w) ==
  /\ workers[w].pc \notin {"idle", "cancelled"}
  /\ faults + reorgs < MaxFaults /\ Len(chain) < MaxBlock
  /\ faults' = faults + 1
  /\ Answer(w, workers[w], FALSE)
  /\ workerUnchanged

\* getHighestBlockNumberInResponse: of a range up to the latest block, the
\* number of the highest block in the answer.
HighestNumber(r) ==
  IF r.range[2] # Latest THEN r.range[2]
  ELSE IF r.blocks = {} THEN r.range[1] - 1
  ELSE Len(TopOf(r.blocks))

\* getHighestBlockReceived
HighestReceived(r) ==
  IF r.last # {} THEN r.last ELSE IF r.blocks # {} THEN {TopOf(r.blocks)} ELSE {}

-----------------------------------------------------------------------------
(* The producer: step waits for a command, an answer or a timeout, and     *)
(* then acts on the status.                                                *)

producerUnchanged == UNCHANGED <<chain, finalized, reorgs, stored, sync, unlinked, faults>>

\* resetUnsafe cancels the requests and does not wait for their answers.
ExecuteReset ==
  /\ producer.pc = "select"
  /\ cmds # <<>>
  /\ cmds' = Tail(cmds)
  /\ producer' = [ResetTo(Head(cmds), producer.l1, producer.errs) EXCEPT !.pc = "switch"]
  /\ channel' = <<>>
  /\ workers' = [w \in 1 .. NWorkers |->
                   IF workers[w].pc = "idle" THEN Idle
                   ELSE [Idle EXCEPT !.pc = "cancelled", !.range = workers[w].range]]
  /\ UNCHANGED answers /\ producerUnchanged

\* OnFinishWorker and the filter: the answer waits for its turn.
Finish(p, r) ==
  LET done == [p EXCEPT !.processing = @ \ {r.range}]
  IN  IF r.pc = "ok"
      THEN [done EXCEPT !.store = Max({@, HighestNumber(r)}), !.pending = Append(@, r)]
      ELSE [done EXCEPT !.errs = Append(@, r.range)]

\* sendResultIfPossibleUnsafe: the first pending answer that starts where the
\* last one sent has ended.
Sendable(p) == SelectInSeq(p.pending, LAMBDA r : r.range[1] = p.sent + 1)
Sending(p) == [p EXCEPT !.pc = IF Sendable(p) # 0 THEN "send" ELSE "switch"]

\* onResponseRollupInfo: an answer is ignored while the producer is reseting, or
\* when its range is not being processed.
OnResponse ==
  LET r == Head(answers)
      ignored == producer.status = "reseting" \/ r.range \notin producer.processing
  IN  /\ producer.pc = "select"
      /\ answers # <<>>
      /\ answers' = Tail(answers)
      /\ producer' = Sending(IF ignored THEN producer ELSE Finish(producer, r))
      /\ UNCHANGED <<workers, channel, cmds>> /\ producerUnchanged

\* sendPackages: blocks while the channel is full.
SendPackage ==
  LET i == Sendable(producer)
      r == producer.pending[i]
  IN  /\ producer.pc = "send"
      /\ Len(channel) < Capacity
      /\ channel' = Append(channel, r)
      /\ producer' = Sending([producer EXCEPT !.pending = RemoveAt(@, i),
                                              !.sent = HighestNumber(r)])
      /\ UNCHANGED <<workers, answers, cmds>> /\ producerUnchanged

\* renewLastBlockOnL1IfNeeded and OnNewLastBlockOnL1: the number never decreases.
Renewed(p) == [p EXCEPT !.l1 = Max({@, Len(chain)})]

\* After the command or the answer, or when the wait for them has timed out.
AtSwitch == producer.pc \in {"select", "switch"}

StepIdle ==
  LET p == Renewed(producer)
  IN  /\ AtSwitch /\ producer.status = "idle"
      /\ producer' = [p EXCEPT !.pc = "select",
                               !.status = IF p.l1 # Unknown THEN "working" ELSE "idle"]
      /\ UNCHANGED <<workers, answers, channel, cmds>> /\ producerUnchanged

StepWorking ==
  /\ AtSwitch /\ producer.status = "working"
  /\ \E s \in launchWork(producer, workers) :
       LET renew == \/ HaveRequiredAll(s.producer)
                    \/ BlockNumberIsInsideUnsafeArea(s.producer, s.producer.requested)
           p == IF renew THEN Renewed(s.producer) ELSE s.producer
       IN  IF IsNodeFullySynchronizedWithL1(p)
           THEN producer' = [p EXCEPT !.pc = "synchronized"] /\ workers' = s.workers
           ELSE \E t \in launchWork(p, s.workers) :
                  producer' = [t.producer EXCEPT !.pc = "select"] /\ workers' = t.workers
  /\ UNCHANGED <<answers, channel, cmds>> /\ producerUnchanged

\* setStatus(producerSynchronized), whatever the status is by now.
SetSynchronized ==
  /\ producer.pc = "synchronized"
  /\ producer' = [producer EXCEPT !.status = "synchronized", !.pc = "notify"]
  /\ UNCHANGED <<workers, answers, channel, cmds>> /\ producerUnchanged

\* The consumer is told up to which block the node is synchronized.
NotifySynchronized ==
  /\ producer.pc = "notify"
  /\ Len(channel) < Capacity
  /\ channel' = Append(channel, [pc |-> "synchronized", number |-> producer.store])
  /\ producer' = [producer EXCEPT !.pc = "select"]
  /\ UNCHANGED <<workers, answers, cmds>> /\ producerUnchanged

StepSynchronized ==
  /\ AtSwitch /\ producer.status = "synchronized"
  /\ \E s \in launchWork(Renewed(producer), workers) :
       /\ workers' = s.workers
       /\ producer' = [s.producer EXCEPT
                         !.pc = IF s.workers = workers THEN "select" ELSE "launched"]
  /\ UNCHANGED <<answers, channel, cmds>> /\ producerUnchanged

\* setStatus(producerWorking), whatever the status is by now.
SetWorking ==
  /\ producer.pc = "launched"
  /\ producer' = [producer EXCEPT !.status = "working", !.pc = "select"]
  /\ UNCHANGED <<workers, answers, channel, cmds>> /\ producerUnchanged

StepReseting ==
  /\ AtSwitch /\ producer.status = "reseting"
  /\ producer' = [producer EXCEPT !.pc = "select"]
  /\ UNCHANGED <<workers, answers, channel, cmds>> /\ producerUnchanged

-----------------------------------------------------------------------------
(* Sync and the consumer                                                   *)

syncUnchanged == UNCHANGED <<chain, finalized, reorgs, workers, answers>>

\* Mutant: the command is not queued.
ResetOrchestration_noCommand(n) ==
  /\ producer' = [producer EXCEPT !.status = "reseting"]
  /\ channel' = <<>>
  /\ UNCHANGED cmds

\* L1SyncOrchestration.Reset: the consumer's, the producer's and its command.
ResetOrchestration(n) ==
  /\ producer' = [producer EXCEPT !.status = "reseting"]
  /\ channel' = <<>>
  /\ cmds' = Append(cmds, n)

\* checkReorgAndExecuteReset, with resetState; then Start launches the consumer.
CheckReorg ==
  LET ok == TopOf({b \in Rows : IsAncestor(b, chain)})
  IN  /\ sync.pc = "check"
      /\ Len(GetLastBlock) <= Len(chain)
      /\ IF sync.last = {ok}
         THEN sync' = [sync EXCEPT !.pc = "consume"]
              /\ UNCHANGED <<stored, producer, channel, cmds>>
         ELSE /\ stored' = {b \in stored : Len(b) <= Len(ok)}
              /\ sync' = [sync EXCEPT !.last = {ok}, !.highest = Len(ok)]
              /\ ResetOrchestration(Len(ok))
      /\ syncUnchanged /\ UNCHANGED <<unlinked, faults>>

\* A range that does not start after the highest processed block is ignored.
WrongRange(r) == sync.highest + 1 # r.range[1]

\* The cached block and the block before the range have the same number.
Comparable(r) == \E a \in sync.received, b \in r.previous : Len(a) = Len(b)

\* L1 has answered all calls for the range from one fork.
Consistent(r) ==
  \A a, b \in r.previous \cup r.blocks \cup r.last : Len(a) <= Len(b) => IsAncestor(a, b)

\* Mutant: the cached block is not compared with the block before the range.
PreviousDiffers_never(r) == FALSE

\* checkPreviousBlocks
PreviousDiffers(r) == Comparable(r) /\ sync.received # r.previous

\* processIncommingRollupInfoData up to the first transaction.  With the error of
\* a reorg, syncBlocksParallel returns nil for the last synced block.
ConsumeData ==
  LET r == Head(channel)
  IN  /\ sync.pc = "consume"
      /\ channel # <<>> /\ r.pc = "ok"
      /\ channel' = Tail(channel)
      /\ CASE WrongRange(r) -> UNCHANGED <<sync, unlinked>>
           [] ~WrongRange(r) /\ PreviousDiffers(r) ->
                /\ sync' = [sync EXCEPT !.pc = "reorg", !.highest = HighestNumber(r),
                                        !.last = {}]
                /\ UNCHANGED unlinked
           [] ~WrongRange(r) /\ ~PreviousDiffers(r) ->
                LET blocks == IF r.blocks = {} THEN r.last ELSE r.blocks
                IN
                /\ sync' = [sync EXCEPT !.pc = IF blocks = {} THEN @ ELSE "store",
                                        !.highest = HighestNumber(r),
                                        !.received = HighestReceived(r), !.blocks = blocks]
                /\ unlinked' = \/ unlinked
                               \/ ~(Comparable(r) \/ r.range[1] = 1)
                               \/ ~Consistent(r)
      /\ syncUnchanged /\ UNCHANGED <<stored, producer, cmds, faults>>

First(S) == CHOOSE b \in S : \A a \in S : Len(b) <= Len(a)

\* ProcessBlockRange: one transaction per block.
StoreBlock ==
  LET b == First(sync.blocks)
  IN  /\ sync.pc = "store"
      /\ \A a \in stored : Len(a) # Len(b)
      /\ stored' = stored \cup {b}
      /\ sync' = [sync EXCEPT !.blocks = @ \ {b}, !.last = {b},
                              !.pc = IF sync.blocks = {b} THEN "consume" ELSE @]
      /\ syncUnchanged /\ UNCHANGED <<producer, channel, cmds, unlinked, faults>>

\* After an error Sync goes on from the database.
Resume ==
  /\ sync' = [sync EXCEPT !.pc = "check", !.last = {GetLastBlock}, !.blocks = {},
                          !.highest = Len(GetLastBlock)]
  /\ ResetOrchestration(Len(GetLastBlock))

\* The transaction fails, as it does when the block number is already stored.
StoreFails ==
  /\ sync.pc = "store"
  /\ IF \E a \in stored : Len(a) = Len(First(sync.blocks))
     THEN UNCHANGED faults
     ELSE faults + reorgs < MaxFaults /\ faults' = faults + 1
  /\ Resume
  /\ syncUnchanged /\ UNCHANGED <<stored, unlinked>>

\* processIncommingRollupControlData: the consumer ends when it has nothing left
\* to do, with an error when it has not received all that was promised.
ConsumeSynchronized ==
  LET number == Head(channel).number
  IN  /\ sync.pc = "consume"
      /\ channel # <<>> /\ Head(channel).pc = "synchronized"
      /\ IF Len(channel) = 1 /\ sync.highest # number
         THEN Resume
         ELSE /\ sync' = [sync EXCEPT !.pc = IF Len(channel) = 1 THEN "check" ELSE @]
              /\ channel' = Tail(channel)
              /\ UNCHANGED <<producer, cmds>>
      /\ syncUnchanged /\ UNCHANGED <<stored, unlinked, faults>>

-----------------------------------------------------------------------------
StartedAt(b) ==
  [pc |-> "check", last |-> {b}, highest |-> Len(b), received |-> {}, blocks |-> {}]

\* The process starts again: after the panic of executeReorgFromFirstValidBlock,
\* which is called without a last block, or for any other reason.
Restart ==
  /\ sync.last = {} \/ faults + reorgs < MaxFaults
  /\ faults' = IF sync.last = {} THEN faults ELSE faults + 1
  /\ sync' = StartedAt(GetLastBlock)
  /\ producer' = ResetTo(Len(GetLastBlock), Unknown, <<>>)
  /\ workers' = [w \in 1 .. NWorkers |-> Idle]
  /\ answers' = <<>> /\ channel' = <<>> /\ cmds' = <<>>
  /\ UNCHANGED <<chain, finalized, reorgs, stored, unlinked>>

\* The node starts when L1 has MaxBlock - 1 blocks, the first one finalized.
Init ==
  /\ chain = [n \in 1 .. MaxBlock - 1 |-> [fork |-> 0, ev |-> n \in Eventful]]
  /\ finalized = 1 /\ reorgs = 0
  /\ stored = {}
  /\ sync = StartedAt(Genesis)
  /\ producer = ResetTo(0, Unknown, <<>>)
  /\ workers = [w \in 1 .. NWorkers |-> Idle]
  /\ answers = <<>> /\ channel = <<>> /\ cmds = <<>>
  /\ unlinked = FALSE
  /\ faults = 0

ProducerStep == \/ ExecuteReset \/ OnResponse \/ SendPackage
                \/ StepIdle \/ StepWorking \/ SetSynchronized \/ NotifySynchronized
                \/ StepSynchronized \/ SetWorking \/ StepReseting
WorkerStep(w) == \/ WorkerLast(w) \/ WorkerRollup(w) \/ WorkerPrevious(w)
                 \/ WorkerCancelled(w)
SyncStep == \/ CheckReorg \/ ConsumeData \/ StoreBlock
            \/ ConsumeSynchronized

\* L1 grows after its last reorganization.
L1Step == /\ Grow \/ (Len(chain) < MaxBlock /\ faults + reorgs < MaxFaults /\ Reorg)
          /\ \A n \in DOMAIN chain' : chain'[n].ev = (n \in Eventful)
          /\ UNCHANGED <<stored, producer, workers, answers, channel, cmds, sync,
                         unlinked, faults>>

Next == ProducerStep \/ SyncStep \/ StoreFails \/ Restart \/ L1Step
        \/ \E w \in 1 .. NWorkers : WorkerStep(w) \/ WorkerFails(w)

Spec == Init /\ [][Next]_vars

FairSpec == /\ Spec
            /\ WF_vars(L1Step /\ Len(chain') > Len(chain))
            /\ SF_vars(ExecuteReset)
            /\ SF_vars(OnResponse)
            /\ WF_vars(ProducerStep)
            /\ \A w \in 1 .. NWorkers : WF_vars(WorkerStep(w))
            /\ WF_vars(SyncStep \/ StoreFails)
            /\ WF_vars(Restart /\ sync.last = {})

-----------------------------------------------------------------------------
(* Properties                                                              *)

TypeOK ==
  /\ stored \subseteq Block /\ faults \in 0 .. MaxFaults /\ unlinked \in BOOLEAN
  /\ producer.status \in {"idle", "working", "synchronized", "reseting"}
  /\ {producer.store, producer.requested, producer.l1, producer.sent} \subseteq 0 .. MaxBlock
  /\ producer.processing \cup ToSet(producer.errs)
       \subseteq (1 .. MaxBlock + 1) \X (1 .. MaxBlock \cup {Latest})
  /\ \A w \in 1 .. NWorkers :
       workers[w].last \cup workers[w].blocks \cup workers[w].previous \subseteq Block
  /\ Len(channel) <= Capacity
  /\ \A n \in ToSet(cmds) : n \in 0 .. MaxBlock
  /\ sync.pc \in {"check", "consume", "store", "reorg"}
  /\ sync.last \cup sync.received \cup sync.blocks \subseteq Block
  /\ sync.highest \in 0 .. MaxBlock

(***************************************************************************)
(* The ranges that are processed or wait to be tried again never overlap,  *)
(* neither with late answers and failures of requests from before a Reset, *)
(* whose error ranges are kept: addBlockRange would end the node with      *)
(* log.Fatal.                                                              *)
(***************************************************************************)
RangesDisjoint ==
  LET rs == SetToSeq(producer.processing) \o producer.errs
      Overlaps(a, b) == a[1] <= b[2] /\ b[1] <= a[2]
  IN  \A i, j \in DOMAIN rs : i # j => ~Overlaps(rs[i], rs[j])

Complete(S, b) == \A n \in 1 .. Len(b) : b[n].ev => BlockByNumber(b, n) \in S

(***************************************************************************)
(* The stored blocks are of one L1 fork and none of its blocks with events *)
(* is left out ("The previous and last block are used to guarantee that    *)
(* the blocks belongs to the same chain").                                 *)
(***************************************************************************)
OneFork == /\ \A a, b \in stored : Len(a) <= Len(b) => IsAncestor(a, b)
           /\ \A b \in stored : Complete(stored, b)

(***************************************************************************)
(* The stored blocks are of one fork and complete, whatever the workers    *)
(* have read before and after a reorg and in which order their answers     *)
(* come, as long as the consumer could compare the previous block of every *)
(* range with the block before it and no reorg came between the calls for  *)
(* one range (last block, events, previous block).                         *)
(***************************************************************************)
OneForkWhenLinked == (unlinked /\ reorgs > 0) \/ OneFork

(***************************************************************************)
(* Sync never looks for a reorg without a last synced block: checkReorg    *)
(* logs "lastEthBlockSynced is nil ..., it never have to happens".         *)
(***************************************************************************)
LastBlockIsSet == sync.last # {}

Settled == /\ sync.highest = producer.store
           /\ Complete(stored, BlockByNumber(chain, Min({producer.store, Len(chain)})))
           /\ faults + reorgs = 0 => Complete(stored, chain)

(***************************************************************************)
(* After failures, resets, late answers and restarts, producer and         *)
(* consumer agree in the end on the block from which they go on when L1    *)
(* grows, and no block with events up to it is missing; without any of     *)
(* these, all blocks of L1 are stored.                                     *)
(***************************************************************************)
CatchesUp == <>[]((unlinked /\ reorgs > 0) \/ Settled)
=============================================================================
