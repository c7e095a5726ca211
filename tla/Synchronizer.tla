---------------------------- MODULE Synchronizer -----------------------------
(***************************************************************************)
(* The sequential L1 synchronization (synchronizer.go), its reorg check    *)
(* and the two checkers of L1 block hashes that run in the background      *)
(* (l1_check_block).  Every call to L1, every database transaction and     *)
(* every critical section of AsyncCheck is a step of its own: L1 may       *)
(* reorganize, and the other goroutines may go on, between any two.        *)
(***************************************************************************)
EXTENDS BlockTable, Functions

CONSTANTS SyncChunkSize,
          MaxFaults,    \* bound: transactions that fail and restarts of the node
          MaxStopping   \* bound: onFinishChecker calls at once

ASSUME SyncAssumption ==
  SyncChunkSize \in Nat \ {0} /\ {MaxFaults, MaxStopping} \subseteq Nat

Checker == {"main", "pre"}

VARIABLES stored,       \* state.block, the genesis block left out
          checked,      \* the rows of state.block with checked = true
          sync,         \* the goroutine of Sync
          async,        \* AsyncCheck per checker, with the goroutine it has launched
          stopping,     \* onFinishChecker calls: [main, pre] to stop next
          faults        \* transactions that failed and restarts so far

vars == <<chain, finalized, reorgs, stored, checked, sync, async, stopping, faults>>
dbVars == <<stored, checked>>
asyncVars == <<async, stopping>>

Running == 0            \* lastResult = nil
Failed == -1            \* lastResult with Err; a positive number: reorg at that block

Rows == stored \cup {Genesis}
GetLastBlock == Row(Rows, Max(Numbers(Rows)))

\* GetPreviousBlock: the offset-th row below the last one.
GetPreviousBlock(offset) == Ascending(Rows)[Cardinality(Rows) - offset]

\* GetPreviousBlockToBlockNumber, for n > 0: the genesis block is a row.
GetPreviousBlockToBlockNumber(n) == Row(Rows, Max({k \in Numbers(Rows) : k < n}))

-----------------------------------------------------------------------------
(* AsyncCheck and L1BlockCheckerIntegration                                *)

\* A checker that has just been launched.
Launched == [running |-> TRUE, cancelled |-> FALSE, result |-> Running,
             pc |-> "step", todo |-> <<>>, safe |-> 0]

\* Mutant: the last result is kept when the checker is launched again.
Run_keepsResult(a) == IF a.running THEN a ELSE [Launched EXCEPT !.result = a.result]

\* Run: nothing happens while isRunning.
Run(a) == IF a.running THEN a ELSE Launched

launch ==
  /\ stopping["main"] + stopping["pre"] < MaxStopping
  /\ async' = [c \in Checker |-> Run(async[c])]

getMergedResults ==
  LET result == async["main"].result
      preResult == async["pre"].result
  IN  IF preResult = Running THEN result
      ELSE IF result = Running THEN preResult
      ELSE IF result > 0 /\ preResult > 0 THEN Min({result, preResult})
      ELSE IF preResult > 0 THEN preResult
      ELSE result

-----------------------------------------------------------------------------
(* newCheckReorg and CheckReorgWrapper                                     *)

\* checkReorg(latest, init) called from caller: "loop" checkReorgAndExecuteReset,
\* "empty" or "fetch" syncBlocksSequential.  An absent block is the empty set.
checkReorg(latest, init, caller) ==
  [pc |-> "walk", caller |-> caller, last |-> latest, at |-> latest, depth |-> 0,
   init |-> init, ok |-> {}, err |-> FALSE,
   known |-> 0, to |-> 0, blocks |-> {}, fin |-> 0]

\* The next iteration of the loop of Sync.
Loop(last) == checkReorg(last, {}, "loop")

\* Mutant: only the parent hashes are compared.
BadBlock_parent(b, at) ==
  at # Genesis /\ BlockByNumber(b, Len(at) - 1) # BlockByNumber(at, Len(at) - 1)

\* The hashes of the L1 block and of the stored one, which is not the genesis block.
BadBlock(b, at) == b # at /\ at # Genesis

\* One iteration of newCheckReorg.
Walk ==
  LET at == sync.at
      return(ok, err) == [sync EXCEPT !.pc = "wrap", !.ok = ok, !.err = err,
                                        !.init = {}, !.at = Genesis, !.depth = 0]
      previous == [sync EXCEPT !.at = GetPreviousBlock(sync.depth + 1),
                               !.depth = @ + 1, !.init = {}]
      done == return(IF at = sync.last THEN {} ELSE {at}, FALSE)
  IN  /\ sync.pc = "walk"
      /\ sync' = IF sync.init = {} /\ Len(at) > Len(chain)
                 THEN return({}, TRUE)
                 ELSE LET b == IF sync.init = {} THEN BlockByNumber(chain, Len(at))
                               ELSE CHOOSE i \in sync.init : TRUE
                      IN  IF BadBlock(b, at) THEN previous ELSE done
      /\ UNCHANGED <<chain, finalized, reorgs, dbVars, asyncVars, faults>>

\* What the callers of checkReorg do with its result: an error ends the iteration
\* of Sync, a block is reset to, and without one they go on.
Decide(ok, err) ==
  sync' = CASE err -> Loop(IF sync.caller = "loop" THEN sync.last ELSE GetLastBlock)
            [] ~err /\ ok # {} ->
                 [Loop(CHOOSE b \in ok : TRUE) EXCEPT !.pc = "reset"]
            [] ~err /\ ok = {} ->
                 [sync EXCEPT !.pc = CASE sync.caller = "loop"  -> "header"
                                       [] sync.caller = "fetch" -> "final"
                                       [] sync.caller = "empty" -> "reset"]

\* The background checker knows of a reorg: the older of the two blocks wins.
WrapReorg ==
  LET result == getMergedResults
      firstOk == GetPreviousBlockToBlockNumber(result)
  IN  /\ sync.pc = "wrap"
      /\ result > 0
      /\ IF sync.err \/ sync.ok = {} \/ \E b \in sync.ok : Len(firstOk) < Len(b)
         THEN Decide({firstOk}, FALSE)
         ELSE Decide(sync.ok, sync.err)
      /\ UNCHANGED <<chain, finalized, reorgs, dbVars, asyncVars, faults>>

\* It has nothing to say.  When it has been stopped it is launched again.
WrapPass ==
  /\ sync.pc = "wrap"
  /\ getMergedResults <= 0
  /\ Decide(sync.ok, sync.err)
  /\ IF getMergedResults = Failed THEN launch ELSE UNCHANGED async
  /\ UNCHANGED <<chain, finalized, reorgs, dbVars, stopping, faults>>

\* resetState: the transaction.
ResetState ==
  /\ sync.pc = "reset"
  /\ stored' = {b \in stored : Len(b) <= Len(sync.last)}
  /\ checked' = checked \cap stored'
  /\ sync' = [sync EXCEPT !.pc = "relaunch"]
  /\ UNCHANGED <<chain, finalized, reorgs, asyncVars, faults>>

\* resetState: OnResetState.
OnResetState ==
  /\ sync.pc = "relaunch"
  /\ launch
  /\ sync' = Loop(sync.last)
  /\ UNCHANGED <<chain, finalized, reorgs, dbVars, stopping, faults>>
-----------------------------------------------------------------------------
(* syncBlocksSequential and ProcessBlockRange                              *)

\* Mutant: the first block of the range is left out, unless it is the genesis block.
GetRollupInfoByBlockRange_open(from, to) ==
  {b \in {BlockByNumber(chain, n) : n \in from .. Len(chain)} :
     Len(b) <= to /\ HasEvents(b) /\ (Len(b) > from \/ from = 0)}

\* GetRollupInfoByBlockRange: the blocks with rollup events of a range.
GetRollupInfoByBlockRange(from, to) ==
  {b \in {BlockByNumber(chain, n) : n \in from .. Len(chain)} :
     Len(b) <= to /\ HasEvents(b)}

\* Mutant: the range is not cut at the last known block.
ToFetch_uncut(from, to, known) ==
  [Loop(sync.last) EXCEPT !.pc = "fetch", !.known = known, !.to = to]

\* The range that starts at the last stored block, up to the last known block.
ToFetch(from, to, known) ==
  [Loop(sync.last) EXCEPT !.pc = "fetch", !.known = known, !.to = Min({to, known})]

\* HeaderByNumber(syncBlockProtection), a block between finalized and latest.
Header ==
  LET from == Len(sync.last)
  IN  /\ sync.pc = "header"
      /\ \E known \in finalized .. Len(chain) :
           sync' = IF from > Min({from + SyncChunkSize, known})
                   THEN Loop(sync.last)
                   ELSE ToFetch(from, from + SyncChunkSize, known)
      /\ UNCHANGED <<chain, finalized, reorgs, dbVars, asyncVars, faults>>

\* The first block of the answer must be the last one stored: it is compared
\* and dropped.  An empty answer means that the last stored block is gone.
Fetch ==
  LET blocks == GetRollupInfoByBlockRange(Len(sync.last), sync.to)
  IN  /\ sync.pc = "fetch"
      /\ sync' = IF blocks = {}
                 THEN checkReorg(GetPreviousBlock(1), {}, "empty")
                 ELSE [checkReorg(sync.last, {First(blocks)}, "fetch") EXCEPT
                         !.known = sync.known, !.to = sync.to,
                         !.blocks = blocks \ {First(blocks)}]
      /\ UNCHANGED <<chain, finalized, reorgs, dbVars, asyncVars, faults>>

\* ProcessBlockRange: GetFinalizedBlockNumber.
GetFinalized ==
  /\ sync.pc = "final"
  /\ sync' = [sync EXCEPT !.pc = "store", !.fin = finalized]
  /\ UNCHANGED <<chain, finalized, reorgs, dbVars, asyncVars, faults>>

\* ProcessBlockRange: one transaction per block.
StoreBlock ==
  /\ sync.pc = "store"
  /\ sync.blocks # {}
  /\ LET b == First(sync.blocks)
     IN  /\ stored' = stored \cup {b}
         /\ checked' = IF Len(b) <= sync.fin THEN checked \cup {b} ELSE checked
         /\ sync' = [sync EXCEPT !.blocks = @ \ {b}, !.last = b]
  /\ UNCHANGED <<chain, finalized, reorgs, asyncVars, faults>>

\* The transaction of a block fails: Sync goes on from the database.
StoreFails ==
  /\ sync.pc = "store"
  /\ sync.blocks # {}
  /\ faults < MaxFaults
  /\ faults' = faults + 1
  /\ sync' = Loop(GetLastBlock)
  /\ UNCHANGED <<chain, finalized, reorgs, dbVars, asyncVars>>

\* All blocks of the range are stored: the next range, or the end.
RangeDone ==
  /\ sync.pc = "store"
  /\ sync.blocks = {}
  /\ sync' = IF sync.known <= sync.to
             THEN Loop(sync.last)
             ELSE ToFetch(Len(sync.last), sync.to + SyncChunkSize, sync.known)
  /\ UNCHANGED <<chain, finalized, reorgs, dbVars, asyncVars, faults>>
-----------------------------------------------------------------------------
(* The checkers: the goroutines of AsyncCheck                              *)

\* The goroutine of checker c goes on: its context has not been cancelled.
At(c, pc) == async[c].pc = pc /\ ~async[c].cancelled

checkerUnchanged == UNCHANGED <<chain, finalized, reorgs, sync, stopping, faults>>

\* A reorg at block number n: setResult.
ReorgAt(c, n) ==
  [async EXCEPT ![c].result = n, ![c].pc = "end", ![c].todo = <<>>, ![c].safe = 0]

\* Mutant: the safe number is ignored.
MainBlock_unsafe(n, safe) ==
  LET todo == {k \in Numbers(stored \ checked) : n <= k /\ k <= Len(chain)}
  IN  IF todo # {} THEN <<Row(stored, Min(todo))>> ELSE <<>>

\* CheckL1BlockHash: the first unchecked block, from number n on, not after safe.
MainBlock(n, safe) ==
  LET todo == {k \in Numbers(stored \ checked) : n <= k}
  IN  IF todo # {} /\ Min(todo) <= safe THEN <<Row(stored, Min(todo))>> ELSE <<>>

\* CheckL1BlockHash.Step: the first block and the safe (finalized) number.
MainStep ==
  /\ At("main", "step")
  /\ MainBlock(0, finalized) # <<>>
  /\ async' = [async EXCEPT !["main"].pc = "compare", !["main"].safe = finalized,
                            !["main"].todo = MainBlock(0, finalized)]
  /\ UNCHANGED dbVars /\ checkerUnchanged

\* CheckBlockHash
MainCompare ==
  LET b == Head(async["main"].todo)
  IN  /\ At("main", "compare")
      /\ async' = IF BlockByNumber(chain, Len(b)) = b
                  THEN [async EXCEPT !["main"].pc = "update"]
                  ELSE ReorgAt("main", Len(b))
      /\ UNCHANGED dbVars /\ checkerUnchanged

\* The row that has the number of the compared block now, if there is one.
Marked(b) == {r \in stored : Len(r) = Len(b)}

\* UpdateCheckedBlockByNumber
MainUpdate ==
  /\ At("main", "update")
  /\ checked' = checked \cup Marked(Head(async["main"].todo))
  /\ async' = [async EXCEPT !["main"].pc = "next"]
  /\ UNCHANGED stored /\ checkerUnchanged

\* doAllBlocks: the next block.
MainNext ==
  LET main == async["main"]
      todo == MainBlock(Len(Head(main.todo)), main.safe)
  IN  /\ At("main", "next")
      /\ async' = [async EXCEPT !["main"].pc = IF todo = <<>> THEN "step" ELSE "compare",
                                !["main"].todo = todo,
                                !["main"].safe = IF todo = <<>> THEN 0 ELSE @]
      /\ UNCHANGED dbVars /\ checkerUnchanged

\* PreCheckL1BlockHash.Step: the unchecked blocks from finalized to safe.
PreStep ==
  /\ At("pre", "step")
  /\ \E to \in finalized .. Len(chain) :
       LET todo == Ascending({b \in stored \ checked : Len(b) \in finalized .. to})
       IN  /\ todo # <<>>
           /\ async' = [async EXCEPT !["pre"].pc = "compare", !["pre"].todo = todo]
  /\ UNCHANGED dbVars /\ checkerUnchanged

\* CheckBlockHash: an error of L1 (no such block) ends the Step.
PreCompare ==
  LET todo == async["pre"].todo
      b == Head(todo)
      same == IsAncestor(b, chain)
      rest == IF Len(b) <= Len(chain) THEN Tail(todo) ELSE <<>>
  IN  /\ At("pre", "compare")
      /\ async' = IF Len(b) <= Len(chain) /\ ~same
                  THEN [async EXCEPT !["pre"].pc = "verify"]
                  ELSE [async EXCEPT !["pre"].pc = IF rest = <<>> THEN "step" ELSE @,
                                     !["pre"].todo = rest]
      /\ UNCHANGED dbVars /\ checkerUnchanged

\* checkThatStateBlockIsTheSame
PreVerify ==
  LET b == Head(async["pre"].todo)
  IN  /\ At("pre", "verify")
      /\ async' = IF b \in stored \ checked
                  THEN ReorgAt("pre", Len(b))
                  ELSE [async EXCEPT !["pre"].pc = "step", !["pre"].todo = <<>>]
      /\ UNCHANGED dbVars /\ checkerUnchanged

\* The context is cancelled: the Step fails and the goroutine ends.
Cancelled(c) ==
  /\ async[c].pc \notin {"off", "end"}
  /\ async[c].cancelled
  /\ async' = ReorgAt(c, Failed)
  /\ UNCHANGED dbVars /\ checkerUnchanged

\* isRunning = false, then onFinishChecker is called.
End(c) ==
  /\ async[c].pc = "end"
  /\ async' = [async EXCEPT ![c].pc = "off", ![c].running = FALSE, ![c].cancelled = FALSE]
  /\ stopping' = [stopping EXCEPT !["main"] = @ + 1]
  /\ UNCHANGED <<chain, finalized, reorgs, dbVars, sync, faults>>

\* Stop: the context of the goroutine that runs now is cancelled.
Stop(c) ==
  async' = [async EXCEPT ![c].cancelled = async[c].pc \notin {"off", "end"}]

\* onFinishChecker: checker.Stop().
StopMain ==
  /\ stopping["main"] > 0
  /\ Stop("main")
  /\ stopping' = [main |-> stopping["main"] - 1, pre |-> stopping["pre"] + 1]
  /\ UNCHANGED <<chain, finalized, reorgs, dbVars, sync, faults>>

\* onFinishChecker: preChecker.Stop(), once the main checker has its result.
StopPre ==
  /\ stopping["pre"] > 0
  /\ async["main"].pc \in {"off", "end"}
  /\ Stop("pre")
  /\ stopping' = [stopping EXCEPT !["pre"] = @ - 1]
  /\ UNCHANGED <<chain, finalized, reorgs, dbVars, sync, faults>>

-----------------------------------------------------------------------------
\* The node starts again: the checkers are launched, Sync reads the database.
Restart ==
  /\ faults < MaxFaults
  /\ faults' = faults + 1
  /\ sync' = Loop(GetLastBlock)
  /\ async' = [c \in Checker |-> Launched]
  /\ stopping' = [c \in Checker |-> 0]
  /\ UNCHANGED <<chain, finalized, reorgs, dbVars>>

Init ==
  /\ L1Init
  /\ stored = {}
  /\ checked = {}
  /\ sync = Loop(Genesis)
  /\ async = [c \in Checker |-> Launched]
  /\ stopping = [c \in Checker |-> 0]
  /\ faults = 0

SyncStep == \/ Walk \/ WrapReorg \/ WrapPass \/ ResetState \/ OnResetState
            \/ Header \/ Fetch \/ GetFinalized \/ StoreBlock \/ RangeDone
MainStepOrEnd == \/ MainStep \/ MainCompare \/ MainUpdate \/ MainNext
                 \/ Cancelled("main") \/ End("main")
PreStepOrEnd == \/ PreStep \/ PreCompare \/ PreVerify
                \/ Cancelled("pre") \/ End("pre")
L1Step == L1Next /\ UNCHANGED <<dbVars, sync, asyncVars, faults>>

Next == SyncStep \/ StoreFails \/ MainStepOrEnd \/ PreStepOrEnd
        \/ StopMain \/ StopPre \/ Restart \/ L1Step

Spec == Init /\ [][Next]_vars

\* L1 grows and finalizes up to the bound, every goroutine goes on.
FairSpec == /\ Spec
            /\ WF_vars((Grow \/ Finalize) /\ UNCHANGED <<dbVars, sync, asyncVars, faults>>)
            /\ WF_vars(SyncStep)
            /\ WF_vars(MainStepOrEnd)
            /\ WF_vars(PreStepOrEnd)
            /\ WF_vars(StopMain \/ StopPre)

-----------------------------------------------------------------------------
(* Properties                                                              *)

TypeOK ==
  /\ chain \in Block /\ finalized \in 0 .. Len(chain) /\ reorgs \in 0 .. MaxReorgs
  /\ stored \subseteq Block /\ checked \subseteq stored
  /\ sync.pc \in {"walk", "wrap", "reset", "relaunch", "header", "fetch", "final", "store"}
  /\ sync.caller \in {"loop", "empty", "fetch"}
  /\ {sync.last, sync.at} \cup sync.init \cup sync.ok \cup sync.blocks \subseteq Block
  /\ {sync.depth, sync.known, sync.to, sync.fin} \subseteq 0 .. MaxBlock
  /\ \A c \in Checker : /\ async[c].result \in Failed .. MaxBlock
                        /\ async[c].safe \in 0 .. MaxBlock
                        /\ Range(async[c].todo) \subseteq Block
  /\ stopping \in [Checker -> 0 .. MaxStopping + 2]

Follower == INSTANCE L1Follower WITH log <- Ascending(stored)

(***************************************************************************)
(* The synchronization implements L1Follower: whatever L1, the failures    *)
(* and the restarts do between two of its calls, state.block holds the     *)
(* blocks with events of one L1 fork from the genesis block on, none left  *)
(* out, and a transaction adds the next one or cuts off the last ones.     *)
(***************************************************************************)
FollowsOneFork == Follower!Spec

(***************************************************************************)
(* As long as L1 has not reorganized, resetState never removes a block:    *)
(* no timing of the background checkers makes a reorg out of nothing.      *)
(***************************************************************************)
NoResetBeforeReorg == [][reorgs = 0 => stored \subseteq stored']_vars

(***************************************************************************)
(* UpdateCheckedBlockByNumber addresses the row by its number, and Sync    *)
(* may have replaced the row since its hash was compared; still the rows   *)
(* the main checker sets to checked are blocks of the canonical chain.     *)
(***************************************************************************)
CheckerMarksCanonical ==
  [][stored' = stored => \A b \in checked' \ checked : IsAncestor(b, chain)]_vars

(***************************************************************************)
(* Once L1 has stopped reorganizing, all blocks with events of its chain   *)
(* are stored in the end and stay: no stale result of a checker resets the *)
(* state again and again.                                                  *)
(***************************************************************************)
CatchesUp == <>[](stored = {b \in {BlockByNumber(chain, n) : n \in 1 .. Len(chain)} :
                              HasEvents(b)})
=============================================================================
