----------------------------- MODULE Aggregator -----------------------------
(***************************************************************************)
(* The aggregator: every connected prover runs the loop of Channel, which  *)
(* tries to build a final proof, to aggregate two proofs and to prove a    *)
(* batch.  The proofs are rows of state.proof, keyed by their range of     *)
(* batches; a row is locked while generating_since is set.  sendFinalProof *)
(* takes one final proof at a time, has it verified on L1 and deletes the  *)
(* rows it covers.  A crash leaves rows and monitored txs behind.          *)
(***************************************************************************)
EXTENDS Integers, FiniteSets, FiniteSetsExt

CONSTANTS Prover,
          NBatch,   \* bound: batches sequenced on L1
          MaxEvents \* bound: errors, cleanups of held rows and restarts

ASSUME AggregatorAssumption == NBatch \in Nat \ {0} /\ MaxEvents \in Nat

VARIABLES ends,       \* state.sequences: last batches of the sequences
          verified,   \* last verified batch of the state
          verifiedL1, \* last verified batch of the contract
          rows,       \* state.proof
          prover,     \* the goroutine of each prover
          sender,     \* sendFinalProof, and Start
          txs,        \* monitored txs of the aggregator
          verifying,  \* verifyingProof
          events

vars == <<ends, verified, verifiedL1, rows, prover, sender, txs, verifying, events>>

Event == {"error", "cleanup", "restart"}
Batch == 1 .. NBatch
Range2 == {r \in Batch \X Batch : r[1] <= r[2]}
NoRange == <<0, 0>>

\* No row; locked without a proof; locked with one; free.
RowState == {"none", "generating", "locked", "ready"}
Locked == {r \in Range2 : rows[r] \in {"generating", "locked"}}

\* last: lastVerifiedBatchNum; range: the proof in hand, own when it was made by
\* this prover; second: the other proof to aggregate.
ProverPC == {"off", "loop", "sync", "lock", "build", "aggregate", "aggregating", "generate",
             "proving", "release"}
Fresh(pc) == [pc |-> pc, last |-> 0, own |-> FALSE, range |-> NoRange, second |-> NoRange]

TypeOK ==
  /\ ends \subseteq Batch
  /\ verified \in 0 .. NBatch
  /\ verifiedL1 \in 0 .. NBatch
  /\ rows \in [Range2 -> RowState]
  /\ prover \in [Prover -> [pc : ProverPC, last : 0 .. NBatch, own : BOOLEAN,
                            range : Range2 \cup {NoRange}, second : Range2 \cup {NoRange}]]
  /\ sender \in [pc : {"idle", "settle", "pending", "syncing"}, range : Range2 \cup {NoRange},
                 boot : BOOLEAN]
  /\ txs \in [Range2 -> {"none", "sent", "confirmed", "done"}]
  /\ verifying \in BOOLEAN
  /\ events \in [Event -> Nat]

Init ==
  /\ ends = {}
  /\ verified = 0
  /\ verifiedL1 = 0
  /\ rows = [r \in Range2 |-> "none"]
  /\ prover = [p \in Prover |-> Fresh("loop")]
  /\ sender = [pc |-> "idle", range |-> NoRange, boot |-> FALSE]
  /\ txs = [r \in Range2 |-> "none"]
  /\ verifying = FALSE
  /\ events = [e \in Event |-> 0]

Happens(e) ==
  /\ events["error"] + events["cleanup"] + events["restart"] < MaxEvents
  /\ events' = [events EXCEPT ![e] = @ + 1]

-----------------------------------------------------------------------------
(* state.proof and state.sequences                                         *)

Within(r, b, f) == b <= r[1] /\ r[2] <= f
Covers(r, n) == r[1] <= n /\ n <= r[2]

virtual == Max({0} \cup ends)
StartsSequence(b) == b <= virtual /\ b - 1 \in ends \cup {0}
EndsSequence(f) == f \in ends

\* CheckProofContainsCompleteSequences
Complete(r) == StartsSequence(r[1]) /\ EndsSequence(r[2])

\* UpdateGeneratedProof: a row that is gone stays so.
Updated(r, state) == IF rows[r] = "none" THEN rows ELSE [rows EXCEPT ![r] = state]

Deleted(b, f) == [r \in Range2 |-> IF Within(r, b, f) THEN "none" ELSE rows[r]]

\* Mutant: the proof is looked up by the last verified batch.
ReadyToVerify_last(last) == {r \in Range2 : rows[r] = "ready" /\ r[1] = last /\ Complete(r)}

\* GetProofReadyToVerify
ReadyToVerify(last) == {r \in Range2 : rows[r] = "ready" /\ r[1] = last + 1 /\ Complete(r)}

\* Two free neighbours, of one sequence or both made of whole sequences.
CanAggregate(r, s) ==
  /\ rows[r] = "ready" /\ rows[s] = "ready" /\ r[2] = s[1] - 1
  /\ \/ s[2] <= virtual /\ \A e \in ends : ~(r[1] <= e /\ e < s[2])
     \/ Complete(r) /\ Complete(s)

\* Mutant: batches in the middle of a proof are proved again.
ToProve_starts ==
  {n \in Batch : verified < n /\ n <= virtual /\ \A r \in Range2 : rows[r] # "none" => r[1] # n}

\* GetVirtualBatchToProve: not covered by any row.
ToProve ==
  {n \in Batch : verified < n /\ n <= virtual /\ \A r \in Range2 : rows[r] # "none" => ~Covers(r, n)}

-----------------------------------------------------------------------------
(* Channel                                                                 *)

Put(p, g) == prover' = [prover EXCEPT ![p] = g]
Goto(p, pc) == Put(p, [prover[p] EXCEPT !.pc = pc])

\* tryBuildFinalProof returned false.
NotBuilt(p) == Put(p, IF prover[p].own THEN [prover[p] EXCEPT !.pc = "release", !.last = 0]
                                       ELSE Fresh("aggregate"))

\* The interval may be over or not.
canVerifyProof(p) ==
  /\ prover[p].pc = "loop"
  /\ \/ ~verifying /\ Goto(p, "sync")
     \/ NotBuilt(p)
  /\ UNCHANGED <<ends, verified, verifiedL1, rows, sender, txs, verifying, events>>

\* Mutant: the contract is not asked.
Synced_stateOnly(n) == verified >= n

\* isSynced
Synced(n) == verified >= n /\ verified >= verifiedL1

waitForSynchronizerToSyncUp(p) ==
  /\ prover[p].pc = "sync"
  /\ Synced(0)
  /\ Put(p, [prover[p] EXCEPT !.pc = "lock", !.last = verified])
  /\ UNCHANGED <<ends, verified, verifiedL1, rows, sender, txs, verifying, events>>

getAndLockProofReadyToVerify(p) ==
  LET found == ReadyToVerify(prover[p].last)
  IN  /\ prover[p].pc = "lock" /\ ~prover[p].own
      /\ \/ /\ found = {}
            /\ NotBuilt(p) /\ UNCHANGED rows
         \/ \E r \in found :
              /\ rows' = [rows EXCEPT ![r] = "locked"]
              /\ Put(p, [prover[p] EXCEPT !.pc = "build", !.range = r])
      /\ UNCHANGED <<ends, verified, verifiedL1, sender, txs, verifying, events>>

\* A proof that ends before the next batch to verify is deleted.
validateEligibleFinalProof(p) ==
  LET r == prover[p].range
      next == prover[p].last + 1
  IN  /\ prover[p].pc = "lock" /\ prover[p].own
      /\ IF Covers(r, next) /\ Complete(r) THEN Goto(p, "build") ELSE NotBuilt(p)
      /\ rows' = IF r[2] < next THEN Deleted(r[1], r[2]) ELSE rows
      /\ UNCHANGED <<ends, verified, verifiedL1, sender, txs, verifying, events>>

\* The final proof is built and sent to sendFinalProof, when that is idle.
buildFinalProof(p) ==
  /\ prover[p].pc = "build"
  /\ sender.pc = "idle"
  /\ sender' = [sender EXCEPT !.pc = "settle", !.range = prover[p].range]
  /\ verifying' = TRUE
  /\ Put(p, Fresh(IF prover[p].own THEN "loop" ELSE "aggregate"))
  /\ UNCHANGED <<ends, verified, verifiedL1, rows, txs, events>>

\* The prover fails; a row that was looked up is unlocked.
FinalProofError(p) ==
  /\ prover[p].pc = "build"
  /\ Happens("error")
  /\ NotBuilt(p)
  /\ rows' = IF prover[p].own THEN rows ELSE Updated(prover[p].range, "ready")
  /\ UNCHANGED <<ends, verified, verifiedL1, sender, txs, verifying>>

\* The first pair by its first batch.
getAndLockProofsToAggregate(p) ==
  LET pairs == {x \in Range2 \X Range2 : CanAggregate(x[1], x[2])}
  IN  /\ prover[p].pc = "aggregate"
      /\ \/ /\ pairs = {}
            /\ Goto(p, "generate") /\ UNCHANGED rows
         \/ \E x \in pairs :
              /\ \A y \in pairs : x[1][1] <= y[1][1]
              /\ rows' = [rows EXCEPT ![x[1]] = "locked", ![x[2]] = "locked"]
              /\ Put(p, [prover[p] EXCEPT !.pc = "aggregating", !.range = x[1],
                                          !.second = x[2]])
      /\ UNCHANGED <<ends, verified, verifiedL1, sender, txs, verifying, events>>

Joined(r, s) == <<r[1], s[2]>>

\* Mutant: the first row is kept instead of the aggregated one.
Aggregated_first(r, s) == [Deleted(r[1], s[2]) EXCEPT ![r] = "locked"]

\* One transaction deletes the two rows and adds the aggregated one.
Aggregated(r, s) == [Deleted(r[1], s[2]) EXCEPT ![Joined(r, s)] = "locked"]

\* The aggregated proof, to be tried as a final one, or an error.
tryAggregateProofs(p) ==
  LET r == prover[p].range
      s == prover[p].second
  IN  /\ prover[p].pc = "aggregating"
      /\ \/ /\ rows' = Aggregated(r, s)
            /\ Put(p, [Fresh("loop") EXCEPT !.own = TRUE, !.range = Joined(r, s)])
            /\ UNCHANGED events
         \/ /\ Happens("error")
            /\ rows' = [x \in Range2 |-> IF x \in {r, s} THEN Updated(x, "ready")[x] ELSE rows[x]]
            /\ Put(p, Fresh("generate"))
      /\ UNCHANGED <<ends, verified, verifiedL1, sender, txs, verifying>>

getAndLockBatchToProve(p) ==
  /\ prover[p].pc = "generate"
  /\ \/ /\ ToProve = {}
        /\ Put(p, Fresh("loop")) /\ UNCHANGED rows
     \/ \E n \in ToProve :
          /\ \A m \in ToProve : n <= m
          /\ rows' = [rows EXCEPT ![<<n, n>>] = "generating"]
          /\ Put(p, [prover[p] EXCEPT !.pc = "proving", !.range = <<n, n>>])
  /\ UNCHANGED <<ends, verified, verifiedL1, sender, txs, verifying, events>>

\* The proof of the batch, to be tried as a final one, or an error.
tryGenerateBatchProof(p) ==
  LET r == prover[p].range
  IN  /\ prover[p].pc = "proving"
      /\ \/ /\ Put(p, [prover[p] EXCEPT !.pc = "loop", !.own = TRUE])
            /\ UNCHANGED <<rows, events>>
         \/ /\ Happens("error")
            /\ rows' = Deleted(r[1], r[2])
            /\ Put(p, Fresh("loop"))
      /\ UNCHANGED <<ends, verified, verifiedL1, sender, txs, verifying>>

\* The own proof has not become a final one: its row is stored and unlocked.
ReleaseProof(p) ==
  /\ prover[p].pc = "release"
  /\ rows' = Updated(prover[p].range, "ready")
  /\ Put(p, Fresh("loop"))
  /\ UNCHANGED <<ends, verified, verifiedL1, sender, txs, verifying, events>>

Channel(p) ==
  \/ canVerifyProof(p) \/ waitForSynchronizerToSyncUp(p) \/ getAndLockProofReadyToVerify(p)
  \/ validateEligibleFinalProof(p) \/ buildFinalProof(p) \/ FinalProofError(p)
  \/ getAndLockProofsToAggregate(p) \/ tryAggregateProofs(p)
  \/ getAndLockBatchToProve(p) \/ tryGenerateBatchProof(p) \/ ReleaseProof(p)

-----------------------------------------------------------------------------
(* sendFinalProof                                                          *)

\* verifyBatchesTrustedAggregator of the contract.
Verifiable(r) == r[1] - 1 <= verifiedL1 /\ verifiedL1 < r[2]

Idle == [pc |-> "idle", range |-> NoRange, boot |-> FALSE]

\* settleDirect: the tx is added; if not, the proof is unlocked.
settleDirect ==
  LET r == sender.range
  IN  /\ sender.pc = "settle"
      /\ \/ /\ Verifiable(r) /\ txs[r] = "none"
            /\ txs' = [txs EXCEPT ![r] = "sent"]
            /\ sender' = [sender EXCEPT !.pc = "pending"]
            /\ UNCHANGED <<rows, verifying, events>>
         \/ /\ IF Verifiable(r) /\ txs[r] = "none" THEN Happens("error") ELSE UNCHANGED events
            /\ rows' = Updated(r, "ready")
            /\ sender' = Idle
            /\ verifying' = FALSE
            /\ UNCHANGED txs
      /\ UNCHANGED <<ends, verified, verifiedL1, prover>>

\* GetBatchByNumber fails: the proof stays locked.
SettleError ==
  /\ sender.pc = "settle"
  /\ Happens("error")
  /\ sender' = Idle
  /\ verifying' = FALSE
  /\ UNCHANGED <<ends, verified, verifiedL1, rows, prover, txs>>

\* ProcessPendingMonitoredTxs sets the tx as done, then calls the handler.
ProcessPendingMonitoredTxs ==
  /\ sender.pc = "pending"
  /\ txs[sender.range] = "confirmed"
  /\ txs' = [txs EXCEPT ![sender.range] = "done"]
  /\ sender' = [sender EXCEPT !.pc = "syncing"]
  /\ UNCHANGED <<ends, verified, verifiedL1, rows, prover, verifying, events>>

\* The rows up to the verified batch are deleted; at the start of the process
\* (boot) also the locked ones, and the provers may connect.
handleMonitoredTxResult ==
  /\ sender.pc = "syncing"
  /\ Synced(sender.range[2])
  /\ rows' = [r \in Range2 |-> IF r[2] <= sender.range[2] \/ (sender.boot /\ r \in Locked)
                               THEN "none" ELSE rows[r]]
  /\ prover' = IF sender.boot THEN [p \in Prover |-> Fresh("loop")] ELSE prover
  /\ sender' = Idle
  /\ verifying' = FALSE
  /\ UNCHANGED <<ends, verified, verifiedL1, txs, events>>

\* cleanupLockedProofs: rows locked for longer than the threshold, whoever
\* holds them.
Held == {r \in Range2 : \/ \E p \in Prover : r \in {prover[p].range, prover[p].second}
                        \/ r = sender.range}
cleanupLockedProofs ==
  /\ \E stale \in (SUBSET Locked) \ {{}} :
       /\ IF stale \cap Held = {} THEN UNCHANGED events ELSE Happens("cleanup")
       /\ rows' = [r \in Range2 |-> IF r \in stale THEN "none" ELSE rows[r]]
  /\ sender.boot = FALSE
  /\ UNCHANGED <<ends, verified, verifiedL1, prover, sender, txs, verifying>>

-----------------------------------------------------------------------------
(* Restart, L1 and the synchronizer                                        *)

Outstanding == {r \in Range2 : txs[r] \in {"sent", "confirmed"}}

\* Start: pending txs first, then DeleteUngeneratedProofs and the provers.
Restart ==
  /\ Happens("restart")
  /\ verifying' = FALSE
  /\ IF Outstanding = {}
     THEN /\ rows' = [r \in Range2 |-> IF r \in Locked THEN "none" ELSE rows[r]]
          /\ prover' = [p \in Prover |-> Fresh("loop")]
          /\ sender' = Idle
     ELSE /\ prover' = [p \in Prover |-> Fresh("off")]
          /\ \E r \in Outstanding : sender' = [pc |-> "pending", range |-> r, boot |-> TRUE]
          /\ UNCHANGED rows
  /\ UNCHANGED <<ends, verified, verifiedL1, txs>>

\* The monitored tx is mined (external).
MineVerification ==
  /\ \E r \in Range2 :
       /\ txs[r] = "sent" /\ Verifiable(r)
       /\ verifiedL1' = r[2]
       /\ txs' = [txs EXCEPT ![r] = "confirmed"]
  /\ UNCHANGED <<ends, verified, rows, prover, sender, verifying, events>>

\* The synchronizer stores a sequence of L1, and its verifications.
SyncSequence ==
  /\ \E e \in Batch : e > virtual /\ ends' = ends \cup {e}
  /\ UNCHANGED <<verified, verifiedL1, rows, prover, sender, txs, verifying, events>>

SyncVerified ==
  /\ verified < verifiedL1
  /\ verified' = verifiedL1
  /\ UNCHANGED <<ends, verifiedL1, rows, prover, sender, txs, verifying, events>>

sendFinalProof == settleDirect \/ SettleError \/ ProcessPendingMonitoredTxs \/ handleMonitoredTxResult

Next ==
  \/ \E p \in Prover : Channel(p)
  \/ sendFinalProof \/ cleanupLockedProofs \/ Restart
  \/ MineVerification \/ SyncSequence \/ SyncVerified

Spec == Init /\ [][Next]_vars

\* Every goroutine goes on; the interval between two verifications is over now
\* and then, and a row that nobody holds is stale in the end.
Fairness ==
  /\ \A p \in Prover : WF_vars(Channel(p)) /\ SF_vars(canVerifyProof(p) /\ prover'[p].pc = "sync")
  /\ WF_vars(sendFinalProof) /\ WF_vars(cleanupLockedProofs)
  /\ WF_vars(MineVerification \/ SyncSequence \/ SyncVerified)

FairSpec == Spec /\ Fairness

-----------------------------------------------------------------------------
(* Properties                                                              *)

Overlap(r, s) == r[1] <= s[2] /\ s[1] <= r[2]
Disjoint ==
  \A r, s \in Range2 : r # s /\ rows[r] # "none" /\ rows[s] # "none" => ~Overlap(r, s)

(***************************************************************************)
(* The rows of state.proof never overlap, so no batch is proved twice and  *)
(* every aggregation is of neighbours, with errors of the provers and      *)
(* restarts at any point, unless cleanupLockedProofs has deleted a row     *)
(* that a prover was still working on.                                     *)
(***************************************************************************)
RowsDisjoint == events["cleanup"] = 0 => Disjoint

(***************************************************************************)
(* A final proof that reaches sendFinalProof is one the contract accepts   *)
(* and that has not been sent before, although the prover decided on it    *)
(* before another verification, or a restart, came in between.             *)
(***************************************************************************)
VerificationNeeded ==
  events["cleanup"] = 0 /\ sender.pc = "settle" =>
    Verifiable(sender.range) /\ txs[sender.range] = "none"

Covered(n) == \E r \in Range2 : rows[r] # "none" /\ Covers(r, n)

(***************************************************************************)
(* Without errors no work is lost: a batch that is proved, or being        *)
(* proved, stays so until the state has it as verified.                    *)
(***************************************************************************)
ProvedStaysProved ==
  [][(\A e \in Event : events'[e] = 0) =>
       \A n \in Batch : Covered(n) => Covered(n)' \/ n <= verified']_vars

\* A proof of verified and of unverified batches.  Only the prover that makes
\* it takes it as a final proof; GetProofReadyToVerify never returns it.
Straddling == \E r \in Range2 : rows[r] = "ready" /\ r[1] <= verified /\ verified < r[2]

(***************************************************************************)
(* Every batch sequenced on L1 is proved and verified in the end, through  *)
(* errors, restarts and cleanups, unless a straddling proof is left by a   *)
(* restart between a verification and its synchronization, or overlapping  *)
(* proofs by a cleanup: those wait for further batches.                    *)
(***************************************************************************)
AllVerified == <>[](verified = NBatch \/ Straddling \/ ~Disjoint)
=============================================================================
