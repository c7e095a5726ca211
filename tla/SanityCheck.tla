----------------------------- MODULE SanityCheck -----------------------------
(***************************************************************************)
(* The sanity check of closed batches and the database transaction that    *)
(* closes them.                                                            *)
(*                                                                         *)
(* storeL2Block stores the first block of a batch in one transaction with  *)
(* the closing of the batch before it.  closeSIPBatch starts, inside that  *)
(* transaction, a batchSanityCheck that reads the batch, executes it and   *)
(* sets its checked column, all on connections of its own.  A row that an  *)
(* open transaction has updated is locked for the others (Postgres).  The  *)
(* sequence sender sends a batch to L1 once it is closed and checked.      *)
(***************************************************************************)
EXTENDS Integers, FiniteSets

CONSTANTS NBatch,       \* bound: batches
          NBlock,       \* bound: L2 blocks in a batch
          MaxRollbacks, \* bound: transactions rolled back after an error
          MaxRestarts,  \* bound: restarts of the node at any other moment
          SequentialBatchSanityCheck

ASSUME SanityAssumption == /\ NBatch \in Nat \ {0}
                           /\ NBlock \in Nat \ {0}
                           /\ MaxRollbacks \in Nat
                           /\ MaxRestarts \in Nat
                           /\ SequentialBatchSanityCheck \in BOOLEAN

VARIABLES batch,     \* state.batch as committed: [wip, checked, blocks] per number
          verified,  \* per batch, the blocks that the last check executed
          storer,    \* [pc, closing]: the open transaction of storeL2Block
          checks,    \* batchSanityCheck calls: [num, read], read = -1 at first
          sip,       \* number of the sip batch
          rollbacks, restarts

vars == <<batch, verified, storer, checks, sip, rollbacks, restarts>>

Batch == 1 .. NBatch
Absent == [wip |-> FALSE, checked |-> FALSE, blocks |-> 0]

TypeOK ==
  /\ batch \in [Batch -> [wip : BOOLEAN, checked : BOOLEAN, blocks : 0 .. NBlock]]
  /\ verified \in [Batch -> 0 .. NBlock]
  /\ storer \in [pc : {"idle", "open", "failed"}, closing : BOOLEAN]
  /\ checks \subseteq [num : Batch, read : -1 .. NBlock]
  /\ sip \in Batch
  /\ rollbacks \in 0 .. MaxRollbacks
  /\ restarts \in 0 .. MaxRestarts

Init ==
  /\ batch = [n \in Batch |-> IF n = 1 THEN [wip |-> TRUE, checked |-> FALSE, blocks |-> 1]
                                       ELSE Absent]
  /\ verified = [n \in Batch |-> 0]
  /\ storer = [pc |-> "idle", closing |-> FALSE]
  /\ checks = {}
  /\ sip = 1
  /\ rollbacks = 0
  /\ restarts = 0

-----------------------------------------------------------------------------
(* The storer                                                              *)

\* Mutant: the batch is closed outside the transaction.
Locked_never(n) == FALSE

\* Rows that the open transaction has updated: CloseWIPBatch or UpdateWIPBatch.
Locked(n) == storer.pc = "open" /\ n = sip

\* A block of the sip batch: the transaction updates its row.
BeginStore ==
  /\ storer.pc = "idle"
  /\ batch[sip].blocks < NBlock
  /\ storer' = [pc |-> "open", closing |-> FALSE]
  /\ UNCHANGED <<batch, verified, checks, sip, rollbacks, restarts>>

\* The first block of the next batch: closeSIPBatch inside the transaction.
BeginCloseSIPBatch ==
  /\ storer.pc = "idle"
  /\ sip < NBatch
  /\ storer' = [pc |-> "open", closing |-> TRUE]
  /\ checks' = checks \cup {[num |-> sip, read |-> -1]}
  /\ UNCHANGED <<batch, verified, sip, rollbacks, restarts>>

\* Mutant: the storer waits for the check in both modes.
checkReturned_always == storer.closing => \A c \in checks : c.num # sip

\* In sequential mode the check is a call: the storer waits for it.
checkReturned ==
  SequentialBatchSanityCheck /\ storer.closing => \A c \in checks : c.num # sip

Commit ==
  /\ storer.pc = "open"
  /\ checkReturned
  /\ IF storer.closing
     THEN /\ batch' = [batch EXCEPT ![sip].wip = FALSE,
                                    ![sip + 1] = [wip |-> TRUE, checked |-> FALSE,
                                                  blocks |-> 1]]
          /\ sip' = sip + 1
     ELSE /\ batch' = [batch EXCEPT ![sip].blocks = @ + 1]
          /\ UNCHANGED sip
  /\ storer' = [pc |-> "idle", closing |-> FALSE]
  /\ UNCHANGED <<verified, checks, rollbacks, restarts>>

\* rollbackOnError: the locks are released, then Halt ends the process.
Rollback ==
  /\ storer.pc = "open"
  /\ checkReturned
  /\ rollbacks < MaxRollbacks
  /\ rollbacks' = rollbacks + 1
  /\ storer' = [storer EXCEPT !.pc = "failed"]
  /\ UNCHANGED <<batch, verified, checks, sip, restarts>>

-----------------------------------------------------------------------------
(* batchSanityCheck                                                        *)

\* GetBatchByNumber, then the execution.
CheckRead ==
  /\ \E c \in checks :
       /\ c.read = -1
       /\ checks' = (checks \ {c}) \cup {[c EXCEPT !.read = batch[c.num].blocks]}
  /\ UNCHANGED <<batch, verified, storer, sip, rollbacks, restarts>>

\* The batch has been read and executed.
readable(c) == c.read # -1

UpdateBatchAsChecked ==
  /\ \E c \in checks :
       /\ readable(c)
       /\ ~Locked(c.num)
       /\ checks' = checks \ {c}
       /\ batch' = [batch EXCEPT ![c.num].checked = TRUE]
       /\ verified' = [verified EXCEPT ![c.num] = c.read]
  /\ UNCHANGED <<storer, sip, rollbacks, restarts>>

\* Mutant: the check of the batches closed before the restart is left out.
pendingToCheck_none == {}

\* GetNotCheckedBatches
pendingToCheck == {n \in Batch : ~batch[n].wip /\ batch[n].blocks > 0 /\ ~batch[n].checked}

\* Every batch is executed from the root of the one before it in the list, so
\* the check fails at the first gap of the list.
checkedAtStart ==
  {n \in pendingToCheck : \A m \in pendingToCheck :
     m <= n => \/ m - 1 \in pendingToCheck
               \/ \A k \in pendingToCheck : m <= k}

\* The process ends (Halt, or any crash) and starts again: the transaction is
\* lost, processBatchesPendingtoCheck runs before anything else and halts the
\* node when a check fails.
Restart ==
  /\ storer.pc = "failed" \/ restarts < MaxRestarts
  /\ restarts' = IF storer.pc = "failed" THEN restarts ELSE restarts + 1
  /\ storer' = [pc |-> IF checkedAtStart = pendingToCheck THEN "idle" ELSE "failed",
                closing |-> FALSE]
  /\ checks' = {}
  /\ batch' = [n \in Batch |-> IF n \in checkedAtStart
                               THEN [batch[n] EXCEPT !.checked = TRUE] ELSE batch[n]]
  /\ verified' = [n \in Batch |-> IF n \in checkedAtStart THEN batch[n].blocks
                                                          ELSE verified[n]]
  /\ UNCHANGED <<sip, rollbacks>>

Next == \/ BeginStore \/ BeginCloseSIPBatch \/ Commit \/ Rollback
        \/ CheckRead \/ UpdateBatchAsChecked \/ Restart

Spec == Init /\ [][Next]_vars

\* A transaction ends, a check goes on, a failed or halted node is started again.
FairSpec == /\ Spec
            /\ WF_vars(Commit)
            /\ WF_vars(CheckRead \/ UpdateBatchAsChecked)
            /\ WF_vars(Restart /\ storer.pc = "failed")

-----------------------------------------------------------------------------
(* Properties                                                              *)

(***************************************************************************)
(* What the sequence sender sends, a batch that is closed and checked, has *)
(* been executed again by the sanity check with all of its blocks.         *)
(***************************************************************************)
CheckedMeansVerified ==
  \A n \in Batch :
    batch[n].checked /\ ~batch[n].wip => verified[n] = batch[n].blocks

(***************************************************************************)
(* The same as long as no transaction has been rolled back, with a restart *)
(* at any point of the transaction and of the checks.                      *)
(***************************************************************************)
CheckedMeansVerifiedUntilRollback == rollbacks = 0 => CheckedMeansVerified

(***************************************************************************)
(* Every closed batch is checked in the end, also when the node stops      *)
(* between the commit and the check: without it the sequence sender stops. *)
(***************************************************************************)
ClosedBatchGetsChecked ==
  \A n \in Batch : (~batch[n].wip /\ batch[n].blocks > 0) ~> batch[n].checked

(***************************************************************************)
(* The transaction of storeL2Block ends ("SequentialBatchSanityCheck       *)
(* indicates if the reprocess of a closed batch (sanity check) must be     *)
(* done in a sequential way (instead than in parallel)").                  *)
(***************************************************************************)
StoreEnds == (storer.pc = "open") ~> (storer.pc # "open")
=============================================================================
