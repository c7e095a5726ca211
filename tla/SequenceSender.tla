--------------------------- MODULE SequenceSender ---------------------------
(***************************************************************************)
(* The sequence sender (sequencesender) as a client of the L1 transaction  *)
(* manager: tryToSendSequence waits for its monitored txs, compares the    *)
(* batches of L1 with its own, and adds a tx for the next checked batches. *)
(***************************************************************************)
EXTENDS EthTxManager

VARIABLES checked, \* batches closed and checked by the sequencer
          virtual, \* last virtual batch of the state, as synchronized
          sender   \* tryToSendSequence

vars == <<mempool, mined, price, reorgFrom, rows, monitor, events, checked, virtual, sender>>

\* pc, the results to handle, the result in hand, what was read from the state
\* or chosen to be sent, and lastSequenceEndBatch.
Start(last) == [pc |-> "pending", results |-> {}, result |-> NoRow, last |-> last]

PC == {"pending", "waiting", "confirming", "sanity", "retrying", "get", "add", "halted"}

TypeOK ==
  /\ EthTypeOK
  /\ checked \in 0 .. NBatch
  /\ virtual \in 0 .. NBatch
  /\ sender.pc \in PC
  /\ sender.last \in 0 .. NBatch

Init ==
  /\ EthInit
  /\ checked = 0
  /\ virtual = 0
  /\ sender = Start(0)

-----------------------------------------------------------------------------
(* ProcessPendingMonitoredTxs                                              *)

\* A result: the row and the receipts of its history, as of one moment.
buildResult(i) == [id |-> i, status |-> rows[i].status,
                   blocks |-> {r.tx.nonce : r \in ReceiptsOf(rows[i].history)}]

\* Mutant: rows that were never sent are not pending.
Pending_sent == {i \in Id : rows[i].status \in {"sent", "failed", "confirmed", "reorged"}}

Pending == {i \in Id : rows[i].status \in {"created", "sent", "failed", "confirmed", "reorged"}}

\* The order of creation.
FirstResult(S) ==
  CHOOSE r \in S : \A q \in S : r.id[1] < q.id[1] \/ (r.id[1] = q.id[1] /\ r.id[2] <= q.id[2])

\* The loop ends when nothing is pending.
ResultsByStatus ==
  /\ sender.pc = "pending" /\ sender.results = {}
  /\ sender' = IF Pending = {} THEN [sender EXCEPT !.pc = "sanity"]
               ELSE [sender EXCEPT !.results = {buildResult(i) : i \in Pending}]
  /\ UNCHANGED <<mempool, mined, price, reorgFrom, rows, monitor, events, checked, virtual>>

\* A confirmed row is set done, then handled; a failed one stays as it is.
\* The handler halts without a receipt.
HandleResult ==
  LET r == FirstResult(sender.results)
      rest == [sender EXCEPT !.results = @ \ {r}]
  IN  /\ sender.pc = "pending" /\ sender.results # {}
      /\ CASE r.status = "confirmed" ->
                /\ setStatusDone(r.id)
                /\ sender' = [rest EXCEPT !.pc = IF r.blocks = {} THEN "halted" ELSE "confirming",
                                          !.result = r]
           [] r.status = "failed" ->
                UNCHANGED rows /\ sender' = rest
           [] OTHER ->
                UNCHANGED rows /\ sender' = [rest EXCEPT !.pc = "waiting", !.result = r]
      /\ UNCHANGED <<mempool, mined, price, reorgFrom, monitor, events, checked, virtual>>

\* The row in hand is confirmed or failed.
WaitResult ==
  /\ sender.pc = "waiting"
  /\ rows[sender.result.id].status \in {"confirmed", "failed"}
  /\ sender' = [sender EXCEPT !.pc = "pending", !.result = NoRow]
  /\ UNCHANGED <<mempool, mined, price, reorgFrom, rows, monitor, events, checked, virtual>>

\* SequenceL1BlockConfirmations on the block of some receipt of the result; the
\* number of a block that L1 dropped is reached as well.
Deep(block) ==
  \A r \in mined : r.tx.nonce = block => r.conf = Confirmations

\* Mutant: compared also after a restart.
SCMatches_afterRestart == sender.last = Sequenced

\* Nothing to compare with until the first sequence after a restart.
SCMatches == sender.last \in {0, Sequenced}

\* Then the last batch in the contract is compared with the last one sent,
\* unless L1 does not answer.
ConfirmSequence ==
  /\ sender.pc = "confirming"
  /\ \E b \in sender.result.blocks : Deep(b)
  /\ \/ /\ UNCHANGED events
        /\ sender' = [sender EXCEPT !.pc = IF SCMatches THEN "pending" ELSE "halted",
                                    !.result = NoRow]
     \/ /\ Happens("error")
        /\ sender' = [sender EXCEPT !.pc = "pending", !.result = NoRow]
  /\ UNCHANGED <<mempool, mined, price, reorgFrom, rows, monitor, checked, virtual>>

-----------------------------------------------------------------------------
(* tryToSendSequence                                                       *)

\* sanityCheck: the state is not ahead of L1, nor of the trusted state.
sanityCheck ==
  /\ sender.pc = "sanity"
  /\ sender' = [sender EXCEPT !.pc = IF virtual > Sequenced THEN "retrying"
                                     ELSE IF checked < virtual THEN "halted"
                                     ELSE "get",
                              !.result = IF virtual > Sequenced THEN [virtual |-> virtual] ELSE NoRow]
  /\ UNCHANGED <<mempool, mined, price, reorgFrom, rows, monitor, events, checked, virtual>>

\* L1 is asked again until it equals what the state had, or the last retry halts.
RetrySanityCheck ==
  /\ sender.pc = "retrying"
  /\ sender' = [sender EXCEPT !.pc = IF sender.result.virtual = Sequenced THEN "get" ELSE "halted",
                              !.result = NoRow]
  /\ UNCHANGED <<mempool, mined, price, reorgFrom, rows, monitor, events, checked, virtual>>

\* Checked batches from the one after the last of L1, at most MaxBatchesForL1.
LastToSend == Min({checked, Sequenced + MaxBatchesForL1})

getSequencesToSend ==
  /\ sender.pc = "get"
  /\ LastToSend > Sequenced
  /\ sender' = [sender EXCEPT !.pc = "add", !.result = [id |-> <<Sequenced + 1, LastToSend>>]]
  /\ UNCHANGED <<mempool, mined, price, reorgFrom, rows, monitor, events, checked, virtual>>

\* Fewer than MaxBatchesForL1 are only worth sending after some time.
WaitForMoreBatches ==
  /\ sender.pc = "get"
  /\ LastToSend < Sequenced + MaxBatchesForL1
  /\ sender' = [sender EXCEPT !.pc = "pending"]
  /\ UNCHANGED <<mempool, mined, price, reorgFrom, rows, monitor, events, checked, virtual>>

\* Mutant: the end of the range is taken as exclusive.
lastSequenceEndBatch_exclusive(id) == id[2] + 1

lastSequenceEndBatch(id) == id[2]

\* The waits for the L1 timestamp, PostSequence and Add.
SendSequence ==
  LET id == sender.result.id
  IN  /\ sender.pc = "add"
      /\ IF CanAdd(id)
         THEN Add(id) /\ sender' = Start(lastSequenceEndBatch(id))
         ELSE UNCHANGED rows /\ sender' = Start(sender.last)
      /\ UNCHANGED <<mempool, mined, price, reorgFrom, monitor, events, checked, virtual>>

\* A read of L1 or of the state, PostSequence or Add fails: from the start.
SendError ==
  /\ sender.pc \in {"sanity", "retrying", "get", "add"}
  /\ Happens("error")
  /\ sender' = Start(sender.last)
  /\ UNCHANGED <<mempool, mined, price, reorgFrom, rows, monitor, checked, virtual>>

-----------------------------------------------------------------------------
(* The rest of the node                                                    *)

\* The sequencer closes and checks a batch.
CheckBatch ==
  /\ checked < NBatch
  /\ checked' = checked + 1
  /\ UNCHANGED <<mempool, mined, price, reorgFrom, rows, monitor, events, virtual, sender>>

\* The synchronizer stores the sequences of L1, or what is left of them.
SyncVirtual ==
  /\ reorgFrom = None /\ virtual # Sequenced
  /\ virtual' = Sequenced
  /\ UNCHANGED <<mempool, mined, price, reorgFrom, rows, monitor, events, checked, sender>>

\* resetState deletes the batches of the dropped blocks in the same transaction.
KeptVirtual ==
  Min({virtual, Max({0} \cup {r.tx.id[2] : r \in {q \in mined : q.ok /\ q.tx.nonce < reorgFrom}})})

SyncReorg == Reorg /\ virtual' = KeptVirtual /\ UNCHANGED <<checked, sender>>

\* The sender and the manager are restarted; the rows survive.
Restart ==
  /\ Happens("restart")
  /\ monitor' = [i \in Id |-> Idle]
  /\ sender' = Start(0)
  /\ UNCHANGED <<mempool, mined, price, reorgFrom, rows, checked, virtual>>

L1 == L1Step /\ UNCHANGED <<checked, virtual, sender>>
Manager == ManagerStep /\ UNCHANGED <<checked, virtual, sender>>

tryToSendSequence ==
  \/ ResultsByStatus \/ HandleResult \/ WaitResult \/ ConfirmSequence
  \/ sanityCheck \/ RetrySanityCheck \/ getSequencesToSend \/ WaitForMoreBatches
  \/ SendSequence \/ SendError

Next == tryToSendSequence \/ Manager \/ L1 \/ CheckBatch \/ SyncVirtual \/ SyncReorg \/ Restart

\* The goroutines of the node and the nodes of L1 keep running, and a sequence
\* that waits for company is sent after the configured time.
Fairness ==
  /\ WF_vars(tryToSendSequence) /\ SF_vars(getSequencesToSend)
  /\ WF_vars(monitorTxs /\ UNCHANGED <<checked, virtual, sender>>)
  /\ \A i \in Id : WF_vars(monitorTx(i) /\ UNCHANGED <<checked, virtual, sender>>)
  /\ WF_vars(MineTx /\ UNCHANGED <<checked, virtual, sender>>)
  /\ WF_vars(MineEmptyBlock /\ UNCHANGED <<checked, virtual, sender>>)
  /\ WF_vars(CheckBatch) /\ WF_vars(SyncVirtual) /\ WF_vars(SyncReorg)

Spec == Init /\ [][Next]_vars /\ Fairness

-----------------------------------------------------------------------------
(* Properties                                                              *)

(***************************************************************************)
(* After a sequence has succeeded on L1 no other tx of the same monitored  *)
(* tx is mined: the nonce is only raised when every tx of the history has  *)
(* a failed receipt ("to avoid sending duplicated data to the roll-up"),   *)
(* with reverts, price raises, timeouts and restarts at any point.  It     *)
(* takes an L1 that answers: monitorTx skips a tx of the history that it   *)
(* gets an error for, which may be the one that succeeded.                 *)
(***************************************************************************)
NoDuplicatedData ==
  events["reorg"] = 0 /\ events["error"] = 0 =>
    \A r, q \in mined : r.ok /\ q.tx.id = r.tx.id => q.tx.nonce <= r.tx.nonce

(***************************************************************************)
(* There is one sequence under way at a time: tryToSendSequence adds one   *)
(* only when every row is done, also after a restart in the middle.        *)
(***************************************************************************)
OneOutstanding ==
  events["reorg"] = 0 => Cardinality({i \in Id : rows[i].status \notin {"none", "done"}}) <= 1

(***************************************************************************)
(* The checks of the sequence sender that halt it (no receipt, the last    *)
(* batch of the contract is not the last one sent, the state is ahead of   *)
(* L1) have no false alarm: without an L1 reorg they all pass.             *)
(***************************************************************************)
HaltsOnlyAfterReorg == sender.pc = "halted" => events["reorg"] > 0

(***************************************************************************)
(* No monitored tx fails without an L1 reorg, although its txs may revert: *)
(* the wait ends with an error for them, so monitorTx comes to its failed  *)
(* branch only when the receipt changed between the wait and GetTxReceipt. *)
(***************************************************************************)
FailsOnlyAfterReorg ==
  events["reorg"] = 0 => \A i \in Id : rows[i].status # "failed"

\* A tx that succeeded on L1 or may still be mined.
Live(t) == \/ \E r \in ReceiptsOf({t}) : r.ok
           \/ t \in mempool /\ t.nonce >= CurrentNonce /\ t.price >= price

\* The ways in which the sender stops for good.  A failed row is never set
\* done; a reorged one is never sent again; a row left as created by an error
\* or a restart between SendTx and Update is never priced again; the nonce of a
\* row is not reviewed while a tx of its history is missing on L1, even if it
\* can never be mined; a nonce once raised is never lowered.
Failed(i) == rows[i].status = "failed"
Forgotten(i) == rows[i].status \in {"reorged", "done"} /\ ~\E t \in rows[i].history : Live(t)
Underpriced(i) == /\ rows[i].status = "created"
                  /\ rows[i].history # {}
                  /\ rows[i].price < price
Overtaken(i) == /\ rows[i].status \in {"created", "sent"}
                /\ \E t \in rows[i].history : t.nonce < CurrentNonce /\ ReceiptsOf({t}) = {}
Gap(i) == /\ rows[i].status \in {"created", "sent", "reorged"}
          /\ rows[i].nonce > CurrentNonce
          /\ \A t \in mempool : t.nonce = CurrentNonce => t.price < price

Stuck ==
  \/ sender.pc = "halted"
  \/ \E i \in Id : Failed(i) \/ Forgotten(i) \/ Underpriced(i) \/ Overtaken(i) \/ Gap(i)

(***************************************************************************)
(* Every checked batch is sequenced on L1 in the end, through reverts,     *)
(* price raises, timeouts, errors, reorgs and restarts, unless one of the  *)
(* six dead ends above is reached: the retries of monitorTx have no other. *)
(***************************************************************************)
SequencedOrStuck == <>[](Sequenced = NBatch \/ Stuck)
=============================================================================
