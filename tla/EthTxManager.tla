---------------------------- MODULE EthTxManager ----------------------------
(***************************************************************************)
(* The L1 transaction manager (ethtxmanager) and the L1 it talks to.       *)
(*                                                                         *)
(* A client adds a monitored tx, a row keyed by the range of batches it    *)
(* sequences.  monitorTxs runs cycles: one goroutine for each open row     *)
(* works on a copy of the row, asks L1 for receipts, signs, sends, waits   *)
(* and writes the whole row back.  The synchronizer marks rows as reorged. *)
(* All txs have the same sender, so a mined tx is identified by its nonce, *)
(* which also stands for the block it was mined in.                        *)
(***************************************************************************)
EXTENDS Integers, FiniteSets, FiniteSetsExt, Functions

CONSTANTS NBatch,          \* bound: batches of the trusted state
          MaxBatchesForL1,
          MaxPrice,        \* bound: gas price of L1
          Confirmations,   \* SequenceL1BlockConfirmations
          MaxEvents        \* bound: events of all kinds

Event == {"revert", "error", "reorg", "restart"}

ASSUME EthTxAssumption == /\ NBatch \in Nat \ {0}
                          /\ MaxBatchesForL1 \in Nat \ {0}
                          /\ MaxPrice \in Nat \ {0}
                          /\ Confirmations \in Nat
                          /\ MaxEvents \in Nat

VARIABLES mempool,   \* L1: signed txs sent and not mined
          mined,     \* L1: receipts of the canonical chain
          price,     \* L1: gas price
          reorgFrom, \* L1 reorg not yet processed by the synchronizer: its first nonce
          rows,      \* state.monitored_txs
          monitor,   \* goroutines of monitorTxs
          events

ethVars == <<mempool, mined, price, reorgFrom, rows, monitor, events>>

None == -1
MaxNonce == NBatch + MaxEvents
Id == {r \in (1 .. NBatch) \X (1 .. NBatch) : r[1] <= r[2] /\ r[2] - r[1] < MaxBatchesForL1}
Tx == [id : Id, nonce : 0 .. MaxNonce, price : 1 .. MaxPrice]
Receipt == [tx : Tx, ok : BOOLEAN, conf : 0 .. Confirmations]

Status == {"created", "sent", "failed", "confirmed", "reorged", "done"}
Row == [status : Status, nonce : 0 .. MaxNonce, price : 1 .. MaxPrice,
        block : None .. MaxNonce, history : SUBSET Tx]
NoRow == [status |-> "none"]
Idle == [pc |-> "idle"]

\* What goes wrong, at most MaxEvents times.
Happens(e) ==
  /\ FoldFunction(+, 0, events) < MaxEvents
  /\ events' = [events EXCEPT ![e] = @ + 1]

EthTypeOK ==
  /\ mempool \subseteq Tx
  /\ mined \subseteq Receipt
  /\ price \in 1 .. MaxPrice
  /\ reorgFrom \in None .. MaxNonce
  /\ rows \in [Id -> Row \cup {NoRow}]
  /\ \A i \in Id : \/ monitor[i] = Idle
                    \/ /\ monitor[i].pc \in {"check", "nonce", "build", "send", "sent",
                                            "wait", "receipt", "store"}
                       /\ monitor[i].row \in Row
  /\ events \in [Event -> 0 .. MaxEvents]

EthInit ==
  /\ mempool = {}
  /\ mined = {}
  /\ price = 1
  /\ reorgFrom = None
  /\ rows = [i \in Id |-> NoRow]
  /\ monitor = [i \in Id |-> Idle]
  /\ events = [e \in Event |-> 0]

-----------------------------------------------------------------------------
(* L1 (external)                                                           *)

\* NonceAt of the latest block.
CurrentNonce == Cardinality(mined)

\* lastBatchSequenced of the rollup contract.
Sequenced == Max({0} \cup {r.tx.id[2] : r \in {m \in mined : m.ok}})

\* sequenceBatches reverts unless it starts at the batch after the last one.
Succeeds(id) == id[1] = Sequenced + 1
EstimateGas(id) == Succeeds(id)

ReceiptsOf(T) == {r \in mined : r.tx \in T}
InNetwork(t) == t \in mempool \/ ReceiptsOf({t}) # {}

Deeper(r) == [r EXCEPT !.conf = IF @ < Confirmations THEN @ + 1 ELSE @]

\* A block with one of the txs; it may revert for a reason of its own.
MineTx ==
  \E t \in mempool, ok \in BOOLEAN :
    /\ t.nonce = CurrentNonce /\ t.price >= price
    /\ ok => Succeeds(t.id)
    /\ IF ~ok /\ Succeeds(t.id) THEN Happens("revert") ELSE UNCHANGED events
    /\ mined' = {Deeper(r) : r \in mined} \cup {[tx |-> t, ok |-> ok, conf |-> 0]}
    /\ mempool' = {u \in mempool : u.nonce > t.nonce}
    /\ UNCHANGED <<price, reorgFrom, rows, monitor>>

\* A block without them.
MineEmptyBlock ==
  /\ \E r \in mined : r.conf < Confirmations
  /\ mined' = {Deeper(r) : r \in mined}
  /\ UNCHANGED <<mempool, price, reorgFrom, rows, monitor, events>>

RaisePrice ==
  /\ price < MaxPrice
  /\ price' = price + 1
  /\ UNCHANGED <<mempool, mined, reorgFrom, rows, monitor, events>>

\* The txs of the dropped blocks return to the mempool or are forgotten.
ReorgL1 ==
  /\ Happens("reorg")
  /\ \E n \in {r.tx.nonce : r \in mined} :
       LET dropped == {r \in mined : r.tx.nonce >= n}
       IN  /\ mined' = {[r EXCEPT !.conf = 0] : r \in mined \ dropped}
           /\ \E back \in SUBSET {r.tx : r \in dropped} : mempool' = mempool \cup back
           /\ reorgFrom' = IF reorgFrom = None THEN n ELSE Min({n, reorgFrom})
  /\ UNCHANGED <<price, rows, monitor>>

-----------------------------------------------------------------------------
(* Client calls                                                            *)

\* Status of a new row: nonce and price of this moment.
NewRow == [status |-> "created", nonce |-> CurrentNonce, price |-> price,
           block |-> None, history |-> {}]

\* Add fails when the call would revert and when the row exists.
CanAdd(id) == EstimateGas(id) /\ rows[id] = NoRow
Add(id) == rows' = [rows EXCEPT ![id] = NewRow]

setStatusDone(id) == rows' = [rows EXCEPT ![id].status = "done"]

\* The synchronizer finds the reorg: rows from that block on, whatever their
\* status.
Reorg ==
  /\ reorgFrom # None
  /\ rows' = [i \in Id |-> IF rows[i] # NoRow /\ rows[i].block >= reorgFrom
                           THEN [rows[i] EXCEPT !.status = "reorged", !.block = None]
                           ELSE rows[i]]
  /\ reorgFrom' = None
  /\ UNCHANGED <<mempool, mined, price, monitor, events>>

-----------------------------------------------------------------------------
(* monitorTxs                                                              *)

\* A new cycle: every goroutine of the last one has ended.
monitorTxs ==
  LET open == {i \in Id : rows[i].status \in {"created", "sent", "reorged"}}
  IN  /\ \A i \in Id : monitor[i] = Idle
      /\ open # {}
      /\ monitor' = [i \in Id |-> IF i \in open THEN [pc |-> "check", row |-> rows[i]] ELSE Idle]
      /\ UNCHANGED <<mempool, mined, price, reorgFrom, rows, events>>

Goto(i, pc, row) == monitor' = [monitor EXCEPT ![i] = [pc |-> pc, row |-> row]]
Return(i) == monitor' = [monitor EXCEPT ![i] = Idle]
Update(i, row) == rows' = [rows EXCEPT ![i] = row]

Confirmed(row, r) == [row EXCEPT !.status = "confirmed", !.block = r.tx.nonce]

\* Mutant: the nonce is reviewed without any failed receipt.
NeedsNonceReview_always(asked) == asked # {}

\* Failed receipts, and none of the txs that L1 answered for is still not mined.
NeedsNonceReview(asked) ==
  /\ ReceiptsOf(asked) # {}
  /\ \A t \in asked : ReceiptsOf({t}) # {}

\* Receipts of the history; an error of L1 skips a tx.
CheckHistory(i) ==
  LET row == monitor[i].row
  IN  /\ monitor[i].pc = "check"
      /\ \E asked \in SUBSET row.history :
           /\ IF asked = row.history THEN UNCHANGED events ELSE Happens("error")
           /\ LET ok == {r \in ReceiptsOf(asked) : r.ok}
              IN  \/ \E r \in ok : Goto(i, "store", Confirmed(row, r))
                  \/ /\ ok = {}
                     /\ IF NeedsNonceReview(asked)
                        THEN Goto(i, "nonce", row)
                        ELSE IF row.status = "reorged" THEN Return(i)
                        ELSE Goto(i, "build", row)
      /\ UNCHANGED <<mempool, mined, price, reorgFrom, rows>>

\* Mutant: the nonce is kept.
HigherNonce_same(nonce) == nonce

HigherNonce(nonce) == Max({nonce, CurrentNonce})

\* reviewMonitoredTxNonce only ever raises it.
ReviewNonce(i) ==
  LET row == [monitor[i].row EXCEPT !.nonce = HigherNonce(@)]
  IN  /\ monitor[i].pc = "nonce"
      /\ Update(i, row)
      /\ IF row.status = "reorged" THEN Return(i) ELSE Goto(i, "build", row)
      /\ UNCHANGED <<mempool, mined, price, reorgFrom, events>>

Signed(i, row) == [id |-> i, nonce |-> row.nonce, price |-> row.price]

\* reviewMonitoredTx (not for a row that was never sent), then the signed tx
\* enters the history before it is sent.
BuildTx(i) ==
  LET row == monitor[i].row
      reviewed == IF row.status = "sent" THEN [row EXCEPT !.price = Max({@, price})] ELSE row
      built == [reviewed EXCEPT !.history = @ \cup {Signed(i, reviewed)}]
  IN  /\ monitor[i].pc = "build"
      /\ IF row.status = "sent" /\ ~EstimateGas(i)
         THEN Return(i) /\ UNCHANGED rows
         ELSE Goto(i, "send", built) /\ Update(i, built)
      /\ UNCHANGED <<mempool, mined, price, reorgFrom, events>>

\* A tx unknown to the network is sent; L1 refuses a nonce that is used.
SendTx(i) ==
  LET row == monitor[i].row
      t == Signed(i, row)
  IN  /\ monitor[i].pc = "send"
      /\ IF InNetwork(t) THEN Goto(i, "wait", row) /\ UNCHANGED mempool
         ELSE IF t.nonce < CurrentNonce THEN Return(i) /\ UNCHANGED mempool
         ELSE /\ mempool' = mempool \cup {t}
              /\ Goto(i, IF row.status = "created" THEN "sent" ELSE "wait",
                      [row EXCEPT !.status = "sent"])
      /\ UNCHANGED <<mined, price, reorgFrom, rows, events>>

\* The row of a tx sent for the first time.
StoreSent(i) ==
  /\ monitor[i].pc = "sent"
  /\ Update(i, monitor[i].row)
  /\ Goto(i, "wait", monitor[i].row)
  /\ UNCHANGED <<mempool, mined, price, reorgFrom, events>>

\* Mutant: a receipt of any status ends the wait.
MinedOk_any(t) == ReceiptsOf({t}) # {}

MinedOk(t) == \E r \in ReceiptsOf({t}) : r.ok

\* Until the tx is mined or the time is over.  A tx that reverted is an error
\* (operations.WaitTxToBeMined) and left to the next cycle.
WaitTxToBeMined(i) ==
  LET row == monitor[i].row
  IN  /\ monitor[i].pc = "wait"
      /\ \/ Return(i)
         \/ MinedOk(Signed(i, row)) /\ Goto(i, "receipt", row)
      /\ UNCHANGED <<mempool, mined, price, reorgFrom, rows, events>>

\* The receipt is asked for again, and may be another one by now.  The
\* monitoring ends when L1 gives no plain revert as the reason.
GetTxReceipt(i) ==
  LET row == monitor[i].row
      receipts == ReceiptsOf({Signed(i, row)})
  IN  /\ monitor[i].pc = "receipt"
      /\ \/ \E r \in receipts : r.ok /\ Goto(i, "store", Confirmed(row, r))
         \/ \E r \in receipts :
              ~r.ok /\ Goto(i, "store", [row EXCEPT !.status = "failed", !.block = r.tx.nonce])
         \/ (\A r \in receipts : ~r.ok) /\ Return(i)
      /\ UNCHANGED <<mempool, mined, price, reorgFrom, rows, events>>

\* The last Update of the cycle writes the whole row.
StoreResult(i) ==
  /\ monitor[i].pc = "store"
  /\ Update(i, monitor[i].row)
  /\ Return(i)
  /\ UNCHANGED <<mempool, mined, price, reorgFrom, events>>

\* An error of L1 or of the database ends the goroutine.
MonitorError(i) ==
  /\ monitor[i] # Idle
  /\ Happens("error")
  /\ Return(i)
  /\ UNCHANGED <<mempool, mined, price, reorgFrom, rows>>

monitorTx(i) ==
  \/ CheckHistory(i) \/ ReviewNonce(i) \/ BuildTx(i) \/ SendTx(i)
  \/ StoreSent(i) \/ WaitTxToBeMined(i) \/ GetTxReceipt(i) \/ StoreResult(i)

L1Step == MineTx \/ MineEmptyBlock \/ RaisePrice \/ ReorgL1
ManagerStep == monitorTxs \/ \E i \in Id : monitorTx(i) \/ MonitorError(i)
=============================================================================
