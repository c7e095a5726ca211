---------------------------- MODULE TxSortedList ----------------------------
(***************************************************************************)
(* txSortedList: the ready transactions of all the senders, by descending  *)
(* gas price and first come first served among equal prices.  The code     *)
(* keeps a map from hash to transaction beside the slice; both are updated *)
(* together, so the map is the range of the sequence.                      *)
(***************************************************************************)
EXTENDS TxData, Sequences, FiniteSetsExt

insertAt(list, i, t) == SubSeq(list, 1, i - 1) \o <<t>> \o SubSeq(list, i, Len(list))

removeAt(list, i) == SubSeq(list, 1, i - 1) \o SubSeq(list, i + 1, Len(list))

\* Descending gas price.
isSorted(list) ==
  \A i, j \in 1..Len(list) : i < j => GasPrice[list[i]] >= GasPrice[list[j]]

\* addSort: sort.Search gives the first index whose price is lower.
addIndex(list, t) ==
  Min({i \in 1..Len(list) : GasPrice[t] > GasPrice[list[i]]} \cup {Len(list) + 1})

\* The indexes delete's scan visits before it gives up: from the first index
\* whose price is not higher (sort.Search) while the price stays the same.
deleteScan(list, t) ==
  LET first == Min({i \in 1..Len(list) : GasPrice[t] >= GasPrice[list[i]]}
                     \cup {Len(list) + 1})
  IN  {i \in first..Len(list) :
         \A j \in first..i : GasPrice[list[j]] = GasPrice[t]}

\* add: nothing happens when the transaction is already listed.
add(list, t) ==
  IF t \in Range(list) THEN list ELSE insertAt(list, addIndex(list, t), t)

\* delete: nothing happens when the scan does not meet the transaction.
delete(list, t) ==
  IF \E i \in deleteScan(list, t) : list[i] = t
  THEN removeAt(list, CHOOSE i \in deleteScan(list, t) : list[i] = t)
  ELSE list

\* Mutant: the previous ready transaction stays in the list.
moveReady_keepsPrev(list, prevReadyTx, newReadyTx) ==
  IF newReadyTx = NoTx THEN list ELSE add(list, newReadyTx)

\* The update applied by the worker after each change of an addrQueue: the
\* previous ready transaction leaves the list, the new one enters it.
moveReady(list, prevReadyTx, newReadyTx) ==
  LET l == IF prevReadyTx = NoTx THEN list ELSE delete(list, prevReadyTx)
  IN  IF newReadyTx = NoTx THEN l ELSE add(l, newReadyTx)
=============================================================================
