------------------------ MODULE SequenceSender_proofs ------------------------
(***************************************************************************)
(* The sequence sender and the L1 transaction manager, for any number of   *)
(* batches, gas prices and confirmations and any number of reverts,        *)
(* errors and restarts: as long as L1 does not reorganize there is one     *)
(* sequence under way at a time, no monitored tx fails and the sender does *)
(* not halt, and without errors no data is sent twice.                     *)
(***************************************************************************)
EXTENDS SequenceSender, FiniteSetTheorems, TLAPS

\* A leaf may take the SMT solver up to 30 seconds, twice.
USE SMTT(30), Z3T(30)

-----------------------------------------------------------------------------
(* The inductive invariant                                                 *)

AnyTx == [id : Id, nonce : Nat, price : Nat]
AnyReceipt == [tx : AnyTx, ok : BOOLEAN, conf : Nat]
AnyRow == [status : {"created", "sent", "confirmed", "done"}, nonce : Nat, price : Nat,
           block : Int, history : SUBSET AnyTx]
AnyMonitor ==
  [pc : {"check", "nonce", "build", "send", "sent", "wait", "receipt", "store"}, row : AnyRow]
Result == [id : Id, status : {"created", "sent", "confirmed"}, blocks : SUBSET Nat]
Chosen == [id : Id]
AnySender ==
  [pc : {"pending", "waiting", "confirming", "sanity", "get", "add"},
   results : SUBSET Result, result : {NoRow} \cup Result \cup Chosen, last : Nat]

\* Without a reorg no row fails, and the sender neither retries nor halts.
Types ==
  /\ mempool \subseteq AnyTx /\ mined \subseteq AnyReceipt
  /\ price \in Nat /\ reorgFrom = None
  /\ rows \in [Id -> AnyRow \cup {NoRow}]
  /\ monitor \in [Id -> AnyMonitor \cup {Idle}]
  /\ checked \in 0 .. NBatch /\ virtual \in Nat
  /\ sender \in AnySender

\* The txs with a receipt, by its status.
Good == {r.tx : r \in {m \in mined : m.ok}}
Bad == {r.tx : r \in {m \in mined : ~m.ok}}

\* The nonces of the mined txs are those below CurrentNonce.
L1OK ==
  /\ IsFiniteSet(mined)
  /\ \A r, q \in mined : r.tx.nonce = q.tx.nonce => r = q
  /\ \A r \in mined : r.tx.nonce < CurrentNonce
  /\ \A t \in mempool : CurrentNonce <= t.nonce

\* Row i, with the txs of the pool and those with a good and a bad receipt: its
\* txs on L1 are in its history, and one of a confirmed row succeeded.
RowOK(i, row, pool, good, bad, top) ==
  /\ \A t \in pool \cup good \cup bad : t.id = i => row # NoRow /\ t \in row.history
  /\ row # NoRow =>
       /\ i[2] <= top
       /\ \A t \in row.history : t.id = i
       /\ row.status \in {"confirmed", "done"} => \E t \in row.history : t \in good

\* Goroutine m of row i: the row is open, and m has its last version.
MonitorOK(i, row, m, good) ==
  m # Idle =>
    /\ row # NoRow /\ row.status \in {"created", "sent"}
    /\ m.pc \in {"check", "nonce", "build", "send", "wait", "receipt"} => m.row = row
    /\ m.pc = "sent" => m.row = [row EXCEPT !.status = "sent"]
    /\ m.pc = "store" =>
         \E t \in row.history :
           t \in good /\ m.row = [row EXCEPT !.status = "confirmed", !.block = t.nonce]
    /\ m.pc \in {"send", "sent", "wait", "receipt"} => Signed(i, row) \in row.history
    /\ m.pc = "receipt" => Signed(i, row) \in good

\* Without errors the nonce of row i is that of its last tx, as long as one that
\* was sent can still succeed or has succeeded.
NonceOK(i, row, m, pool, good, bad) ==
  row # NoRow =>
    /\ \A t \in row.history : t.nonce <= row.nonce
    /\ \A t \in pool \cup good : t.id = i => row.nonce <= t.nonce
    /\ m # Idle /\ m.pc = "nonce" => \A t \in row.history : t \in bad

Open(row) == row # NoRow /\ row.status # "done"

\* The sender, in state s, has at most one open row.
SenderOK(s, R, top, synced, sequenced) ==
  /\ \A i, j \in Id : Open(R[i]) /\ Open(R[j]) => i = j
  /\ s.pc \in {"confirming", "sanity", "get", "add"} => \A i \in Id : ~Open(R[i])
  /\ s.pc # "pending" => s.results = {}
  /\ \A a, b \in s.results : a = b
  /\ \A a \in s.results : a.status = "confirmed" =>
       R[a.id] # NoRow /\ R[a.id].status = "confirmed" /\ a.blocks # {}
  /\ s.pc = "add" => s.result \in Chosen /\ s.result.id[2] <= top
  /\ s.last # 0 => /\ \A i \in Id : R[i] # NoRow => i[2] <= s.last
                   /\ \E i \in Id : R[i] # NoRow /\ i[2] = s.last
  /\ synced <= sequenced

Quiet ==
  /\ Types /\ L1OK
  /\ SenderOK(sender, rows, checked, virtual, Sequenced)
  /\ \A i \in Id : RowOK(i, rows[i], mempool, Good, Bad, checked)
  /\ \A i \in Id : MonitorOK(i, rows[i], monitor[i], Good)
  /\ events["error"] = 0 => \A i \in Id : NonceOK(i, rows[i], monitor[i], mempool, Good, Bad)

IInv == events \in [Event -> Nat] /\ (events["reorg"] = 0 => Quiet)

\* The counters of the events only grow.
Grows ==
  /\ events \in [Event -> Nat] /\ events' \in [Event -> Nat]
  /\ \A e \in Event : events'[e] = 0 => events[e] = 0

\* An event that happens has happened.
LEMMA HappensCounts ==
  ASSUME Grows, NEW e \in Event, Happens(e)
  PROVE  events'[e] # 0
<1>1. events' = [events EXCEPT ![e] = @ + 1]
  BY Zenon DEF Happens
<1> QED
  BY <1>1 DEF Grows

-----------------------------------------------------------------------------
(* Bounded sets of numbers                                                 *)

\* Min of a non-empty set of naturals is its least element.
LEMMA MinFacts ==
  ASSUME NEW S, S \subseteq Nat, S # {}
  PROVE  Min(S) \in S /\ \A y \in S : Min(S) <= y
<1>1. \E x \in S : \A y \in S : ~(<<y, x>> \in OpToRel(<, Nat))
  BY Zenon, NatLessThanWellFounded, WFMin
<1>2. PICK x \in S : \A y \in S : ~(<<y, x>> \in OpToRel(<, Nat))
  BY Zenon, <1>1
<1>3. ASSUME NEW y \in S
      PROVE  x <= y
  <2>1. SUFFICES ASSUME y < x
                 PROVE  FALSE
    OBVIOUS
  <2>2. <<y, x>> \in OpToRel(<, Nat)
    BY <2>1 DEF OpToRel
  <2> QED
    BY Zenon, <1>2, <2>2
<1> QED
  BY Zenon, <1>3 DEF Min

\* Max of a non-empty bounded set of naturals is its greatest element.
LEMMA MaxFacts ==
  ASSUME NEW m \in Nat, NEW S, S \subseteq 0 .. m, S # {}
  PROVE  Max(S) \in S /\ \A y \in S : y <= Max(S)
<1> DEFINE T == {k \in Nat : k <= m /\ m - k \in S}
<1>1. T \subseteq Nat
  OBVIOUS
<1>2. \A y \in S : m - y \in T
  OBVIOUS
<1>3. T # {}
  BY Zenon, <1>2
<1>4. Min(T) \in T /\ \A k \in T : Min(T) <= k
  <2> HIDE DEF T
  <2> QED
    BY Zenon, <1>1, <1>3, MinFacts
<1> DEFINE x == m - Min(T)
<1>5. x \in S
  BY <1>4
<1>6. \A y \in S : Min(T) <= m - y
  <2> HIDE DEF T
  <2> QED
    BY Zenon, <1>2, <1>4
<1>7. \A y \in S : x >= y
  <2>1. Min(T) \in Nat
    BY <1>4
  <2>2. SUFFICES ASSUME NEW y \in S
                 PROVE  x >= y
    OBVIOUS
  <2>3. Min(T) <= m - y /\ y \in Nat
    BY <1>6
  <2> HIDE DEF T
  <2> QED
    BY <2>1, <2>3
<1>8. Max(S) \in S /\ \A y \in S : Max(S) >= y
  <2> HIDE DEF x
  <2> QED
    BY Zenon, <1>5, <1>7 DEF Max
<1> QED
  BY <1>8

-----------------------------------------------------------------------------
(* Receipts                                                                *)

\* The first and the last batch of a sequence.
LEMMA IdFacts ==
  ASSUME NEW i \in Id
  PROVE  i[1] \in Nat /\ i[2] \in 0 .. NBatch /\ i[1] <= i[2] /\ i[1] > 0
BY EthTxAssumption DEF Id

LastOf(G) == Max({0} \cup {t.id[2] : t \in G})

\* The last batch of a set of sequences.
LEMMA LastOfFacts ==
  ASSUME NEW G, G \subseteq AnyTx
  PROVE  /\ LastOf(G) \in 0 .. NBatch
         /\ \A t \in G : t.id[2] <= LastOf(G)
         /\ LastOf(G) = 0 \/ \E t \in G : t.id[2] = LastOf(G)
<1> DEFINE S == {0} \cup {t.id[2] : t \in G}
<1>1. \A t \in G : t.id \in Id
  BY DEF AnyTx
<1>2. \A t \in G : t.id[2] \in 0 .. NBatch
  BY Zenon, <1>1, IdFacts
<1>3. NBatch \in Nat
  BY EthTxAssumption
<1>4. 0 \in 0 .. NBatch
  BY <1>3
<1>5. S \subseteq 0 .. NBatch /\ S # {}
  BY Zenon, <1>2, <1>4
<1>6. LastOf(G) = Max(S)
  BY Zenon DEF LastOf
<1>7. Max(S) \in S /\ \A y \in S : y <= Max(S)
  <2> HIDE DEF S
  <2> QED
    BY Zenon, <1>3, <1>5, MaxFacts
<1> QED
  BY Zenon, <1>5, <1>6, <1>7

\* lastBatchSequenced is the last batch of the txs that succeeded.
LEMMA LastOfGood ==
  ASSUME NEW M
  PROVE  Max({0} \cup {r.tx.id[2] : r \in {m \in M : m.ok}})
         = LastOf({r.tx : r \in {m \in M : m.ok}})
<1> DEFINE G == {r.tx : r \in {m \in M : m.ok}}
<1>1. {r.tx.id[2] : r \in {m \in M : m.ok}} = {t.id[2] : t \in G}
  OBVIOUS
<1> QED
  BY Zenon, <1>1 DEF LastOf

\* What the receipts say, given that each nonce is used once.
LEMMA ReceiptFacts ==
  ASSUME Types, L1OK
  PROVE  /\ Good \subseteq AnyTx /\ Bad \subseteq AnyTx
         /\ CurrentNonce \in Nat
         /\ \A t \in Good \cup Bad : t.nonce < CurrentNonce
         /\ \A t \in Good : t \notin Bad
         /\ Sequenced = LastOf(Good)
<1>1. CurrentNonce \in Nat
  BY Zenon, FS_CardinalityType DEF L1OK, CurrentNonce
<1>2. \A r \in mined : r.tx \in AnyTx /\ r.ok \in BOOLEAN
  BY DEF Types, AnyReceipt
<1>3. Sequenced = LastOf(Good)
  BY Zenon, LastOfGood DEF Sequenced, Good
<1>4. \A t \in Good : \E r \in mined : r.tx = t /\ r.ok
  BY Zenon DEF Good
<1>5. \A t \in Bad : \E r \in mined : r.tx = t /\ ~r.ok
  BY Zenon DEF Bad
<1>6. \A t \in Good \cup Bad : t.nonce < CurrentNonce
  BY Zenon, <1>4, <1>5 DEF L1OK
<1>7. \A t \in Good : t \notin Bad
  <2>1. SUFFICES ASSUME NEW r \in mined, NEW q \in mined, r.ok, ~q.ok, r.tx = q.tx
                 PROVE  FALSE
    BY Zenon, <1>4, <1>5
  <2>2. r = q
    BY Zenon, <2>1 DEF L1OK
  <2> QED
    BY Zenon, <2>1, <2>2
<1>8. Good \subseteq AnyTx /\ Bad \subseteq AnyTx
  BY Zenon, <1>2, <1>4, <1>5
<1> QED
  BY Zenon, <1>1, <1>3, <1>6, <1>7, <1>8

\* ReceiptsOf of the txs T.
LEMMA ReceiptsOfFacts ==
  ASSUME NEW T
  PROVE  /\ ReceiptsOf(T) # {} <=> \E t \in T : t \in Good \cup Bad
         /\ \A r \in ReceiptsOf(T) : IF r.ok THEN r.tx \in Good \cap T ELSE r.tx \in Bad \cap T
         /\ \A t \in T \cap Good : \E r \in ReceiptsOf(T) : r.ok /\ r.tx = t
         /\ \A t \in T \cap Bad : \E r \in ReceiptsOf(T) : ~r.ok /\ r.tx = t
BY Zenon DEF ReceiptsOf, Good, Bad

\* The receipts of one tx.
LEMMA TxFacts ==
  ASSUME NEW t
  PROVE  /\ ReceiptsOf({t}) # {} <=> t \in Good \cup Bad
         /\ MinedOk(t) <=> t \in Good
         /\ \A r \in ReceiptsOf({t}) : r.tx = t /\ (IF r.ok THEN t \in Good ELSE t \in Bad)
BY Zenon DEF ReceiptsOf, MinedOk, Good, Bad

\* The next block confirms the others.
LEMMA DeeperFacts ==
  ASSUME Types, L1OK,
         NEW D, D = {Deeper(r) : r \in mined}
  PROVE  /\ D \subseteq AnyReceipt
         /\ IsFiniteSet(D) /\ Cardinality(D) = CurrentNonce
         /\ {r.tx : r \in {m \in D : m.ok}} = Good
         /\ {r.tx : r \in {m \in D : ~m.ok}} = Bad
         /\ \A r, q \in D : r.tx.nonce = q.tx.nonce => r = q
         /\ \A r \in D : r.tx.nonce < CurrentNonce
<1>1. ASSUME NEW r \in mined
      PROVE  Deeper(r) \in AnyReceipt /\ Deeper(r).tx = r.tx /\ Deeper(r).ok = r.ok
  BY EthTxAssumption DEF Types, AnyReceipt, Deeper
<1>2. \A d \in D : \E r \in mined : d = Deeper(r) /\ d.tx = r.tx /\ d.ok = r.ok
  BY Zenon, <1>1
<1>3. \A r \in mined : Deeper(r) \in D
  BY Zenon
<1>4. D \subseteq AnyReceipt
  BY Zenon, <1>1, <1>2
<1>5. \A r \in D : r.tx.nonce < CurrentNonce
  BY Zenon, <1>2 DEF L1OK
<1>6. \A r, q \in D : r.tx.nonce = q.tx.nonce => r = q
  <2>1. SUFFICES ASSUME NEW r \in D, NEW q \in D, r.tx.nonce = q.tx.nonce
                 PROVE  r = q
    BY Zenon
  <2>2. PICK a \in mined : r = Deeper(a) /\ r.tx = a.tx
    BY Zenon, <1>2
  <2>3. PICK b \in mined : q = Deeper(b) /\ q.tx = b.tx
    BY Zenon, <1>2
  <2>4. a = b
    BY Zenon, <2>1, <2>2, <2>3 DEF L1OK
  <2> QED
    BY Zenon, <2>2, <2>3, <2>4
<1>7. {r.tx : r \in {m \in D : m.ok}} = Good
  <2>1. ASSUME NEW d \in D, d.ok
        PROVE  d.tx \in Good
    BY Zenon, <1>2, <2>1 DEF Good
  <2>2. ASSUME NEW r \in mined, r.ok
        PROVE  \E d \in D : d.ok /\ d.tx = r.tx
    BY Zenon, <1>1, <1>3, <2>2
  <2> QED
    BY <2>1, <2>2 DEF Good
<1>8. {r.tx : r \in {m \in D : ~m.ok}} = Bad
  <2>1. ASSUME NEW d \in D, ~d.ok
        PROVE  d.tx \in Bad
    BY Zenon, <1>2, <2>1 DEF Bad
  <2>2. ASSUME NEW r \in mined, ~r.ok
        PROVE  \E d \in D : ~d.ok /\ d.tx = r.tx
    BY Zenon, <1>1, <1>3, <2>2
  <2> QED
    BY Zenon, <2>1, <2>2 DEF Bad
<1>9. IsFiniteSet(D) /\ Cardinality(D) = Cardinality(mined)
  <2> DEFINE f == [r \in mined |-> Deeper(r)]
  <2>1. f \in [mined -> D] /\ \A r \in mined : f[r] = Deeper(r)
    BY Zenon, <1>3
  <2> HIDE DEF f
  <2>2. \A a, b \in mined : f[a] = f[b] => a = b
    <3>1. SUFFICES ASSUME NEW a \in mined, NEW b \in mined, Deeper(a) = Deeper(b)
                   PROVE  a = b
      BY Zenon, <2>1
    <3>2. a.tx = b.tx
      BY Zenon, <1>1, <3>1
    <3> QED
      BY Zenon, <3>2 DEF L1OK
  <2>3. \A d \in D : \E r \in mined : f[r] = d
    BY Zenon, <1>2, <2>1
  <2>4. f \in Bijection(mined, D)
    BY Zenon, <2>1, <2>2, <2>3 DEF Bijection, Injection, Surjection, IsInjective
  <2>5. ExistsBijection(mined, D)
    BY Zenon, <2>4 DEF ExistsBijection
  <2> QED
    BY Zenon, <2>5, FS_Bijection DEF L1OK
<1> QED
  BY Zenon, <1>4, <1>5, <1>6, <1>7, <1>8, <1>9 DEF CurrentNonce

-----------------------------------------------------------------------------
(* The steps of L1                                                         *)

\* What a step of L1 has to show.
LEMMA L1Keeps ==
  ASSUME Quiet, Grows, UNCHANGED <<reorgFrom, rows, monitor, checked, virtual, sender>>,
         price' \in Nat, mempool' \subseteq mempool, mined' \subseteq AnyReceipt, L1OK',
         Good \subseteq Good', Good' \subseteq Good \cup mempool,
         Bad \subseteq Bad', Bad' \subseteq Bad \cup mempool,
         Sequenced <= Sequenced'
  PROVE  Quiet'
<1>1. Types'
  BY Zenon DEF Quiet, Types
<1>2. SenderOK(sender, rows, checked, virtual, Sequenced)'
  <2>1. virtual <= Sequenced'
    <3>1. virtual \in Nat /\ virtual <= Sequenced
      BY Zenon DEF Quiet, Types, SenderOK
    <3>2. Sequenced \in Int /\ Sequenced' \in Int
      <4>1. Sequenced = LastOf(Good) /\ Sequenced' = LastOf(Good')
        BY Zenon, LastOfGood DEF Sequenced, Good
      <4>2. Good \subseteq AnyTx /\ Good' \subseteq AnyTx
        BY Zenon, ReceiptFacts DEF Quiet, Types
      <4>3. Sequenced \in 0 .. NBatch /\ Sequenced' \in 0 .. NBatch
        BY Zenon, <4>1, <4>2, LastOfFacts
      <4> QED
        BY <4>3, EthTxAssumption
    <3> QED
      BY <3>1, <3>2
  <2> QED
    BY Zenon, <2>1 DEF Quiet, SenderOK
<1>3. ASSUME NEW i \in Id
      PROVE  RowOK(i, rows[i], mempool, Good, Bad, checked)'
  <2>1. RowOK(i, rows[i], mempool, Good, Bad, checked)
    BY Zenon DEF Quiet
  <2> QED
    BY Zenon, <2>1 DEF RowOK
<1>4. ASSUME NEW i \in Id
      PROVE  MonitorOK(i, rows[i], monitor[i], Good)'
  <2>1. MonitorOK(i, rows[i], monitor[i], Good)
    BY Zenon DEF Quiet
  <2>2. MonitorOK(i, rows[i], monitor[i], Good')
    BY Zenon, <2>1 DEF MonitorOK
  <2> QED
    BY Zenon, <2>2 DEF MonitorOK, Signed
<1>5. ASSUME events'["error"] = 0, NEW i \in Id
      PROVE  NonceOK(i, rows[i], monitor[i], mempool, Good, Bad)'
  <2>1. NonceOK(i, rows[i], monitor[i], mempool, Good, Bad)
    BY Zenon, <1>5 DEF Quiet, Grows, Event
  <2> QED
    BY Zenon, <2>1 DEF NonceOK
<1> QED
  BY Zenon, <1>1, <1>2, <1>3, <1>4, <1>5 DEF Quiet

\* A block without a tx of the node.
LEMMA MineEmptyBlockStep ==
  ASSUME Quiet, Grows, MineEmptyBlock, UNCHANGED <<checked, virtual, sender>>
  PROVE  Quiet'
<1>1. Types /\ L1OK /\ mined' = {Deeper(r) : r \in mined} /\ price' \in Nat
  BY Zenon DEF Quiet, Types, MineEmptyBlock
<1>2. /\ mined' \subseteq AnyReceipt /\ IsFiniteSet(mined') /\ CurrentNonce' = CurrentNonce
      /\ Good' = Good /\ Bad' = Bad
      /\ \A r, q \in mined' : r.tx.nonce = q.tx.nonce => r = q
      /\ \A r \in mined' : r.tx.nonce < CurrentNonce
  BY Zenon, <1>1, DeeperFacts DEF Good, Bad, CurrentNonce
<1>3. mempool' = mempool
  BY Zenon DEF MineEmptyBlock
<1>4. L1OK'
  BY Zenon, <1>1, <1>2, <1>3 DEF L1OK
<1>5. Sequenced' = LastOf(Good') /\ Sequenced = LastOf(Good)
  BY Zenon, LastOfGood DEF Sequenced, Good
<1>6. Sequenced \in 0 .. NBatch
  BY Zenon, <1>1, <1>5, ReceiptFacts, LastOfFacts
<1>7. Sequenced <= Sequenced'
  <2>1. Sequenced' = Sequenced
    BY Zenon, <1>2, <1>5
  <2> QED
    BY <1>6, <2>1, EthTxAssumption
<1> QED
  BY Zenon, <1>1, <1>2, <1>3, <1>4, <1>7, L1Keeps DEF MineEmptyBlock

\* The gas price on L1 goes up.
LEMMA RaisePriceStep ==
  ASSUME Quiet, Grows, RaisePrice, UNCHANGED <<checked, virtual, sender>>
  PROVE  Quiet'
<1>1. price' \in Nat
  BY DEF Quiet, Types, RaisePrice
<1>2. UNCHANGED <<mempool, mined>>
  BY Zenon DEF RaisePrice
<1>3. Good' = Good /\ Bad' = Bad /\ Sequenced' = Sequenced /\ L1OK'
  BY Zenon, <1>2 DEF Quiet, Good, Bad, Sequenced, L1OK, CurrentNonce
<1>4. Sequenced = LastOf(Good)
  BY Zenon, LastOfGood DEF Sequenced, Good
<1>5. Sequenced \in 0 .. NBatch
  BY Zenon, <1>4, ReceiptFacts, LastOfFacts DEF Quiet
<1>6. Sequenced <= Sequenced'
  BY <1>3, <1>5, EthTxAssumption
<1> QED
  BY Zenon, <1>1, <1>2, <1>3, <1>6, L1Keeps DEF Quiet, Types, RaisePrice

\* A tx is mined: it is the one of its nonce, and succeeds when it continues the
\* sequences on L1.
LEMMA MineTxStep ==
  ASSUME Quiet, Grows, MineTx, UNCHANGED <<checked, virtual, sender>>
  PROVE  Quiet'
<1> DEFINE D == {Deeper(r) : r \in mined}
           new(t, ok) == [tx |-> t, ok |-> ok, conf |-> 0]
<1>1. Types /\ L1OK
  BY Zenon DEF Quiet
<1>2. PICK t \in mempool, ok \in BOOLEAN :
        /\ t.nonce = CurrentNonce
        /\ ok => Succeeds(t.id)
        /\ mined' = D \cup {new(t, ok)}
        /\ mempool' = {u \in mempool : u.nonce > t.nonce}
        /\ UNCHANGED <<price, reorgFrom, rows, monitor>>
  BY Zenon DEF MineTx
<1> DEFINE n == new(t, ok)
<1>3. /\ D \subseteq AnyReceipt /\ IsFiniteSet(D) /\ Cardinality(D) = CurrentNonce
      /\ {r.tx : r \in {m \in D : m.ok}} = Good
      /\ {r.tx : r \in {m \in D : ~m.ok}} = Bad
      /\ \A r, q \in D : r.tx.nonce = q.tx.nonce => r = q
      /\ \A r \in D : r.tx.nonce < CurrentNonce
  BY Zenon, <1>1, DeeperFacts
<1>4. n \in AnyReceipt /\ n.tx = t /\ n.ok = ok
  BY <1>1 DEF Types, AnyReceipt
<1>5. CurrentNonce \in Nat /\ \A r \in D : r.tx.nonce \in Nat
  BY <1>1, <1>3, ReceiptFacts DEF AnyReceipt, AnyTx
<1>6. mined' = D \cup {n}
  BY Zenon, <1>2
<1> HIDE DEF D, new
<1>7. n \notin D /\ \A r \in D : r.tx.nonce # n.tx.nonce
  <2>1. \A r \in D : r.tx.nonce # n.tx.nonce
    <3>1. SUFFICES ASSUME NEW r \in D
                   PROVE  r.tx.nonce # n.tx.nonce
      BY Zenon
    <3>2. r.tx.nonce < CurrentNonce /\ r.tx.nonce \in Nat /\ n.tx.nonce = CurrentNonce
      BY Zenon, <1>2, <1>3, <1>4, <1>5
    <3> QED
      BY <1>5, <3>2
  <2> QED
    BY Zenon, <2>1
<1>8. CurrentNonce' = CurrentNonce + 1 /\ IsFiniteSet(mined')
  <2>1. /\ IsFiniteSet(D \cup {n})
        /\ Cardinality(D \cup {n}) = IF n \in D THEN Cardinality(D) ELSE Cardinality(D) + 1
    BY Zenon, <1>3, FS_AddElement
  <2> QED
    BY Zenon, <1>3, <1>6, <1>7, <2>1 DEF CurrentNonce
<1>9. L1OK'
  <2>1. \A r, q \in mined' : r.tx.nonce = q.tx.nonce => r = q
    BY Zenon, <1>3, <1>6, <1>7
  <2>2. \A r \in mined' : r.tx.nonce < CurrentNonce'
    <3>1. SUFFICES ASSUME NEW r \in mined'
                   PROVE  r.tx.nonce < CurrentNonce'
      BY Zenon
    <3>2. CASE r \in D
      <4>1. r.tx.nonce < CurrentNonce /\ r.tx.nonce \in Nat
        BY Zenon, <1>3, <1>5, <3>2
      <4> QED
        BY <1>5, <1>8, <4>1
    <3>3. CASE r = n
      <4>1. r.tx.nonce = CurrentNonce
        BY Zenon, <1>2, <1>4, <3>3
      <4> QED
        BY <1>5, <1>8, <4>1
    <3> QED
      BY Zenon, <1>6, <3>2, <3>3
  <2>3. \A u \in mempool' : CurrentNonce' <= u.nonce
    <3>1. SUFFICES ASSUME NEW u \in mempool'
                   PROVE  CurrentNonce' <= u.nonce
      BY Zenon
    <3>2. u \in mempool /\ u.nonce > CurrentNonce
      BY Zenon, <1>2
    <3>3. u.nonce \in Nat
      BY <1>1, <3>2 DEF Types, AnyTx
    <3> QED
      BY <1>5, <1>8, <3>2, <3>3
  <2> QED
    BY Zenon, <1>8, <2>1, <2>2, <2>3 DEF L1OK
<1>10. /\ Good' = IF ok THEN Good \cup {t} ELSE Good
       /\ Bad' = IF ok THEN Bad ELSE Bad \cup {t}
  <2>1. /\ {r.tx : r \in {m \in mined' : m.ok}}
           = {r.tx : r \in {m \in D : m.ok}} \cup (IF ok THEN {t} ELSE {})
        /\ {r.tx : r \in {m \in mined' : ~m.ok}}
           = {r.tx : r \in {m \in D : ~m.ok}} \cup (IF ok THEN {} ELSE {t})
    <3> HIDE DEF n
    <3> QED
      BY <1>4, <1>6
  <2>2. /\ Good' = Good \cup (IF ok THEN {t} ELSE {})
        /\ Bad' = Bad \cup (IF ok THEN {} ELSE {t})
    BY Zenon, <1>3, <2>1 DEF Good, Bad
  <2> QED
    BY <2>2
<1>11. Sequenced <= Sequenced'
  <2>1. Sequenced = LastOf(Good) /\ Sequenced' = LastOf(Good')
    BY Zenon, LastOfGood DEF Sequenced, Good
  <2>2. Good \subseteq AnyTx /\ t \in AnyTx
    BY Zenon, <1>1, ReceiptFacts DEF Types
  <2>3. Good' \subseteq AnyTx /\ Good \subseteq Good'
    BY Zenon, <1>10, <2>2
  <2>4. /\ Sequenced \in 0 .. NBatch /\ Sequenced' \in 0 .. NBatch
        /\ Sequenced = 0 \/ \E u \in Good : u.id[2] = Sequenced
        /\ \A u \in Good' : u.id[2] <= Sequenced'
    BY Zenon, <2>1, <2>2, <2>3, LastOfFacts
  <2>5. CASE Sequenced = 0
    BY <2>4, <2>5
  <2>6. CASE \E u \in Good : u.id[2] = Sequenced
    BY Zenon, <2>3, <2>4, <2>6
  <2> QED
    BY Zenon, <2>4, <2>5, <2>6
<1>12. /\ mined' \subseteq AnyReceipt /\ mempool' \subseteq mempool /\ price' \in Nat
       /\ Good \subseteq Good' /\ Good' \subseteq Good \cup mempool
       /\ Bad \subseteq Bad' /\ Bad' \subseteq Bad \cup mempool
  BY Zenon, <1>1, <1>2, <1>3, <1>4, <1>6, <1>10 DEF Types
<1> QED
  BY Zenon, <1>2, <1>9, <1>11, <1>12, L1Keeps

-----------------------------------------------------------------------------
(* The steps of the manager                                                *)

\* What a step of the goroutine of row i has to show: it leaves the row as row
\* and is in state m.
LEMMA MonitorKeeps ==
  ASSUME Quiet, Grows, UNCHANGED <<mined, price, reorgFrom, checked, virtual, sender>>,
         NEW i \in Id, monitor[i] # Idle,
         NEW row \in AnyRow, rows' = [rows EXCEPT ![i] = row], row.status # "done",
         NEW m \in AnyMonitor \cup {Idle}, monitor' = [monitor EXCEPT ![i] = m],
         mempool' \subseteq AnyTx,
         \A t \in mempool' : t \in mempool \/ (t.id = i /\ CurrentNonce <= t.nonce),
         RowOK(i, row, mempool', Good, Bad, checked),
         MonitorOK(i, row, m, Good),
         events'["error"] = 0 => NonceOK(i, row, m, mempool', Good, Bad)
  PROVE  Quiet'
<1>1. /\ rows \in [Id -> AnyRow \cup {NoRow}] /\ monitor \in [Id -> AnyMonitor \cup {Idle}]
      /\ rows[i] # NoRow /\ rows[i].status \in {"created", "sent"}
  BY Zenon DEF Quiet, Types, MonitorOK
<1>2. row # NoRow /\ Open(rows[i]) /\ Open(row)
  <2>1. row # NoRow
    BY DEF AnyRow, NoRow
  <2> QED
    BY <1>1, <2>1 DEF Open
<1>3. /\ rows'[i] = row /\ \A j \in Id : j # i => rows'[j] = rows[j]
      /\ monitor'[i] = m /\ \A j \in Id : j # i => monitor'[j] = monitor[j]
  BY Zenon, <1>1
<1>4. Good' = Good /\ Bad' = Bad /\ Sequenced' = Sequenced /\ CurrentNonce' = CurrentNonce
  BY Zenon DEF Good, Bad, Sequenced, CurrentNonce
<1>5. Types'
  <2>1. rows' \in [Id -> AnyRow \cup {NoRow}] /\ monitor' \in [Id -> AnyMonitor \cup {Idle}]
    BY Zenon, <1>1
  <2> QED
    BY Zenon, <2>1 DEF Quiet, Types
<1>6. L1OK'
  BY Zenon, <1>4 DEF Quiet, L1OK
<1>7. \A j \in Id : Open(rows'[j]) <=> Open(rows[j])
  BY Zenon, <1>2, <1>3
<1>8. SenderOK(sender, rows', checked, virtual, Sequenced)
  <2>1. SenderOK(sender, rows, checked, virtual, Sequenced)
    BY Zenon DEF Quiet
  <2>2. \A a \in sender.results : a.status = "confirmed" => rows'[a.id] = rows[a.id]
    <3>1. sender.results \subseteq Result
      BY DEF Quiet, Types, AnySender
    <3>2. \A a \in sender.results : a.id \in Id
      BY <3>1 DEF Result
    <3>3. ASSUME NEW a \in sender.results, a.status = "confirmed"
          PROVE  a.id # i
      <4>1. rows[a.id].status = "confirmed"
        BY Zenon, <2>1, <3>3 DEF SenderOK
      <4> QED
        BY <1>1, <4>1
    <3> QED
      BY Zenon, <1>3, <3>2, <3>3
  <2>3. \A j \in Id : rows'[j] # NoRow <=> rows[j] # NoRow
    BY Zenon, <1>1, <1>2, <1>3
  <2> QED
    BY Zenon, <1>7, <2>1, <2>2, <2>3 DEF SenderOK
<1>9. ASSUME NEW j \in Id
      PROVE  RowOK(j, rows'[j], mempool', Good, Bad, checked)
  <2>1. RowOK(j, rows[j], mempool, Good, Bad, checked)
    BY Zenon DEF Quiet
  <2>2. CASE j # i
    <3>1. \A t \in mempool' : t.id = j => t \in mempool
      BY Zenon, <2>2
    <3>2. RowOK(j, rows[j], mempool', Good, Bad, checked)
      BY Zenon, <2>1, <3>1 DEF RowOK
    <3> QED
      BY Zenon, <1>3, <2>2, <3>2
  <2> QED
    BY Zenon, <1>3, <2>2
<1>10. ASSUME NEW j \in Id
       PROVE  MonitorOK(j, rows'[j], monitor'[j], Good)
  <2>1. MonitorOK(j, rows[j], monitor[j], Good)
    BY Zenon DEF Quiet
  <2> QED
    BY Zenon, <1>3, <2>1
<1>11. ASSUME events'["error"] = 0, NEW j \in Id
       PROVE  NonceOK(j, rows'[j], monitor'[j], mempool', Good, Bad)
  <2>1. NonceOK(j, rows[j], monitor[j], mempool, Good, Bad)
    BY Zenon, <1>11 DEF Quiet, Grows, Event
  <2>2. CASE j # i
    <3>1. \A t \in mempool' : t.id = j => t \in mempool
      BY Zenon, <2>2
    <3>2. NonceOK(j, rows[j], monitor[j], mempool', Good, Bad)
      BY Zenon, <2>1, <3>1 DEF NonceOK
    <3> QED
      BY Zenon, <1>3, <2>2, <3>2
  <2> QED
    BY Zenon, <1>3, <1>11, <2>2
<1> QED
  BY Zenon, <1>4, <1>5, <1>6, <1>8, <1>9, <1>10, <1>11 DEF Quiet

\* What the step of a goroutine starts from.
LEMMA MonitorFacts ==
  ASSUME Quiet, NEW i \in Id, monitor[i] # Idle
  PROVE  /\ rows[i] \in AnyRow /\ rows[i].status \in {"created", "sent"}
         /\ monitor[i] \in AnyMonitor /\ rows = [rows EXCEPT ![i] = rows[i]]
         /\ RowOK(i, rows[i], mempool, Good, Bad, checked)
         /\ MonitorOK(i, rows[i], monitor[i], Good)
         /\ events["error"] = 0 => NonceOK(i, rows[i], monitor[i], mempool, Good, Bad)
<1>1. /\ rows \in [Id -> AnyRow \cup {NoRow}] /\ monitor \in [Id -> AnyMonitor \cup {Idle}]
  BY Zenon DEF Quiet, Types
<1>2. rows[i] # NoRow /\ rows[i].status \in {"created", "sent"}
  BY Zenon DEF Quiet, MonitorOK
<1>3. rows = [rows EXCEPT ![i] = rows[i]]
  BY Zenon, <1>1
<1> QED
  BY Zenon, <1>1, <1>2, <1>3 DEF Quiet

\* A goroutine is not idle at its program counters.
LEMMA NotIdle ==
  ASSUME NEW m, m.pc # "idle"
  PROVE  m # Idle
BY DEF Idle

\* What a step has to show that writes neither the row nor to L1.
LEMMA GotoKeeps ==
  ASSUME Quiet, Grows,
         UNCHANGED <<mempool, mined, price, reorgFrom, rows, checked, virtual, sender>>,
         NEW i \in Id, monitor[i] # Idle,
         NEW m \in AnyMonitor \cup {Idle}, monitor' = [monitor EXCEPT ![i] = m],
         MonitorOK(i, rows[i], m, Good),
         events'["error"] = 0 /\ m # Idle /\ m.pc = "nonce" => \A t \in rows[i].history : t \in Bad
  PROVE  Quiet'
<1>1. /\ rows[i] \in AnyRow /\ rows[i].status \in {"created", "sent"}
      /\ rows' = [rows EXCEPT ![i] = rows[i]]
      /\ RowOK(i, rows[i], mempool', Good, Bad, checked)
      /\ events["error"] = 0 => NonceOK(i, rows[i], monitor[i], mempool, Good, Bad)
  BY Zenon, MonitorFacts
<1>2. events'["error"] = 0 => NonceOK(i, rows[i], m, mempool', Good, Bad)
  <2>1. SUFFICES ASSUME events'["error"] = 0
                 PROVE  NonceOK(i, rows[i], m, mempool', Good, Bad)
    BY Zenon
  <2>2. NonceOK(i, rows[i], monitor[i], mempool, Good, Bad)
    BY Zenon, <1>1, <2>1 DEF Grows, Event
  <2> QED
    BY Zenon, <2>1, <2>2 DEF NonceOK
<1>3. rows[i].status # "done"
  BY <1>1
<1>4. mempool' \subseteq AnyTx /\ mempool' = mempool
  BY Zenon DEF Quiet, Types
<1> QED
  BY Zenon, <1>1, <1>2, <1>3, <1>4, MonitorKeeps

\* monitorTx returns.
LEMMA ReturnKeeps ==
  ASSUME Quiet, Grows,
         UNCHANGED <<mempool, mined, price, reorgFrom, rows, checked, virtual, sender>>,
         NEW i \in Id, monitor[i] # Idle, Return(i)
  PROVE  Quiet'
<1>1. MonitorOK(i, rows[i], Idle, Good)
  BY Zenon DEF MonitorOK
<1> QED
  BY Zenon, <1>1, GotoKeeps DEF Return

\* The row of a sequence that succeeded.
LEMMA ConfirmedFacts ==
  ASSUME Quiet, NEW i \in Id, NEW row \in AnyRow, NEW r, r.tx \in row.history
  PROVE  /\ Confirmed(row, r) \in AnyRow
         /\ Confirmed(row, r) = [row EXCEPT !.status = "confirmed", !.block = r.tx.nonce]
<1>1. r.tx.nonce \in Int
  BY DEF AnyRow, AnyTx
<1> QED
  BY Zenon, <1>1 DEF Confirmed, AnyRow

\* monitorTx looks for a mined tx among those of the row.
LEMMA CheckHistoryStep ==
  ASSUME Quiet, Grows, NEW i \in Id, CheckHistory(i), UNCHANGED <<checked, virtual, sender>>
  PROVE  Quiet'
<1> DEFINE row == monitor[i].row
<1>1. monitor[i].pc = "check" /\ UNCHANGED <<mempool, mined, price, reorgFrom, rows>>
  BY Zenon DEF CheckHistory
<1>2. monitor[i] # Idle
  BY Zenon, <1>1, NotIdle
<1>3. row = rows[i] /\ row \in AnyRow /\ row # NoRow /\ row.status \in {"created", "sent"}
  BY Zenon, <1>1, <1>2, MonitorFacts DEF MonitorOK
<1>4. PICK asked \in SUBSET row.history :
        /\ IF asked = row.history THEN UNCHANGED events ELSE Happens("error")
        /\ \/ \E r \in {r \in ReceiptsOf(asked) : r.ok} : Goto(i, "store", Confirmed(row, r))
           \/ /\ {r \in ReceiptsOf(asked) : r.ok} = {}
              /\ IF NeedsNonceReview(asked)
                 THEN Goto(i, "nonce", row)
                 ELSE IF row.status = "reorged" THEN Return(i)
                 ELSE Goto(i, "build", row)
  BY Zenon DEF CheckHistory
<1> HIDE DEF row
<1>5. CASE \E r \in {r \in ReceiptsOf(asked) : r.ok} : Goto(i, "store", Confirmed(row, r))
  <2>1. PICK r \in ReceiptsOf(asked) : r.ok /\ Goto(i, "store", Confirmed(row, r))
    BY Zenon, <1>5
  <2> DEFINE m == [pc |-> "store", row |-> Confirmed(row, r)]
  <2>2. r.tx \in Good /\ r.tx \in row.history
    BY Zenon, <2>1, ReceiptsOfFacts
  <2>3. /\ Confirmed(row, r) \in AnyRow
        /\ Confirmed(row, r) = [row EXCEPT !.status = "confirmed", !.block = r.tx.nonce]
    BY Zenon, <1>3, <2>2, ConfirmedFacts
  <2>4. m \in AnyMonitor /\ m.pc = "store" /\ m.row = Confirmed(row, r)
    BY <2>3 DEF AnyMonitor
  <2>5. monitor' = [monitor EXCEPT ![i] = m]
    BY Zenon, <2>1 DEF Goto
  <2> HIDE DEF m
  <2>6. MonitorOK(i, row, m, Good)
    <3>1. m.pc \notin {"check", "nonce", "build", "send", "sent", "wait", "receipt"}
      BY <2>4
    <3> QED
      BY Zenon, <1>3, <2>2, <2>3, <2>4, <3>1 DEF MonitorOK
  <2>7. m.pc # "nonce"
    BY <2>4
  <2> QED
    BY Zenon, <1>1, <1>2, <1>3, <2>4, <2>5, <2>6, <2>7, GotoKeeps
<1>6. CASE {r \in ReceiptsOf(asked) : r.ok} = {} /\ NeedsNonceReview(asked)
  <2> DEFINE m == [pc |-> "nonce", row |-> row]
  <2>1. m \in AnyMonitor /\ m.pc = "nonce" /\ m.row = row
    BY <1>3 DEF AnyMonitor
  <2>2. monitor' = [monitor EXCEPT ![i] = m]
    BY Zenon, <1>4, <1>6 DEF Goto
  <2>3. ASSUME events'["error"] = 0, NEW t \in row.history
        PROVE  t \in Bad
    <3>1. asked = row.history
      BY Zenon, <1>4, <2>3, HappensCounts DEF Event
    <3>2. t \in Good \cup Bad
      <4>1. ReceiptsOf({t}) # {}
        BY Zenon, <1>6, <3>1 DEF NeedsNonceReview
      <4> QED
        BY Zenon, <4>1, TxFacts
    <3>3. t \notin Good
      <4>1. \A u \in asked \cap Good : \E r \in ReceiptsOf(asked) : r.ok /\ r.tx = u
        BY Zenon, ReceiptsOfFacts
      <4> QED
        BY Zenon, <1>6, <3>1, <4>1
    <3> QED
      BY Zenon, <3>2, <3>3
  <2> HIDE DEF m
  <2>4. MonitorOK(i, row, m, Good)
    BY <1>3, <2>1 DEF MonitorOK
  <2> QED
    BY Zenon, <1>1, <1>2, <1>3, <2>1, <2>2, <2>3, <2>4, GotoKeeps
<1>7. CASE Return(i)
  BY Zenon, <1>1, <1>2, <1>7, ReturnKeeps
<1>8. CASE Goto(i, "build", row)
  <2> DEFINE m == [pc |-> "build", row |-> row]
  <2>1. m \in AnyMonitor /\ m.pc = "build" /\ m.row = row
    BY <1>3 DEF AnyMonitor
  <2>2. monitor' = [monitor EXCEPT ![i] = m]
    BY Zenon, <1>8 DEF Goto
  <2> HIDE DEF m
  <2>3. MonitorOK(i, row, m, Good) /\ m.pc # "nonce"
    BY <1>3, <2>1 DEF MonitorOK
  <2> QED
    BY Zenon, <1>1, <1>2, <1>3, <2>1, <2>2, <2>3, GotoKeeps
<1> QED
  BY Zenon, <1>4, <1>5, <1>6, <1>7, <1>8

\* The greater of two nonces or prices.
LEMMA MaxOfTwo ==
  ASSUME NEW a \in Nat, NEW b \in Nat
  PROVE  Max({a, b}) \in Nat /\ a <= Max({a, b}) /\ b <= Max({a, b})
<1>1. a + b \in Nat /\ {a, b} \subseteq 0 .. a + b /\ {a, b} # {}
  OBVIOUS
<1>2. Max({a, b}) \in {a, b} /\ \A y \in {a, b} : y <= Max({a, b})
  BY Zenon, <1>1, MaxFacts
<1> QED
  BY Zenon, <1>2

\* reviewMonitoredTxNonce: a nonce that L1 has used is replaced.
LEMMA ReviewNonceStep ==
  ASSUME Quiet, Grows, NEW i \in Id, ReviewNonce(i), UNCHANGED <<checked, virtual, sender>>
  PROVE  Quiet'
<1> DEFINE old == rows[i]
           row == [old EXCEPT !.nonce = HigherNonce(@)]
           m == [pc |-> "build", row |-> row]
<1>1. monitor[i].pc = "nonce" /\ monitor[i] # Idle /\ UNCHANGED <<mempool, mined, price, reorgFrom>>
  BY Zenon, NotIdle DEF ReviewNonce
<1>2. /\ monitor[i].row = old /\ old \in AnyRow /\ old # NoRow
      /\ old.status \in {"created", "sent"}
      /\ RowOK(i, old, mempool, Good, Bad, checked)
      /\ events["error"] = 0 => NonceOK(i, old, monitor[i], mempool, Good, Bad)
  BY Zenon, <1>1, MonitorFacts DEF MonitorOK
<1>3. CurrentNonce \in Nat /\ mempool' \subseteq AnyTx /\ mempool' = mempool
  BY Zenon, <1>1, ReceiptFacts DEF Quiet, Types
<1>4. HigherNonce(old.nonce) \in Nat /\ old.nonce <= HigherNonce(old.nonce) /\ old.nonce \in Nat
  <2>1. old.nonce \in Nat
    BY <1>2 DEF AnyRow
  <2> QED
    BY Zenon, <1>3, <2>1, MaxOfTwo DEF HigherNonce
<1>5. row \in AnyRow
  BY Zenon, <1>2, <1>4 DEF AnyRow
<1>6. /\ row.status = old.status /\ row.history = old.history
      /\ row.nonce = HigherNonce(old.nonce)
  BY <1>2 DEF AnyRow
<1>7. m \in AnyMonitor /\ m.pc = "build" /\ m.row = row
  BY <1>5 DEF AnyMonitor
<1>8. row # NoRow /\ row.status # "done" /\ row.status # "reorged" /\ m.pc # "nonce"
  BY <1>2, <1>5, <1>6, <1>7 DEF AnyRow, NoRow
<1>9. rows' = [rows EXCEPT ![i] = row] /\ monitor' = [monitor EXCEPT ![i] = m]
  BY Zenon, <1>2, <1>8 DEF ReviewNonce, Update, Goto
<1> HIDE DEF row, m
<1>10. RowOK(i, row, mempool, Good, Bad, checked)
  BY Zenon, <1>2, <1>6, <1>8 DEF RowOK
<1>11. MonitorOK(i, row, m, Good)
  BY <1>2, <1>6, <1>7, <1>8 DEF MonitorOK
<1>12. ASSUME events'["error"] = 0
       PROVE  NonceOK(i, row, m, mempool, Good, Bad)
  <2>1. NonceOK(i, old, monitor[i], mempool, Good, Bad)
    BY Zenon, <1>2, <1>12 DEF Grows, Event
  <2>2. \A t \in old.history : t \in Bad /\ t.nonce <= old.nonce
    BY Zenon, <1>1, <1>2, <2>1 DEF NonceOK
  <2>3. ASSUME NEW t \in row.history
        PROVE  t.nonce <= row.nonce
    <3>1. t.nonce <= old.nonce
      BY Zenon, <1>6, <2>2
    <3>2. t.nonce \in Nat
      BY <1>5 DEF AnyRow, AnyTx
    <3> QED
      BY <1>4, <1>6, <3>1, <3>2
  <2>4. ASSUME NEW t \in mempool \cup Good, t.id = i
        PROVE  FALSE
    <3>1. t \in Bad
      BY Zenon, <1>2, <2>2, <2>4 DEF RowOK
    <3>2. t \in mempool /\ t.nonce < CurrentNonce
      BY Zenon, <3>1, ReceiptFacts DEF Quiet
    <3>3. CurrentNonce <= t.nonce
      BY Zenon, <3>2 DEF Quiet, L1OK
    <3>4. t.nonce \in Nat
      BY <3>2 DEF Quiet, Types, AnyTx
    <3> QED
      BY <1>3, <3>2, <3>3, <3>4
  <2> QED
    BY Zenon, <1>8, <2>3, <2>4 DEF NonceOK
<1> QED
  BY Zenon, <1>1, <1>3, <1>5, <1>7, <1>8, <1>9, <1>10, <1>11, <1>12, MonitorKeeps

\* The tx is built from the row, with the current price.
LEMMA BuildTxStep ==
  ASSUME Quiet, Grows, NEW i \in Id, BuildTx(i), UNCHANGED <<checked, virtual, sender>>
  PROVE  Quiet'
<1> DEFINE old == rows[i]
           reviewed == IF old.status = "sent" THEN [old EXCEPT !.price = Max({@, price})] ELSE old
           t == Signed(i, reviewed)
           row == [reviewed EXCEPT !.history = @ \cup {t}]
           m == [pc |-> "send", row |-> row]
<1>1. monitor[i].pc = "build" /\ monitor[i] # Idle /\ UNCHANGED <<mempool, mined, price, reorgFrom>>
  BY Zenon, NotIdle DEF BuildTx
<1>2. /\ monitor[i].row = old /\ old \in AnyRow /\ old # NoRow
      /\ old.status \in {"created", "sent"}
      /\ RowOK(i, old, mempool, Good, Bad, checked)
      /\ events["error"] = 0 => NonceOK(i, old, monitor[i], mempool, Good, Bad)
  BY Zenon, <1>1, MonitorFacts DEF MonitorOK
<1>3. CASE Return(i) /\ UNCHANGED rows
  BY Zenon, <1>1, <1>3, ReturnKeeps
<1>4. CASE Goto(i, "send", row) /\ Update(i, row)
  <2>1. reviewed \in AnyRow
    <3>1. old.price \in Nat /\ price \in Nat
      BY <1>2 DEF AnyRow, Quiet, Types
    <3>2. Max({old.price, price}) \in Nat
      BY Zenon, <3>1, MaxOfTwo
    <3> QED
      BY Zenon, <1>2, <3>2 DEF AnyRow
  <2>2. /\ reviewed.status = old.status /\ reviewed.history = old.history
        /\ reviewed.nonce = old.nonce
    BY <1>2 DEF AnyRow
  <2> HIDE DEF reviewed
  <2>3. t \in AnyTx /\ t.id = i /\ t.nonce = old.nonce
    BY <2>1, <2>2 DEF AnyRow, AnyTx, Signed
  <2>4. row \in AnyRow
    <3>1. reviewed.history \cup {t} \in SUBSET AnyTx
      BY <2>1, <2>3 DEF AnyRow
    <3> QED
      BY Zenon, <2>1, <3>1 DEF AnyRow
  <2>5. /\ row.status = old.status /\ row.history = old.history \cup {t}
        /\ row.nonce = old.nonce /\ row.price = reviewed.price
    BY <2>1, <2>2 DEF AnyRow
  <2>6. Signed(i, row) = t
    BY Zenon, <2>2, <2>5 DEF Signed
  <2>7. m \in AnyMonitor /\ m.pc = "send" /\ m.row = row
    BY <2>4 DEF AnyMonitor
  <2>8. row # NoRow /\ row.status # "done"
    BY <1>2, <2>4, <2>5 DEF AnyRow, NoRow
  <2>9. /\ rows' = [rows EXCEPT ![i] = row] /\ monitor' = [monitor EXCEPT ![i] = m]
        /\ mempool' = mempool /\ mempool' \subseteq AnyTx
    BY Zenon, <1>1, <1>4 DEF Update, Goto, Quiet, Types
  <2> HIDE DEF row, m, t
  <2>10. RowOK(i, row, mempool, Good, Bad, checked)
    BY Zenon, <1>2, <2>3, <2>5, <2>8 DEF RowOK
  <2>11. MonitorOK(i, row, m, Good)
    BY <1>2, <2>5, <2>6, <2>7, <2>8 DEF MonitorOK
  <2>12. ASSUME events'["error"] = 0
         PROVE  NonceOK(i, row, m, mempool, Good, Bad)
    <3>1. NonceOK(i, old, monitor[i], mempool, Good, Bad)
      BY Zenon, <1>2, <2>12 DEF Grows, Event
    <3>2. t.nonce <= row.nonce /\ m.pc # "nonce"
      BY <2>3, <2>5, <2>7 DEF AnyTx
    <3> QED
      BY Zenon, <1>2, <2>5, <3>1, <3>2 DEF NonceOK
  <2> QED
    BY Zenon, <1>1, <2>4, <2>7, <2>8, <2>9, <2>10, <2>11, <2>12, MonitorKeeps
<1> QED
  BY Zenon, <1>2, <1>3, <1>4 DEF BuildTx

\* The row of a tx that was sent.
LEMMA SentFacts ==
  ASSUME NEW i \in Id, NEW row \in AnyRow,
         NEW new, new = [row EXCEPT !.status = "sent"]
  PROVE  /\ new \in AnyRow /\ new # NoRow /\ new.status = "sent"
         /\ new.history = row.history /\ new.nonce = row.nonce
         /\ Signed(i, new) = Signed(i, row)
         /\ row.status = "sent" => new = row
<1>1. new \in AnyRow
  BY Zenon DEF AnyRow
<1>2. /\ new.status = "sent" /\ new.history = row.history
      /\ new.nonce = row.nonce /\ new.price = row.price
  BY DEF AnyRow
<1>3. Signed(i, new) = Signed(i, row)
  BY Zenon, <1>2 DEF Signed
<1>4. row.status = "sent" => new = row
  BY Zenon DEF AnyRow
<1>5. new # NoRow
  BY <1>2 DEF NoRow
<1> QED
  BY Zenon, <1>1, <1>2, <1>3, <1>4, <1>5

\* The tx goes to the mempool of L1.
LEMMA SendTxStep ==
  ASSUME Quiet, Grows, NEW i \in Id, SendTx(i), UNCHANGED <<checked, virtual, sender>>
  PROVE  Quiet'
<1> DEFINE row == rows[i]
           t == Signed(i, row)
           new == [row EXCEPT !.status = "sent"]
<1>1. /\ monitor[i].pc = "send" /\ monitor[i] # Idle
      /\ UNCHANGED <<mined, price, reorgFrom, rows, events>>
  BY Zenon, NotIdle DEF SendTx
<1>2. /\ monitor[i].row = row /\ row \in AnyRow /\ row # NoRow
      /\ row.status \in {"created", "sent"} /\ t \in row.history
      /\ rows = [rows EXCEPT ![i] = row]
      /\ RowOK(i, row, mempool, Good, Bad, checked)
      /\ events["error"] = 0 => NonceOK(i, row, monitor[i], mempool, Good, Bad)
  BY Zenon, <1>1, MonitorFacts DEF MonitorOK
<1>3. CASE Goto(i, "wait", row) /\ UNCHANGED mempool
  <2> DEFINE m == [pc |-> "wait", row |-> row]
  <2>1. m \in AnyMonitor /\ m.pc = "wait" /\ m.row = row
    BY <1>2 DEF AnyMonitor
  <2>2. monitor' = [monitor EXCEPT ![i] = m]
    BY Zenon, <1>3 DEF Goto
  <2> HIDE DEF m
  <2>3. MonitorOK(i, row, m, Good) /\ m.pc # "nonce"
    BY <1>2, <2>1 DEF MonitorOK
  <2> QED
    BY Zenon, <1>1, <1>3, <2>1, <2>2, <2>3, GotoKeeps
<1>4. CASE Return(i) /\ UNCHANGED mempool
  BY Zenon, <1>1, <1>4, ReturnKeeps
<1>5. CASE /\ ~(t.nonce < CurrentNonce)
           /\ mempool' = mempool \cup {t}
           /\ Goto(i, IF row.status = "created" THEN "sent" ELSE "wait", new)
  <2> DEFINE m == [pc |-> IF row.status = "created" THEN "sent" ELSE "wait", row |-> new]
  <2>1. new \in AnyRow /\ (row.status = "sent" => new = row)
    BY Zenon, <1>2, SentFacts
  <2>2. /\ m \in AnyMonitor /\ m.row = new
        /\ m.pc = IF row.status = "created" THEN "sent" ELSE "wait"
    BY <2>1 DEF AnyMonitor
  <2>3. monitor' = [monitor EXCEPT ![i] = m]
    BY Zenon, <1>5 DEF Goto
  <2>4. t \in AnyTx /\ t.id = i /\ t.nonce = row.nonce
    BY <1>2 DEF AnyRow, AnyTx, Signed
  <2>5. CurrentNonce <= t.nonce /\ row.nonce <= t.nonce
    <3>1. CurrentNonce \in Nat
      BY Zenon, ReceiptFacts DEF Quiet
    <3> HIDE DEF t
    <3> QED
      BY <1>5, <2>4, <3>1 DEF AnyTx
  <2> HIDE DEF m
  <2>6. MonitorOK(i, row, m, Good)
    <3>1. CASE row.status = "created"
      BY <1>2, <2>2, <3>1 DEF MonitorOK
    <3>2. CASE row.status = "sent"
      BY <1>2, <2>1, <2>2, <3>2 DEF MonitorOK
    <3> QED
      BY Zenon, <1>2, <3>1, <3>2
  <2> HIDE DEF t
  <2>7. RowOK(i, row, mempool', Good, Bad, checked)
    BY Zenon, <1>2, <1>5 DEF RowOK
  <2>8. ASSUME events'["error"] = 0
        PROVE  NonceOK(i, row, m, mempool', Good, Bad)
    <3>1. NonceOK(i, row, monitor[i], mempool, Good, Bad)
      BY Zenon, <1>2, <2>8 DEF Grows, Event
    <3>2. m.pc # "nonce"
      BY <2>2
    <3> QED
      BY Zenon, <1>2, <1>5, <2>5, <3>1, <3>2 DEF NonceOK
  <2>9. /\ mempool' \subseteq AnyTx /\ rows' = [rows EXCEPT ![i] = row]
        /\ \A u \in mempool' : u \in mempool \/ (u.id = i /\ CurrentNonce <= u.nonce)
    BY Zenon, <1>1, <1>2, <1>5, <2>4, <2>5 DEF Quiet, Types
  <2>10. row.status # "done"
    BY <1>2
  <2> QED
    BY Zenon, <1>1, <1>2, <2>2, <2>3, <2>6, <2>7, <2>8, <2>9, <2>10, MonitorKeeps
<1> QED
  BY Zenon, <1>2, <1>3, <1>4, <1>5 DEF SendTx

\* Status and history of the row are stored.
LEMMA StoreSentStep ==
  ASSUME Quiet, Grows, NEW i \in Id, StoreSent(i), UNCHANGED <<checked, virtual, sender>>
  PROVE  Quiet'
<1> DEFINE old == rows[i]
           row == [old EXCEPT !.status = "sent"]
           m == [pc |-> "wait", row |-> row]
<1>1. monitor[i].pc = "sent" /\ monitor[i] # Idle /\ UNCHANGED <<mempool, mined, price, reorgFrom>>
  BY Zenon, NotIdle DEF StoreSent
<1>2. /\ monitor[i].row = row /\ old \in AnyRow /\ old # NoRow
      /\ Signed(i, old) \in old.history
      /\ RowOK(i, old, mempool, Good, Bad, checked)
      /\ events["error"] = 0 => NonceOK(i, old, monitor[i], mempool, Good, Bad)
  BY Zenon, <1>1, MonitorFacts DEF MonitorOK
<1>3. /\ row \in AnyRow /\ row # NoRow /\ row.status = "sent"
      /\ row.history = old.history /\ row.nonce = old.nonce
      /\ Signed(i, row) = Signed(i, old)
  <2>1. old \in AnyRow /\ row = [old EXCEPT !.status = "sent"]
    BY Zenon, <1>2
  <2> HIDE DEF row, old
  <2> QED
    BY Zenon, <2>1, SentFacts
<1>4. m \in AnyMonitor /\ m.pc = "wait" /\ m.row = row
  BY <1>3 DEF AnyMonitor
<1>5. /\ rows' = [rows EXCEPT ![i] = row] /\ monitor' = [monitor EXCEPT ![i] = m]
      /\ mempool' = mempool /\ mempool' \subseteq AnyTx
  BY Zenon, <1>1, <1>2 DEF StoreSent, Update, Goto, Quiet, Types
<1> HIDE DEF row, m
<1>6. /\ row.status \notin {"confirmed", "done"}
      /\ m.pc # "nonce" /\ row.status # "done"
  BY <1>3, <1>4
<1>7. RowOK(i, row, mempool, Good, Bad, checked)
  BY Zenon, <1>2, <1>3, <1>6 DEF RowOK
<1>8. MonitorOK(i, row, m, Good)
  BY <1>2, <1>3, <1>4 DEF MonitorOK
<1>9. ASSUME events'["error"] = 0
      PROVE  NonceOK(i, row, m, mempool, Good, Bad)
  <2>1. NonceOK(i, old, monitor[i], mempool, Good, Bad)
    BY Zenon, <1>2, <1>9 DEF Grows, Event
  <2> QED
    BY Zenon, <1>2, <1>3, <1>6, <2>1 DEF NonceOK
<1> QED
  BY Zenon, <1>1, <1>3, <1>4, <1>5, <1>6, <1>7, <1>8, <1>9, MonitorKeeps

\* WaitTxToBeMined returns, mined or after its timeout.
LEMMA WaitTxToBeMinedStep ==
  ASSUME Quiet, Grows, NEW i \in Id, WaitTxToBeMined(i), UNCHANGED <<checked, virtual, sender>>
  PROVE  Quiet'
<1> DEFINE row == rows[i]
           m == [pc |-> "receipt", row |-> row]
<1>1. /\ monitor[i].pc = "wait" /\ monitor[i] # Idle
      /\ UNCHANGED <<mempool, mined, price, reorgFrom, rows, events>>
  BY Zenon, NotIdle DEF WaitTxToBeMined
<1>2. /\ monitor[i].row = row /\ row \in AnyRow /\ row # NoRow
      /\ row.status \in {"created", "sent"} /\ Signed(i, row) \in row.history
  BY Zenon, <1>1, MonitorFacts DEF MonitorOK
<1>3. CASE Return(i)
  BY Zenon, <1>1, <1>3, ReturnKeeps
<1>4. CASE MinedOk(Signed(i, row)) /\ Goto(i, "receipt", row)
  <2>1. m \in AnyMonitor /\ m.pc = "receipt" /\ m.row = row
    BY <1>2 DEF AnyMonitor
  <2>2. monitor' = [monitor EXCEPT ![i] = m]
    BY Zenon, <1>4 DEF Goto
  <2>3. Signed(i, row) \in Good
    BY Zenon, <1>4, TxFacts
  <2> HIDE DEF m
  <2>4. MonitorOK(i, row, m, Good) /\ m.pc # "nonce"
    BY <1>2, <2>1, <2>3 DEF MonitorOK
  <2> QED
    BY Zenon, <1>1, <2>1, <2>2, <2>4, GotoKeeps
<1> QED
  BY Zenon, <1>2, <1>3, <1>4 DEF WaitTxToBeMined

\* The receipt decides between confirmed and failed.
LEMMA GetTxReceiptStep ==
  ASSUME Quiet, Grows, NEW i \in Id, GetTxReceipt(i), UNCHANGED <<checked, virtual, sender>>
  PROVE  Quiet'
<1> DEFINE row == rows[i]
           t == Signed(i, row)
<1>1. /\ monitor[i].pc = "receipt" /\ monitor[i] # Idle
      /\ UNCHANGED <<mempool, mined, price, reorgFrom, rows, events>>
  BY Zenon, NotIdle DEF GetTxReceipt
<1>2. /\ monitor[i].row = row /\ row \in AnyRow /\ row # NoRow
      /\ row.status \in {"created", "sent"} /\ t \in row.history /\ t \in Good
  BY Zenon, <1>1, MonitorFacts DEF MonitorOK
<1>3. CASE Return(i)
  BY Zenon, <1>1, <1>3, ReturnKeeps
<1>4. ASSUME NEW r \in ReceiptsOf({t}), r.ok, Goto(i, "store", Confirmed(row, r))
      PROVE  Quiet'
  <2> DEFINE m == [pc |-> "store", row |-> Confirmed(row, r)]
  <2>1. r.tx = t /\ r.tx \in row.history
    BY Zenon, <1>2, TxFacts
  <2>2. /\ Confirmed(row, r) \in AnyRow
        /\ Confirmed(row, r) = [row EXCEPT !.status = "confirmed", !.block = t.nonce]
    <3>1. /\ Confirmed(row, r) \in AnyRow
          /\ Confirmed(row, r) = [row EXCEPT !.status = "confirmed", !.block = r.tx.nonce]
      BY Zenon, <1>2, <2>1, ConfirmedFacts
    <3> HIDE DEF t
    <3> QED
      BY Zenon, <2>1, <3>1
  <2>3. m \in AnyMonitor /\ m.pc = "store" /\ m.row = Confirmed(row, r)
    BY <2>2 DEF AnyMonitor
  <2>4. monitor' = [monitor EXCEPT ![i] = m]
    BY Zenon, <1>4 DEF Goto
  <2> HIDE DEF m, t
  <2>5. m.pc \notin {"check", "nonce", "build", "send", "sent", "wait", "receipt"}
    BY <2>3
  <2>6. MonitorOK(i, row, m, Good)
    BY Zenon, <1>2, <2>2, <2>3, <2>5 DEF MonitorOK
  <2> QED
    BY Zenon, <1>1, <2>3, <2>4, <2>5, <2>6, GotoKeeps
<1>5. ASSUME NEW r \in ReceiptsOf({t}), ~r.ok
      PROVE  FALSE
  <2>1. t \in Bad
    BY Zenon, <1>5, TxFacts
  <2> QED
    BY Zenon, <1>2, <2>1, ReceiptFacts DEF Quiet
<1> QED
  BY Zenon, <1>2, <1>3, <1>4, <1>5 DEF GetTxReceipt

\* The status of the row is stored.
LEMMA StoreResultStep ==
  ASSUME Quiet, Grows, NEW i \in Id, StoreResult(i), UNCHANGED <<checked, virtual, sender>>
  PROVE  Quiet'
<1> DEFINE old == rows[i]
           row == monitor[i].row
<1>1. monitor[i].pc = "store" /\ monitor[i] # Idle /\ UNCHANGED <<mempool, mined, price, reorgFrom>>
  BY Zenon, NotIdle DEF StoreResult
<1>2. /\ old \in AnyRow /\ old # NoRow /\ monitor[i] \in AnyMonitor
      /\ RowOK(i, old, mempool, Good, Bad, checked)
      /\ events["error"] = 0 => NonceOK(i, old, monitor[i], mempool, Good, Bad)
  BY Zenon, <1>1, MonitorFacts DEF MonitorOK
<1>3. PICK t \in old.history :
        t \in Good /\ row = [old EXCEPT !.status = "confirmed", !.block = t.nonce]
  BY Zenon, <1>1, MonitorFacts DEF MonitorOK
<1>4. row \in AnyRow
  BY <1>2 DEF AnyMonitor
<1>5. row.status = "confirmed" /\ row.history = old.history /\ row.nonce = old.nonce
  BY <1>2, <1>3 DEF AnyRow
<1>6. /\ rows' = [rows EXCEPT ![i] = row] /\ monitor' = [monitor EXCEPT ![i] = Idle]
      /\ mempool' = mempool /\ mempool' \subseteq AnyTx
  BY Zenon, <1>1 DEF StoreResult, Update, Return, Quiet, Types
<1> HIDE DEF row
<1>7. row # NoRow /\ row.status # "done"
  BY <1>5 DEF NoRow
<1>8. RowOK(i, row, mempool, Good, Bad, checked)
  BY Zenon, <1>2, <1>3, <1>5, <1>7 DEF RowOK
<1>9. MonitorOK(i, row, Idle, Good)
  BY Zenon DEF MonitorOK
<1>10. ASSUME events'["error"] = 0
       PROVE  NonceOK(i, row, Idle, mempool, Good, Bad)
  <2>1. NonceOK(i, old, monitor[i], mempool, Good, Bad)
    BY Zenon, <1>2, <1>10 DEF Grows, Event
  <2> QED
    BY Zenon, <1>2, <1>5, <1>7, <2>1 DEF NonceOK
<1> QED
  BY Zenon, <1>1, <1>4, <1>6, <1>7, <1>8, <1>9, <1>10, MonitorKeeps

\* A call of monitorTx fails, and it returns.
LEMMA MonitorErrorStep ==
  ASSUME Quiet, Grows, NEW i \in Id, MonitorError(i), UNCHANGED <<checked, virtual, sender>>
  PROVE  Quiet'
BY Zenon, ReturnKeeps DEF MonitorError

\* What a step has to show that writes no row, for all goroutines.
LEMMA AllMonitorsKeep ==
  ASSUME Quiet, Grows, UNCHANGED <<mempool, mined, price, reorgFrom, rows, checked, virtual>>,
         monitor' \in [Id -> AnyMonitor \cup {Idle}], sender' \in AnySender,
         SenderOK(sender', rows, checked, virtual, Sequenced),
         \A i \in Id : \/ monitor'[i] \in {Idle, monitor[i]}
                       \/ MonitorOK(i, rows[i], monitor'[i], Good) /\ monitor'[i].pc # "nonce"
  PROVE  Quiet'
<1>1. Good' = Good /\ Bad' = Bad /\ Sequenced' = Sequenced /\ CurrentNonce' = CurrentNonce
  BY Zenon DEF Good, Bad, Sequenced, CurrentNonce
<1>2. Types'
  BY Zenon DEF Quiet, Types
<1>3. L1OK'
  BY Zenon, <1>1 DEF Quiet, L1OK
<1>4. ASSUME NEW i \in Id
      PROVE  MonitorOK(i, rows[i], monitor'[i], Good)
  <2>1. MonitorOK(i, rows[i], monitor[i], Good)
    BY Zenon DEF Quiet
  <2>2. MonitorOK(i, rows[i], Idle, Good)
    BY Zenon DEF MonitorOK
  <2> QED
    BY Zenon, <2>1, <2>2
<1>5. ASSUME events'["error"] = 0, NEW i \in Id
      PROVE  NonceOK(i, rows[i], monitor'[i], mempool, Good, Bad)
  <2>1. NonceOK(i, rows[i], monitor[i], mempool, Good, Bad)
    BY Zenon, <1>5 DEF Quiet, Grows, Event
  <2> QED
    BY Zenon, <2>1 DEF NonceOK
<1> QED
  BY Zenon, <1>1, <1>2, <1>3, <1>4, <1>5 DEF Quiet

\* monitorTxs starts one monitorTx for each open row.
LEMMA monitorTxsStep ==
  ASSUME Quiet, Grows, monitorTxs, UNCHANGED <<checked, virtual, sender>>
  PROVE  Quiet'
<1> DEFINE open == {i \in Id : rows[i].status \in {"created", "sent", "reorged"}}
           m(i) == [pc |-> "check", row |-> rows[i]]
<1>1. /\ monitor' = [i \in Id |-> IF i \in open THEN m(i) ELSE Idle]
      /\ UNCHANGED <<mempool, mined, price, reorgFrom, rows, checked, virtual, sender>>
  BY Zenon DEF monitorTxs
<1>2. ASSUME NEW i \in open
      PROVE  m(i) \in AnyMonitor /\ MonitorOK(i, rows[i], m(i), Good) /\ m(i).pc # "nonce"
  <2>1. rows[i] \in AnyRow \cup {NoRow}
    BY Zenon DEF Quiet, Types
  <2>2. rows[i] # NoRow
    BY DEF NoRow
  <2>3. rows[i].status \in {"created", "sent"} /\ rows[i] \in AnyRow
    BY <2>1, <2>2 DEF AnyRow
  <2>4. m(i) \in AnyMonitor /\ m(i).pc = "check" /\ m(i).row = rows[i]
    BY <2>3 DEF AnyMonitor
  <2> HIDE DEF m
  <2>5. MonitorOK(i, rows[i], m(i), Good) /\ m(i).pc # "nonce"
    BY <2>2, <2>3, <2>4 DEF MonitorOK
  <2> QED
    BY Zenon, <2>4, <2>5
<1> HIDE DEF open, m
<1>3. \A i \in Id : monitor'[i] = Idle \/ (i \in open /\ monitor'[i] = m(i))
  BY Zenon, <1>1
<1>4. monitor' \in [Id -> AnyMonitor \cup {Idle}]
  BY Zenon, <1>1, <1>2
<1>5. \A i \in Id : \/ monitor'[i] \in {Idle, monitor[i]}
                    \/ MonitorOK(i, rows[i], monitor'[i], Good) /\ monitor'[i].pc # "nonce"
  BY Zenon, <1>2, <1>3
<1> QED
  BY Zenon, <1>1, <1>4, <1>5, AllMonitorsKeep DEF Quiet, Types

-----------------------------------------------------------------------------
(* The steps of the sender                                                 *)

\* What a step of the sender has to show that writes no row.
LEMMA SenderKeeps ==
  ASSUME Quiet, Grows,
         UNCHANGED <<mempool, mined, price, reorgFrom, rows, monitor, checked, virtual>>,
         sender' \in AnySender, SenderOK(sender', rows, checked, virtual, Sequenced)
  PROVE  Quiet'
<1>1. monitor' \in [Id -> AnyMonitor \cup {Idle}] /\ \A i \in Id : monitor'[i] \in {Idle, monitor[i]}
  BY Zenon DEF Quiet, Types
<1> QED
  BY Zenon, <1>1, AllMonitorsKeep

\* What the sender starts from.
LEMMA SenderFacts ==
  ASSUME Quiet
  PROVE  /\ sender \in AnySender
         /\ sender.pc \in {"pending", "waiting", "confirming", "sanity", "get", "add"}
         /\ sender.results \subseteq Result /\ sender.last \in Nat
         /\ SenderOK(sender, rows, checked, virtual, Sequenced)
<1>1. sender \in AnySender
  BY Zenon DEF Quiet, Types
<1>2. /\ sender.pc \in {"pending", "waiting", "confirming", "sanity", "get", "add"}
      /\ sender.results \subseteq Result /\ sender.last \in Nat
  BY <1>1 DEF AnySender
<1> QED
  BY Zenon, <1>1, <1>2 DEF Quiet

\* The last batch of the contract is that of a row.
LEMMA SequencedFacts ==
  ASSUME Quiet
  PROVE  /\ Sequenced \in 0 .. NBatch
         /\ \A t \in Good : t.id[2] <= Sequenced
         /\ Sequenced = 0 \/ \E i \in Id : rows[i] # NoRow /\ i[2] = Sequenced
         /\ Sequenced <= checked /\ checked \in 0 .. NBatch
<1>1. Sequenced = LastOf(Good) /\ Good \subseteq AnyTx
  BY Zenon, ReceiptFacts DEF Quiet
<1>2. /\ Sequenced \in 0 .. NBatch
      /\ \A t \in Good : t.id[2] <= Sequenced
      /\ Sequenced = 0 \/ \E t \in Good : t.id[2] = Sequenced
  BY Zenon, <1>1, LastOfFacts
<1>3. ASSUME NEW t \in Good
      PROVE  t.id \in Id /\ rows[t.id] # NoRow /\ t.id[2] <= checked
  <2>1. t.id \in Id
    BY <1>1 DEF AnyTx
  <2> QED
    BY Zenon, <2>1 DEF Quiet, RowOK
<1>4. checked \in 0 .. NBatch
  BY Zenon DEF Quiet, Types
<1>5. Sequenced <= checked
  <2>1. CASE Sequenced = 0
    BY <1>4, <2>1
  <2>2. CASE \E t \in Good : t.id[2] = Sequenced
    BY Zenon, <1>3, <2>2
  <2> QED
    BY Zenon, <1>2, <2>1, <2>2
<1> QED
  BY Zenon, <1>2, <1>3, <1>4, <1>5

\* When no row is open, the contract has them all.
LEMMA SettledFacts ==
  ASSUME Quiet, \A i \in Id : ~Open(rows[i])
  PROVE  \A i \in Id : rows[i] # NoRow => i[2] <= Sequenced
<1>1. SUFFICES ASSUME NEW i \in Id, rows[i] # NoRow
               PROVE  i[2] <= Sequenced
  BY Zenon
<1>2. rows[i].status \in {"confirmed", "done"} /\ RowOK(i, rows[i], mempool, Good, Bad, checked)
  BY Zenon, <1>1 DEF Quiet, Open
<1>3. PICK t \in rows[i].history : t \in Good /\ t.id = i
  BY Zenon, <1>1, <1>2 DEF RowOK
<1> QED
  BY Zenon, <1>3, SequencedFacts

\* ProcessPendingMonitoredTxs reads the rows that are not done.
LEMMA ResultsByStatusStep ==
  ASSUME Quiet, Grows, ResultsByStatus
  PROVE  Quiet'
<1>1. /\ sender.pc = "pending" /\ sender.results = {}
      /\ UNCHANGED <<mempool, mined, price, reorgFrom, rows, monitor, checked, virtual>>
  BY Zenon DEF ResultsByStatus
<1>2. sender \in AnySender /\ SenderOK(sender, rows, checked, virtual, Sequenced)
  BY Zenon, SenderFacts
<1>3. ASSUME NEW i \in Id
      PROVE  /\ Open(rows[i]) <=> i \in Pending
             /\ i \in Pending => rows[i] \in AnyRow
                               /\ rows[i].status \in {"created", "sent", "confirmed"}
  <2>1. rows[i] \in AnyRow \cup {NoRow}
    BY Zenon DEF Quiet, Types
  <2>2. CASE rows[i] \in AnyRow
    BY <2>2 DEF AnyRow, NoRow, Open, Pending
  <2>3. CASE rows[i] = NoRow
    BY <2>3 DEF NoRow, Open, Pending
  <2> QED
    BY Zenon, <2>1, <2>2, <2>3
<1>4. CASE Pending = {}
  <2>1. sender' = [sender EXCEPT !.pc = "sanity"]
    BY Zenon, <1>4 DEF ResultsByStatus
  <2>2. sender' \in AnySender
    BY Zenon, <1>2, <2>1 DEF AnySender
  <2>3. sender'.pc = "sanity" /\ sender'.results = {} /\ sender'.last = sender.last
    BY <1>1, <1>2, <2>1 DEF AnySender
  <2>4. sender'.pc # "add"
    BY <2>3
  <2>5. SenderOK(sender', rows, checked, virtual, Sequenced)
    BY Zenon, <1>2, <1>3, <1>4, <2>3, <2>4 DEF SenderOK
  <2> QED
    BY Zenon, <1>1, <2>2, <2>5, SenderKeeps
<1>5. CASE Pending # {}
  <2> DEFINE R == {buildResult(i) : i \in Pending}
  <2>1. sender' = [sender EXCEPT !.results = R]
    BY Zenon, <1>5 DEF ResultsByStatus
  <2>2. ASSUME NEW i \in Pending
        PROVE  /\ buildResult(i) \in Result
               /\ buildResult(i).id = i /\ buildResult(i).status = rows[i].status
               /\ rows[i].status = "confirmed" => buildResult(i).blocks # {}
    <3>1. i \in Id /\ rows[i] # NoRow
      BY Zenon, <1>3 DEF Pending, Open
    <3>2. {r.tx.nonce : r \in ReceiptsOf(rows[i].history)} \subseteq Nat
      BY DEF ReceiptsOf, Quiet, Types, AnyReceipt, AnyTx
    <3>3. rows[i].status = "confirmed" => ReceiptsOf(rows[i].history) # {}
      <4>1. RowOK(i, rows[i], mempool, Good, Bad, checked)
        BY Zenon, <3>1 DEF Quiet
      <4> QED
        BY Zenon, <3>1, <4>1, ReceiptsOfFacts DEF RowOK
    <3>4. rows[i].status \in {"created", "sent", "confirmed"}
      BY Zenon, <1>3, <3>1
    <3> QED
      BY <3>1, <3>2, <3>3, <3>4 DEF buildResult, Result
  <2>3. R \subseteq Result
    BY Zenon, <2>2
  <2>4. sender' \in AnySender
    <3> HIDE DEF R
    <3> QED
      BY Zenon, <1>2, <2>1, <2>3 DEF AnySender
  <2>5. sender'.pc = "pending" /\ sender'.results = R /\ sender'.last = sender.last
    <3> HIDE DEF R
    <3> QED
      BY <1>1, <1>2, <2>1 DEF AnySender
  <2>6. \A a, b \in R : a = b
    BY Zenon, <1>2, <1>3 DEF SenderOK, Pending
  <2>7. \A a \in R : a.status = "confirmed" =>
          rows[a.id] # NoRow /\ rows[a.id].status = "confirmed" /\ a.blocks # {}
    <3>1. SUFFICES ASSUME NEW a \in R, a.status = "confirmed"
                   PROVE  rows[a.id] # NoRow /\ rows[a.id].status = "confirmed" /\ a.blocks # {}
      BY Zenon
    <3>2. PICK i \in Pending : a = buildResult(i)
      BY Zenon
    <3>3. a.id = i /\ rows[i].status = "confirmed" /\ a.blocks # {}
      BY Zenon, <2>2, <3>1, <3>2
    <3>4. rows[i] # NoRow
      BY Zenon, <1>3 DEF Pending, Open
    <3> QED
      BY Zenon, <3>3, <3>4
  <2>8. sender'.pc \notin {"confirming", "sanity", "get", "add"} /\ sender'.pc # "add"
    BY <2>5
  <2> HIDE DEF R
  <2>9. SenderOK(sender', rows, checked, virtual, Sequenced)
    BY Zenon, <1>2, <2>5, <2>6, <2>7, <2>8 DEF SenderOK
  <2> QED
    BY Zenon, <1>1, <2>4, <2>9, SenderKeeps
<1> QED
  BY Zenon, <1>4, <1>5

\* The results are of one row.
LEMMA FirstResultFacts ==
  ASSUME NEW S \in SUBSET Result, S # {}, \A a, b \in S : a = b
  PROVE  FirstResult(S) \in S /\ S \ {FirstResult(S)} = {}
<1>1. PICK r \in S : TRUE
  OBVIOUS
<1>2. \A q \in S : r.id[1] < q.id[1] \/ (r.id[1] = q.id[1] /\ r.id[2] <= q.id[2])
  <2>1. r.id \in Id
    BY DEF Result
  <2>2. r.id[2] \in 0 .. NBatch
    BY Zenon, <2>1, IdFacts
  <2>3. r.id[2] <= r.id[2]
    BY <2>2, EthTxAssumption
  <2> QED
    BY Zenon, <2>3
<1>3. FirstResult(S) \in S
  BY Zenon, <1>2 DEF FirstResult
<1> QED
  BY Zenon, <1>3

\* A confirmed row is set done: no row is open then.
LEMMA setStatusDoneKeeps ==
  ASSUME Quiet, Grows, UNCHANGED <<mempool, mined, price, reorgFrom, monitor, checked, virtual>>,
         NEW i \in Id, rows[i] # NoRow, rows[i].status = "confirmed", setStatusDone(i),
         sender' \in AnySender, sender'.pc = "confirming", sender'.results = {},
         sender'.last = sender.last
  PROVE  Quiet'
<1> DEFINE old == rows[i]
           row == [old EXCEPT !.status = "done"]
<1>1. /\ rows \in [Id -> AnyRow \cup {NoRow}] /\ old \in AnyRow
      /\ RowOK(i, old, mempool, Good, Bad, checked)
      /\ SenderOK(sender, rows, checked, virtual, Sequenced)
  BY Zenon DEF Quiet, Types
<1>2. row \in AnyRow
  BY Zenon, <1>1 DEF AnyRow
<1>3. row.status = "done" /\ row.history = old.history /\ row.nonce = old.nonce
  BY <1>1 DEF AnyRow
<1>4. rows' = [rows EXCEPT ![i] = row]
  BY Zenon, <1>1 DEF setStatusDone
<1> HIDE DEF row
<1>5. rows'[i] = row /\ \A j \in Id : j # i => rows'[j] = rows[j]
  BY Zenon, <1>1, <1>4
<1>6. Good' = Good /\ Bad' = Bad /\ Sequenced' = Sequenced /\ CurrentNonce' = CurrentNonce
  BY Zenon DEF Good, Bad, Sequenced, CurrentNonce
<1>7. Types' /\ L1OK'
  <2>1. rows' \in [Id -> AnyRow \cup {NoRow}]
    BY Zenon, <1>1, <1>2, <1>4
  <2> QED
    BY Zenon, <1>6, <2>1 DEF Quiet, Types, L1OK
<1>8. row # NoRow /\ ~Open(row) /\ Open(old)
  BY <1>3 DEF Open, NoRow
<1>9. \A j \in Id : ~Open(rows'[j]) /\ (rows'[j] # NoRow <=> rows[j] # NoRow)
  BY Zenon, <1>1, <1>5, <1>8 DEF SenderOK
<1>10. sender'.pc # "add"
  OBVIOUS
<1>11. SenderOK(sender', rows', checked, virtual, Sequenced)
  BY Zenon, <1>1, <1>9, <1>10 DEF SenderOK
<1>12. ASSUME NEW j \in Id
       PROVE  RowOK(j, rows'[j], mempool, Good, Bad, checked)
  <2>1. RowOK(j, rows[j], mempool, Good, Bad, checked)
    BY Zenon DEF Quiet
  <2>2. RowOK(i, row, mempool, Good, Bad, checked)
    BY Zenon, <1>1, <1>3, <1>8 DEF RowOK
  <2> QED
    BY Zenon, <1>5, <2>1, <2>2
<1>13. monitor[i] = Idle
  <2>1. MonitorOK(i, old, monitor[i], Good)
    BY Zenon DEF Quiet
  <2>2. old.status \notin {"created", "sent"}
    OBVIOUS
  <2> QED
    BY Zenon, <2>1, <2>2 DEF MonitorOK
<1>14. ASSUME NEW j \in Id
       PROVE  MonitorOK(j, rows'[j], monitor[j], Good)
  <2>1. MonitorOK(j, rows[j], monitor[j], Good)
    BY Zenon DEF Quiet
  <2>2. MonitorOK(i, row, monitor[i], Good)
    BY Zenon, <1>13 DEF MonitorOK
  <2> QED
    BY Zenon, <1>5, <2>1, <2>2
<1>15. ASSUME events'["error"] = 0, NEW j \in Id
       PROVE  NonceOK(j, rows'[j], monitor[j], mempool, Good, Bad)
  <2>1. \A k \in Id : NonceOK(k, rows[k], monitor[k], mempool, Good, Bad)
    BY Zenon, <1>15 DEF Quiet, Grows, Event
  <2>2. NonceOK(i, row, monitor[i], mempool, Good, Bad)
    <3>1. NonceOK(i, old, monitor[i], mempool, Good, Bad)
      BY Zenon, <2>1
    <3> QED
      BY Zenon, <1>3, <1>8, <1>13, <3>1 DEF NonceOK
  <2> QED
    BY Zenon, <1>5, <2>1, <2>2
<1> QED
  BY Zenon, <1>6, <1>7, <1>11, <1>12, <1>14, <1>15 DEF Quiet

\* The handler of the result is called.
LEMMA HandleResultStep ==
  ASSUME Quiet, Grows, HandleResult
  PROVE  Quiet'
<1> DEFINE r == FirstResult(sender.results)
           rest == [sender EXCEPT !.results = @ \ {r}]
<1>1. /\ sender.pc = "pending" /\ sender.results # {}
      /\ UNCHANGED <<mempool, mined, price, reorgFrom, monitor, checked, virtual>>
  BY Zenon DEF HandleResult
<1>2. /\ sender \in AnySender /\ sender.results \subseteq Result
      /\ SenderOK(sender, rows, checked, virtual, Sequenced)
  BY Zenon, SenderFacts
<1>3. r \in sender.results /\ sender.results \ {r} = {}
  <2>1. \A a, b \in sender.results : a = b
    BY Zenon, <1>2 DEF SenderOK
  <2> QED
    BY Zenon, <1>1, <1>2, <2>1, FirstResultFacts
<1>4. r \in Result /\ r.id \in Id /\ r.status \in {"created", "sent", "confirmed"}
  BY <1>2, <1>3 DEF Result
<1>5. \/ /\ r.status = "confirmed" /\ setStatusDone(r.id)
         /\ sender' = [rest EXCEPT !.pc = IF r.blocks = {} THEN "halted" ELSE "confirming",
                                   !.result = r]
      \/ /\ UNCHANGED rows
         /\ sender' = [rest EXCEPT !.pc = "waiting", !.result = r]
  <2>1. CASE r.status = "confirmed"
    BY Zenon, <2>1 DEF HandleResult
  <2>2. CASE r.status \in {"created", "sent"}
    BY Zenon, <2>2 DEF HandleResult
  <2> QED
    BY Zenon, <1>4, <2>1, <2>2
<1> HIDE DEF r
<1>6. /\ rest \in AnySender /\ rest.results = {} /\ rest.last = sender.last
  <2>1. rest = [sender EXCEPT !.results = {}]
    BY Zenon, <1>3
  <2>2. rest \in AnySender
    BY Zenon, <1>2, <2>1 DEF AnySender
  <2> QED
    BY <1>2, <2>1, <2>2 DEF AnySender
<1> HIDE DEF rest
<1>7. CASE /\ r.status = "confirmed" /\ setStatusDone(r.id)
           /\ sender' = [rest EXCEPT !.pc = IF r.blocks = {} THEN "halted" ELSE "confirming",
                                     !.result = r]
  <2>1. rows[r.id] # NoRow /\ rows[r.id].status = "confirmed" /\ r.blocks # {}
    BY Zenon, <1>2, <1>3, <1>7 DEF SenderOK
  <2>2. sender' = [rest EXCEPT !.pc = "confirming", !.result = r]
    BY Zenon, <1>7, <2>1
  <2>3. sender' \in AnySender
    BY Zenon, <1>4, <1>6, <2>2 DEF AnySender
  <2>4. sender'.pc = "confirming" /\ sender'.results = {} /\ sender'.last = sender.last
    BY <1>6, <2>2 DEF AnySender
  <2> QED
    BY Zenon, <1>1, <1>4, <1>7, <2>1, <2>3, <2>4, setStatusDoneKeeps
<1>8. CASE UNCHANGED rows /\ sender' = [rest EXCEPT !.pc = "waiting", !.result = r]
  <2>1. sender' \in AnySender
    BY Zenon, <1>4, <1>6, <1>8 DEF AnySender
  <2>2. sender'.pc = "waiting" /\ sender'.results = {} /\ sender'.last = sender.last
    BY <1>6, <1>8 DEF AnySender
  <2>3. sender'.pc \notin {"confirming", "sanity", "get", "add"} /\ sender'.pc # "add"
    BY <2>2
  <2>4. SenderOK(sender', rows, checked, virtual, Sequenced)
    BY Zenon, <1>2, <2>2, <2>3 DEF SenderOK
  <2> QED
    BY Zenon, <1>1, <1>8, <2>1, <2>4, SenderKeeps
<1> QED
  BY Zenon, <1>5, <1>7, <1>8

\* What a step has to show that only moves the sender on.
LEMMA SenderMoves ==
  ASSUME Quiet, Grows,
         UNCHANGED <<mempool, mined, price, reorgFrom, rows, monitor, checked, virtual>>,
         sender.pc # "pending",
         NEW pc, pc \in {"pending", "waiting", "confirming", "sanity", "get"},
         pc # "pending" => sender.pc \in {"confirming", "sanity", "get", "add"},
         sender' = [sender EXCEPT !.pc = pc, !.result = NoRow]
  PROVE  Quiet'
<1>1. sender \in AnySender /\ SenderOK(sender, rows, checked, virtual, Sequenced)
  BY Zenon, SenderFacts
<1>2. sender' \in AnySender
  <2>1. pc \in {"pending", "waiting", "confirming", "sanity", "get", "add"}
    BY Zenon
  <2> QED
    BY Zenon, <1>1, <2>1 DEF AnySender
<1>3. /\ sender'.pc = pc /\ sender'.results = sender.results
      /\ sender'.last = sender.last
  BY <1>1 DEF AnySender
<1>4. pc # "add" /\ (pc \in {"confirming", "sanity", "get", "add"} => pc # "pending")
  OBVIOUS
<1>5. SenderOK(sender', rows, checked, virtual, Sequenced)
  BY Zenon, <1>1, <1>3, <1>4 DEF SenderOK
<1> QED
  BY Zenon, <1>2, <1>5, SenderKeeps

\* It waits while the row is open.
LEMMA WaitResultStep ==
  ASSUME Quiet, Grows, WaitResult
  PROVE  Quiet'
<1>1. sender.pc # "pending"
  BY DEF WaitResult
<1> QED
  BY Zenon, <1>1, SenderMoves DEF WaitResult

\* The last batch in the contract is the last one sent: no row is open.
LEMMA SCMatchesHolds ==
  ASSUME Quiet, sender.pc = "confirming"
  PROVE  SCMatches
<1>1. SUFFICES ASSUME sender.last # 0
               PROVE  sender.last = Sequenced
  BY Zenon DEF SCMatches
<1>2. sender.last \in Nat /\ SenderOK(sender, rows, checked, virtual, Sequenced)
  BY Zenon, SenderFacts
<1>3. \A i \in Id : ~Open(rows[i])
  BY Zenon, <1>2 DEF SenderOK
<1>4. /\ \A i \in Id : rows[i] # NoRow => i[2] <= sender.last
      /\ \E i \in Id : rows[i] # NoRow /\ i[2] = sender.last
  BY Zenon, <1>1, <1>2 DEF SenderOK
<1>5. sender.last <= Sequenced
  BY Zenon, <1>3, <1>4, SettledFacts
<1>6. Sequenced = 0 \/ Sequenced <= sender.last
  BY Zenon, <1>4, SequencedFacts
<1>7. Sequenced \in 0 .. NBatch
  BY Zenon, SequencedFacts
<1> QED
  BY <1>1, <1>2, <1>5, <1>6, <1>7

\* The sequence is confirmed and compared with the contract.
LEMMA ConfirmSequenceStep ==
  ASSUME Quiet, Grows, ConfirmSequence
  PROVE  Quiet'
<1>1. sender.pc = "confirming" /\ sender.pc # "pending"
  BY DEF ConfirmSequence
<1>2. /\ sender' = [sender EXCEPT !.pc = "pending", !.result = NoRow]
      /\ UNCHANGED <<mempool, mined, price, reorgFrom, rows, monitor, checked, virtual>>
  BY Zenon, <1>1, SCMatchesHolds DEF ConfirmSequence
<1> QED
  BY Zenon, <1>1, <1>2, SenderMoves

\* The state is not ahead of L1, and L1 is not ahead of the trusted state.
LEMMA sanityCheckStep ==
  ASSUME Quiet, Grows, sanityCheck
  PROVE  Quiet'
<1>1. sender.pc = "sanity" /\ sender.pc # "pending"
  BY DEF sanityCheck
<1>2. virtual \in Nat /\ virtual <= Sequenced
  BY Zenon DEF Quiet, Types, SenderOK
<1>3. Sequenced \in 0 .. NBatch /\ Sequenced <= checked /\ checked \in 0 .. NBatch
  BY Zenon, SequencedFacts
<1>4. ~(virtual > Sequenced) /\ ~(checked < virtual)
  BY <1>2, <1>3, EthTxAssumption
<1>5. /\ sender' = [sender EXCEPT !.pc = "get", !.result = NoRow]
      /\ UNCHANGED <<mempool, mined, price, reorgFrom, rows, monitor, checked, virtual>>
  BY Zenon, <1>4 DEF sanityCheck
<1> QED
  BY Zenon, <1>1, <1>5, SenderMoves

\* There is too little to send yet.
LEMMA WaitForMoreBatchesStep ==
  ASSUME Quiet, Grows, WaitForMoreBatches
  PROVE  Quiet'
<1>1. /\ sender.pc = "get" /\ sender' = [sender EXCEPT !.pc = "pending"]
      /\ UNCHANGED <<mempool, mined, price, reorgFrom, rows, monitor, checked, virtual>>
  BY Zenon DEF WaitForMoreBatches
<1>2. sender \in AnySender /\ SenderOK(sender, rows, checked, virtual, Sequenced)
  BY Zenon, SenderFacts
<1>3. sender' \in AnySender
  BY Zenon, <1>1, <1>2 DEF AnySender
<1>4. /\ sender'.pc = "pending" /\ sender'.results = sender.results
      /\ sender'.last = sender.last
  BY <1>1, <1>2 DEF AnySender
<1>5. sender'.pc \notin {"confirming", "sanity", "get", "add"} /\ sender'.pc # "add"
  BY <1>4
<1>6. SenderOK(sender', rows, checked, virtual, Sequenced)
  BY Zenon, <1>2, <1>4, <1>5 DEF SenderOK
<1> QED
  BY Zenon, <1>1, <1>3, <1>6, SenderKeeps

\* The range of batches to send.
LEMMA LastToSendFacts ==
  ASSUME Quiet, LastToSend > Sequenced
  PROVE  <<Sequenced + 1, LastToSend>> \in Id /\ LastToSend <= checked
<1> DEFINE s == Sequenced + MaxBatchesForL1
<1>1. Sequenced \in 0 .. NBatch /\ checked \in 0 .. NBatch
  BY Zenon, SequencedFacts
<1>2. {checked, s} \subseteq Nat /\ {checked, s} # {}
  BY <1>1, EthTxAssumption
<1>3. LastToSend \in {checked, s} /\ \A y \in {checked, s} : LastToSend <= y
  <2> HIDE DEF s
  <2>1. Min({checked, s}) \in {checked, s} /\ \A y \in {checked, s} : Min({checked, s}) <= y
    BY Zenon, <1>2, MinFacts
  <2>2. LastToSend = Min({checked, s})
    BY Zenon DEF LastToSend, s
  <2> QED
    BY Zenon, <2>1, <2>2
<1>4. LastToSend <= checked /\ LastToSend <= s /\ LastToSend \in Nat
  BY Zenon, <1>2, <1>3
<1> QED
  BY <1>1, <1>4, EthTxAssumption DEF Id

\* The batches after the last sequence on L1 are chosen.
LEMMA getSequencesToSendStep ==
  ASSUME Quiet, Grows, getSequencesToSend
  PROVE  Quiet'
<1> DEFINE id == <<Sequenced + 1, LastToSend>>
<1>1. /\ sender.pc = "get" /\ LastToSend > Sequenced
      /\ sender' = [sender EXCEPT !.pc = "add", !.result = [id |-> id]]
      /\ UNCHANGED <<mempool, mined, price, reorgFrom, rows, monitor, checked, virtual>>
  BY Zenon DEF getSequencesToSend
<1>2. sender \in AnySender /\ SenderOK(sender, rows, checked, virtual, Sequenced)
  BY Zenon, SenderFacts
<1>3. id \in Id /\ id[2] <= checked
  BY <1>1, LastToSendFacts
<1> HIDE DEF id
<1>4. [id |-> id] \in Chosen /\ [id |-> id].id = id
  BY <1>3 DEF Chosen
<1>5. sender' \in AnySender
  BY Zenon, <1>1, <1>2, <1>4 DEF AnySender
<1>6. /\ sender'.pc = "add" /\ sender'.results = sender.results
      /\ sender'.result = [id |-> id] /\ sender'.last = sender.last
  BY <1>1, <1>2 DEF AnySender
<1>7. sender'.pc # "pending" /\ sender.pc # "pending" /\ sender.pc \in {"confirming", "sanity", "get", "add"}
  BY <1>1, <1>6
<1>8. SenderOK(sender', rows, checked, virtual, Sequenced)
  BY Zenon, <1>2, <1>3, <1>4, <1>6, <1>7 DEF SenderOK
<1> QED
  BY Zenon, <1>1, <1>5, <1>8, SenderKeeps

\* From the start.
LEMMA StartFacts ==
  ASSUME Quiet, NEW last \in {0, sender.last}
  PROVE  Start(last) \in AnySender /\ SenderOK(Start(last), rows, checked, virtual, Sequenced)
<1>1. sender.last \in Nat /\ SenderOK(sender, rows, checked, virtual, Sequenced)
  BY Zenon, SenderFacts
<1>2. last \in Nat
  BY <1>1
<1>3. Start(last) \in AnySender
  BY <1>2 DEF Start, AnySender
<1>4. /\ Start(last).pc = "pending" /\ Start(last).results = {}
      /\ Start(last).last = last
  BY DEF Start
<1>5. Start(last).pc \notin {"confirming", "sanity", "get", "add"} /\ Start(last).pc # "add"
  BY <1>4
<1>6. SenderOK(Start(last), rows, checked, virtual, Sequenced)
  BY Zenon, <1>1, <1>4, <1>5 DEF SenderOK
<1> QED
  BY Zenon, <1>3, <1>6

\* A call of tryToSendSequence fails.
LEMMA SendErrorStep ==
  ASSUME Quiet, Grows, SendError
  PROVE  Quiet'
<1>1. /\ sender' = Start(sender.last)
      /\ UNCHANGED <<mempool, mined, price, reorgFrom, rows, monitor, checked, virtual>>
  BY Zenon DEF SendError
<1> QED
  BY Zenon, <1>1, StartFacts, SenderKeeps

\* The row of the next sequence: every other one is done.
LEMMA AddKeeps ==
  ASSUME Quiet, Grows, UNCHANGED <<mempool, mined, price, reorgFrom, monitor, checked, virtual>>,
         sender.pc = "add", NEW id \in Id, id[2] <= checked, CanAdd(id), Add(id),
         sender' = Start(lastSequenceEndBatch(id))
  PROVE  Quiet'
<1>1. /\ rows \in [Id -> AnyRow \cup {NoRow}] /\ rows[id] = NoRow
      /\ SenderOK(sender, rows, checked, virtual, Sequenced)
  BY Zenon DEF Quiet, Types, CanAdd
<1>2. NewRow \in AnyRow
  <2>1. CurrentNonce \in Nat /\ price \in Nat
    BY Zenon, ReceiptFacts DEF Quiet, Types
  <2> QED
    BY <2>1 DEF NewRow, AnyRow, None
<1>3. NewRow.status = "created" /\ NewRow.history = {} /\ NewRow # NoRow
  BY DEF NewRow, NoRow
<1>4. rows' = [rows EXCEPT ![id] = NewRow]
  BY Zenon DEF Add
<1>5. rows'[id] = NewRow /\ \A j \in Id : j # id => rows'[j] = rows[j]
  BY Zenon, <1>1, <1>4
<1>6. Good' = Good /\ Bad' = Bad /\ Sequenced' = Sequenced /\ CurrentNonce' = CurrentNonce
  BY Zenon DEF Good, Bad, Sequenced, CurrentNonce
<1>7. sender' \in AnySender /\ sender'.pc = "pending" /\ sender'.results = {} /\ sender'.last = id[2]
  <2>1. id[2] \in Nat
    BY IdFacts, EthTxAssumption
  <2> QED
    BY <2>1 DEF Start, AnySender, lastSequenceEndBatch
<1>8. Types' /\ L1OK'
  <2>1. rows' \in [Id -> AnyRow \cup {NoRow}]
    BY Zenon, <1>1, <1>2, <1>4
  <2> QED
    BY Zenon, <1>6, <1>7, <2>1 DEF Quiet, Types, L1OK
<1>9. \A j \in Id : ~Open(rows[j])
  BY Zenon, <1>1 DEF SenderOK
<1>10. \A j \in Id : rows[j] # NoRow => j[2] <= id[2]
  <2>1. SUFFICES ASSUME NEW j \in Id, rows[j] # NoRow
                 PROVE  j[2] <= id[2]
    BY Zenon
  <2>2. j[2] <= Sequenced
    BY Zenon, <1>9, <2>1, SettledFacts
  <2>3. id[1] = Sequenced + 1
    BY Zenon DEF CanAdd, EstimateGas, Succeeds
  <2>4. id[1] <= id[2] /\ id[2] \in 0 .. NBatch /\ j[2] \in 0 .. NBatch /\ Sequenced \in 0 .. NBatch
    BY Zenon, IdFacts, SequencedFacts
  <2> QED
    BY <2>2, <2>3, <2>4, EthTxAssumption
<1>11. id[2] <= id[2]
  BY IdFacts, EthTxAssumption
<1>12. SenderOK(sender', rows', checked, virtual, Sequenced)
  <2>1. \A i, j \in Id : Open(rows'[i]) /\ Open(rows'[j]) => i = j
    BY Zenon, <1>5, <1>9
  <2>2. /\ \A i \in Id : rows'[i] # NoRow => i[2] <= id[2]
        /\ \E i \in Id : rows'[i] # NoRow /\ i[2] = id[2]
    BY Zenon, <1>3, <1>5, <1>10, <1>11
  <2>3. sender'.pc \notin {"confirming", "sanity", "get", "add"} /\ sender'.pc # "add"
    BY <1>7
  <2> QED
    BY Zenon, <1>1, <1>7, <2>1, <2>2, <2>3 DEF SenderOK
<1>13. \A t \in mempool \cup Good \cup Bad : t.id # id
  <2>1. RowOK(id, rows[id], mempool, Good, Bad, checked)
    BY Zenon DEF Quiet
  <2> QED
    BY Zenon, <1>1, <2>1 DEF RowOK
<1>14. ASSUME NEW j \in Id
       PROVE  RowOK(j, rows'[j], mempool, Good, Bad, checked)
  <2>1. RowOK(j, rows[j], mempool, Good, Bad, checked)
    BY Zenon DEF Quiet
  <2>2. NewRow.status \notin {"confirmed", "done"}
    BY <1>3
  <2>3. RowOK(id, NewRow, mempool, Good, Bad, checked)
    BY Zenon, <1>3, <1>13, <2>2 DEF RowOK
  <2> QED
    BY Zenon, <1>5, <2>1, <2>3
<1>15. monitor[id] = Idle
  BY Zenon, <1>1 DEF Quiet, MonitorOK
<1>16. ASSUME NEW j \in Id
       PROVE  MonitorOK(j, rows'[j], monitor[j], Good)
  <2>1. MonitorOK(j, rows[j], monitor[j], Good)
    BY Zenon DEF Quiet
  <2>2. MonitorOK(id, NewRow, monitor[id], Good)
    BY Zenon, <1>15 DEF MonitorOK
  <2> QED
    BY Zenon, <1>5, <2>1, <2>2
<1>17. ASSUME events'["error"] = 0, NEW j \in Id
       PROVE  NonceOK(j, rows'[j], monitor[j], mempool, Good, Bad)
  <2>1. NonceOK(j, rows[j], monitor[j], mempool, Good, Bad)
    BY Zenon, <1>17 DEF Quiet, Grows, Event
  <2>2. NonceOK(id, NewRow, monitor[id], mempool, Good, Bad)
    BY Zenon, <1>3, <1>13, <1>15 DEF NonceOK
  <2> QED
    BY Zenon, <1>5, <2>1, <2>2
<1> QED
  BY Zenon, <1>6, <1>8, <1>12, <1>14, <1>16, <1>17 DEF Quiet

\* Add stores the row of the sequence; without a row of its id, it is the only
\* one that is open.
LEMMA SendSequenceStep ==
  ASSUME Quiet, Grows, SendSequence
  PROVE  Quiet'
<1> DEFINE id == sender.result.id
<1>1. sender.pc = "add" /\ UNCHANGED <<mempool, mined, price, reorgFrom, monitor, checked, virtual>>
  BY Zenon DEF SendSequence
<1>2. sender.result \in Chosen /\ id[2] <= checked
  BY Zenon, <1>1, SenderFacts DEF SenderOK
<1>3. id \in Id
  BY <1>2 DEF Chosen
<1>4. CASE CanAdd(id) /\ Add(id) /\ sender' = Start(lastSequenceEndBatch(id))
  <2> HIDE DEF id
  <2> QED
    BY Zenon, <1>1, <1>2, <1>3, <1>4, AddKeeps
<1>5. CASE UNCHANGED rows /\ sender' = Start(sender.last)
  BY Zenon, <1>1, <1>5, StartFacts, SenderKeeps
<1> QED
  BY Zenon, <1>4, <1>5 DEF SendSequence

-----------------------------------------------------------------------------
(* The rest of the node                                                    *)

\* What a step of the rest has to show: the trusted state and the virtual state
\* grow.
LEMMA RestKeeps ==
  ASSUME Quiet, Grows, UNCHANGED <<mempool, mined, price, reorgFrom, rows, monitor, sender>>,
         checked' \in 0 .. NBatch, checked <= checked', virtual' \in Nat, virtual' <= Sequenced
  PROVE  Quiet'
<1>1. Good' = Good /\ Bad' = Bad /\ Sequenced' = Sequenced /\ CurrentNonce' = CurrentNonce
  BY Zenon DEF Good, Bad, Sequenced, CurrentNonce
<1>2. Types' /\ L1OK'
  BY Zenon, <1>1 DEF Quiet, Types, L1OK
<1>3. \A i \in Id : i[2] <= checked => i[2] <= checked'
  <2>1. SUFFICES ASSUME NEW i \in Id, i[2] <= checked
                 PROVE  i[2] <= checked'
    BY Zenon
  <2>2. i[2] \in 0 .. NBatch /\ checked \in 0 .. NBatch
    BY Zenon, IdFacts DEF Quiet, Types
  <2> QED
    BY <2>1, <2>2, EthTxAssumption
<1>4. SenderOK(sender, rows, checked', virtual', Sequenced)
  <2>1. SenderOK(sender, rows, checked, virtual, Sequenced)
    BY Zenon, SenderFacts
  <2>2. sender.result \in Chosen => sender.result.id \in Id
    BY DEF Chosen
  <2> QED
    BY Zenon, <1>3, <2>1, <2>2 DEF SenderOK
<1>5. ASSUME NEW i \in Id
      PROVE  RowOK(i, rows[i], mempool, Good, Bad, checked')
  <2>1. RowOK(i, rows[i], mempool, Good, Bad, checked)
    BY Zenon DEF Quiet
  <2> QED
    BY Zenon, <1>3, <2>1 DEF RowOK
<1>6. ASSUME events'["error"] = 0
      PROVE  events["error"] = 0
  BY Zenon, <1>6 DEF Grows, Event
<1> QED
  BY Zenon, <1>1, <1>2, <1>4, <1>5, <1>6 DEF Quiet

\* The sequencer closes batches, and the synchronizer stores sequences.
LEMMA RestStep ==
  ASSUME Quiet, Grows, CheckBatch \/ SyncVirtual
  PROVE  Quiet'
<1>1. checked \in 0 .. NBatch /\ virtual \in Nat /\ virtual <= Sequenced
  BY Zenon DEF Quiet, Types, SenderOK
<1>2. Sequenced \in 0 .. NBatch
  BY Zenon, SequencedFacts
<1>3. CASE CheckBatch
  <2>1. checked' \in 0 .. NBatch /\ checked <= checked'
    BY <1>1, <1>3, EthTxAssumption DEF CheckBatch
  <2> QED
    BY Zenon, <1>1, <1>3, <2>1, RestKeeps DEF CheckBatch
<1>4. CASE SyncVirtual
  <2>1. Sequenced \in Nat /\ Sequenced <= Sequenced /\ checked <= checked
    BY <1>1, <1>2, EthTxAssumption
  <2> QED
    BY Zenon, <1>1, <1>4, <2>1, RestKeeps DEF SyncVirtual
<1> QED
  BY Zenon, <1>3, <1>4

\* After a restart only the tables are left.
LEMMA RestartStep ==
  ASSUME Quiet, Grows, Restart
  PROVE  Quiet'
<1>1. /\ monitor' = [i \in Id |-> Idle] /\ sender' = Start(0)
      /\ UNCHANGED <<mempool, mined, price, reorgFrom, rows, checked, virtual>>
  BY Zenon DEF Restart
<1>2. /\ monitor' \in [Id -> AnyMonitor \cup {Idle}]
      /\ \A i \in Id : monitor'[i] \in {Idle, monitor[i]}
  BY Zenon, <1>1
<1>3. sender' \in AnySender /\ SenderOK(sender', rows, checked, virtual, Sequenced)
  BY Zenon, <1>1, StartFacts
<1> QED
  BY Zenon, <1>1, <1>2, <1>3, AllMonitorsKeep

-----------------------------------------------------------------------------
(* Every step                                                              *)

\* A step counts at most one event.
LEMMA EventsStep ==
  ASSUME Next \/ UNCHANGED vars
  PROVE  UNCHANGED events \/ \E e \in Event : Happens(e)
<1>1. CASE UNCHANGED vars
  BY Zenon, <1>1 DEF vars
<1>2. CASE tryToSendSequence
  <2>1. CASE ResultsByStatus \/ HandleResult \/ WaitResult \/ ConfirmSequence
    BY Zenon, <2>1 DEF ResultsByStatus, HandleResult, WaitResult, ConfirmSequence, Event
  <2>2. CASE sanityCheck \/ RetrySanityCheck \/ getSequencesToSend \/ WaitForMoreBatches
    BY Zenon, <2>2 DEF sanityCheck, RetrySanityCheck, getSequencesToSend, WaitForMoreBatches
  <2>3. CASE SendSequence \/ SendError
    BY Zenon, <2>3 DEF SendSequence, SendError, Event
  <2> QED
    BY Zenon, <1>2, <2>1, <2>2, <2>3 DEF tryToSendSequence
<1>3. CASE ManagerStep
  <2>1. CASE monitorTxs
    BY Zenon, <2>1 DEF monitorTxs
  <2>2. ASSUME NEW i \in Id, monitorTx(i) \/ MonitorError(i)
        PROVE  UNCHANGED events \/ \E e \in Event : Happens(e)
    <3>1. CASE CheckHistory(i) \/ MonitorError(i)
      BY Zenon, <3>1 DEF CheckHistory, MonitorError, Event
    <3>2. CASE ReviewNonce(i) \/ BuildTx(i) \/ SendTx(i) \/ StoreSent(i)
      BY Zenon, <3>2 DEF ReviewNonce, BuildTx, SendTx, StoreSent
    <3>3. CASE WaitTxToBeMined(i) \/ GetTxReceipt(i) \/ StoreResult(i)
      BY Zenon, <3>3 DEF WaitTxToBeMined, GetTxReceipt, StoreResult
    <3> QED
      BY Zenon, <2>2, <3>1, <3>2, <3>3 DEF monitorTx
  <2> QED
    BY Zenon, <1>3, <2>1, <2>2 DEF ManagerStep
<1>4. CASE L1Step
  BY Zenon, <1>4 DEF L1Step, MineTx, MineEmptyBlock, RaisePrice, ReorgL1, Event
<1>5. CASE CheckBatch \/ SyncVirtual \/ SyncReorg \/ Restart
  BY Zenon, <1>5 DEF CheckBatch, SyncVirtual, SyncReorg, Reorg, Restart, Event
<1> QED
  BY Zenon, <1>1, <1>2, <1>3, <1>4, <1>5 DEF Next, Manager, L1

\* No step forgets an event.
LEMMA EventsGrow ==
  ASSUME events \in [Event -> Nat], Next \/ UNCHANGED vars
  PROVE  Grows
<1>1. CASE UNCHANGED events
  BY Zenon, <1>1 DEF Grows
<1>2. ASSUME NEW e \in Event, Happens(e)
      PROVE  Grows
  <2>1. events' = [events EXCEPT ![e] = @ + 1]
    BY Zenon, <1>2 DEF Happens
  <2> QED
    BY <2>1 DEF Grows
<1> QED
  BY Zenon, <1>1, <1>2, EventsStep

\* Every step of the sequence sender,
LEMMA SenderStep ==
  ASSUME Quiet, Grows, tryToSendSequence
  PROVE  Quiet'
<1>1. ~RetrySanityCheck
  <2>1. sender.pc # "retrying"
    BY DEF Quiet, Types, AnySender
  <2> QED
    BY Zenon, <2>1 DEF RetrySanityCheck
<1>2. CASE ResultsByStatus \/ HandleResult \/ WaitResult \/ ConfirmSequence
  BY Zenon, <1>2, ResultsByStatusStep, HandleResultStep, WaitResultStep, ConfirmSequenceStep
<1>3. CASE sanityCheck \/ getSequencesToSend \/ WaitForMoreBatches
  BY Zenon, <1>3, sanityCheckStep, getSequencesToSendStep, WaitForMoreBatchesStep
<1>4. CASE SendSequence \/ SendError
  BY Zenon, <1>4, SendSequenceStep, SendErrorStep
<1> QED
  BY Zenon, <1>1, <1>2, <1>3, <1>4 DEF tryToSendSequence

\* every step of the eth tx manager,
LEMMA ManagerKeeps ==
  ASSUME Quiet, Grows, Manager
  PROVE  Quiet'
<1>1. UNCHANGED <<checked, virtual, sender>>
  BY Zenon DEF Manager
<1>2. ASSUME NEW i \in Id, CheckHistory(i) \/ ReviewNonce(i) \/ BuildTx(i) \/ SendTx(i)
      PROVE  Quiet'
  BY Zenon, <1>1, <1>2, CheckHistoryStep, ReviewNonceStep, BuildTxStep, SendTxStep
<1>3. ASSUME NEW i \in Id,
             StoreSent(i) \/ WaitTxToBeMined(i) \/ GetTxReceipt(i) \/ StoreResult(i)
      PROVE  Quiet'
  BY Zenon, <1>1, <1>3, StoreSentStep, WaitTxToBeMinedStep, GetTxReceiptStep, StoreResultStep
<1> QED
  BY Zenon, <1>1, <1>2, <1>3, monitorTxsStep, MonitorErrorStep DEF Manager, ManagerStep, monitorTx

\* every step of L1 but a reorg,
LEMMA L1Keeps_NoReorg ==
  ASSUME Quiet, Grows, L1, events'["reorg"] = 0
  PROVE  Quiet'
<1>1. UNCHANGED <<checked, virtual, sender>>
  BY Zenon DEF L1
<1>2. ~ReorgL1
  BY Zenon, HappensCounts DEF ReorgL1, Event
<1> QED
  BY Zenon, <1>1, <1>2, MineTxStep, MineEmptyBlockStep, RaisePriceStep DEF L1, L1Step

\* and a stuttering step keep what holds before the first reorg.
LEMMA StutterStep ==
  ASSUME Quiet, UNCHANGED vars
  PROVE  Quiet'
<1>1. Good' = Good /\ Bad' = Bad /\ Sequenced' = Sequenced /\ CurrentNonce' = CurrentNonce
  BY Zenon DEF vars, Good, Bad, Sequenced, CurrentNonce
<1> QED
  BY Zenon, <1>1 DEF vars, Quiet, Types, L1OK

\* Every step keeps the invariant.
LEMMA NextIInv == IInv /\ [Next]_vars => IInv'
<1>1. SUFFICES ASSUME IInv, Next \/ UNCHANGED vars
               PROVE  IInv'
  BY Zenon
<1>2. Grows
  BY Zenon, <1>1, EventsGrow DEF IInv
<1>3. SUFFICES ASSUME events'["reorg"] = 0
               PROVE  Quiet'
  BY Zenon, <1>2 DEF IInv, Grows
<1>4. Quiet
  BY Zenon, <1>1, <1>2, <1>3 DEF IInv, Grows, Event
<1>5. ~SyncReorg
  BY Zenon, <1>4 DEF Quiet, Types, SyncReorg, Reorg
<1>6. CASE UNCHANGED vars
  BY Zenon, <1>4, <1>6, StutterStep
<1>7. CASE tryToSendSequence \/ Manager \/ L1
  BY Zenon, <1>2, <1>3, <1>4, <1>7, SenderStep, ManagerKeeps, L1Keeps_NoReorg
<1>8. CASE CheckBatch \/ SyncVirtual \/ Restart
  BY Zenon, <1>2, <1>4, <1>8, RestStep, RestartStep
<1> QED
  BY Zenon, <1>1, <1>5, <1>6, <1>7, <1>8 DEF Next

\* The invariant holds at the start.
LEMMA InitIInv == Init => IInv
<1>1. SUFFICES ASSUME Init
               PROVE  IInv
  BY Zenon
<1>2. /\ mempool = {} /\ mined = {} /\ price = 1 /\ reorgFrom = None
      /\ rows = [i \in Id |-> NoRow] /\ monitor = [i \in Id |-> Idle]
      /\ checked = 0 /\ virtual = 0 /\ sender = Start(0)
  BY Zenon, <1>1 DEF Init, EthInit
<1>3. events \in [Event -> Nat]
  BY <1>1 DEF Init, EthInit
<1>4. \A i \in Id : rows[i] = NoRow /\ monitor[i] = Idle
  BY Zenon, <1>2
<1>5. Good = {} /\ Bad = {}
  BY Zenon, <1>2 DEF Good, Bad
<1>6. sender \in AnySender /\ sender.pc = "pending" /\ sender.results = {} /\ sender.last = 0
  BY <1>2 DEF Start, AnySender
<1>7. Types
  <2>1. price \in Nat /\ checked \in 0 .. NBatch /\ virtual \in Nat
    BY <1>2, EthTxAssumption
  <2>2. rows \in [Id -> AnyRow \cup {NoRow}] /\ monitor \in [Id -> AnyMonitor \cup {Idle}]
    BY Zenon, <1>2
  <2> QED
    BY Zenon, <1>2, <1>6, <2>1, <2>2 DEF Types
<1>8. L1OK
  BY Zenon, <1>2, FS_EmptySet DEF L1OK
<1>9. SenderOK(sender, rows, checked, virtual, Sequenced)
  <2>1. Sequenced = LastOf(Good)
    BY Zenon DEF Sequenced, LastOf, Good
  <2>2. virtual <= Sequenced
    BY <1>2, <1>5, <2>1, LastOfFacts, EthTxAssumption
  <2>3. \A i \in Id : ~Open(rows[i])
    BY Zenon, <1>4 DEF Open
  <2>4. sender.pc \notin {"confirming", "sanity", "get", "add"} /\ sender.pc # "add"
    BY <1>6
  <2> QED
    BY Zenon, <1>6, <2>2, <2>3, <2>4 DEF SenderOK
<1>10. \A i \in Id : RowOK(i, rows[i], mempool, Good, Bad, checked)
  BY Zenon, <1>2, <1>4, <1>5 DEF RowOK
<1>11. \A i \in Id : /\ MonitorOK(i, rows[i], monitor[i], Good)
                     /\ NonceOK(i, rows[i], monitor[i], mempool, Good, Bad)
  BY Zenon, <1>4 DEF MonitorOK, NonceOK
<1> QED
  BY Zenon, <1>3, <1>7, <1>8, <1>9, <1>10, <1>11 DEF IInv, Quiet

-----------------------------------------------------------------------------
(* Theorems                                                                *)

(***************************************************************************)
(* The invariant of the sequence sender and the tx manager: as long as L1  *)
(* has not been reorganized, the txs on L1 are in the history of their     *)
(* row, a monitorTx goroutine holds the last version of its row, and       *)
(* tryToSendSequence has at most one row that is not done.                 *)
(***************************************************************************)
THEOREM InvariantHolds == Spec => []IInv
BY InitIInv, NextIInv, PTL DEF Spec

(***************************************************************************)
(* tryToSendSequence adds a sequence only when every monitored tx is done, *)
(* through reverts, errors of L1 or the database and restarts.             *)
(***************************************************************************)
THEOREM OneOutstandingHolds == Spec => []OneOutstanding
<1>1. IInv => OneOutstanding
  <2> DEFINE S == {i \in Id : rows[i].status \notin {"none", "done"}}
  <2>1. SUFFICES ASSUME IInv, events["reorg"] = 0
                 PROVE  Cardinality(S) <= 1
    BY Zenon DEF OneOutstanding
  <2>2. SenderOK(sender, rows, checked, virtual, Sequenced)
    BY Zenon, <2>1 DEF IInv, Quiet
  <2>3. NoRow.status = "none"
    BY DEF NoRow
  <2>4. \A i \in S : i \in Id /\ Open(rows[i])
    BY Zenon, <2>3 DEF Open
  <2>5. \A i, j \in S : i = j
    BY Zenon, <2>2, <2>4 DEF SenderOK
  <2> HIDE DEF S
  <2>6. CASE S = {}
    BY <2>6, FS_EmptySet
  <2>7. CASE \E i : i \in S
    <3>1. PICK i : i \in S
      BY Zenon, <2>7
    <3>2. S = {i}
      BY Zenon, <2>5, <3>1
    <3>3. Cardinality(S) = 1
      BY Zenon, <3>2, FS_Singleton
    <3> QED
      BY <3>3
  <2> QED
    BY Zenon, <2>6, <2>7
<1> QED
  BY <1>1, InvariantHolds, PTL

(***************************************************************************)
(* Without an L1 reorg monitorTx never sets a monitored tx failed, however *)
(* often its txs revert.                                                   *)
(***************************************************************************)
THEOREM FailsOnlyAfterReorgHolds == Spec => []FailsOnlyAfterReorg
<1>1. IInv => FailsOnlyAfterReorg
  <2>1. SUFFICES ASSUME IInv, events["reorg"] = 0, NEW i \in Id
                 PROVE  rows[i].status # "failed"
    BY Zenon DEF FailsOnlyAfterReorg
  <2>2. rows[i] \in AnyRow \cup {NoRow}
    BY Zenon, <2>1 DEF IInv, Quiet, Types
  <2> QED
    BY <2>2 DEF AnyRow, NoRow
<1> QED
  BY <1>1, InvariantHolds, PTL

(***************************************************************************)
(* Without an L1 reorg none of the checks that halt the sequence sender    *)
(* fails: a confirmed tx has a receipt, the contract has the last sequence *)
(* sent, and the virtual state is not ahead of L1 or of the trusted state. *)
(***************************************************************************)
THEOREM HaltsOnlyAfterReorgHolds == Spec => []HaltsOnlyAfterReorg
<1>1. IInv => HaltsOnlyAfterReorg
  <2>1. SUFFICES ASSUME IInv, sender.pc = "halted"
                 PROVE  events["reorg"] > 0
    BY Zenon DEF HaltsOnlyAfterReorg
  <2>2. ~Quiet
    BY <2>1 DEF Quiet, Types, AnySender
  <2>3. events["reorg"] \in Nat /\ events["reorg"] # 0
    BY Zenon, <2>1, <2>2 DEF IInv, Event
  <2> QED
    BY <2>3
<1> QED
  BY <1>1, InvariantHolds, PTL

(***************************************************************************)
(* Once a tx of a monitored tx has succeeded, monitorTx sends no other one *)
(* that is mined, as long as L1 and the database answer: the review of the *)
(* nonce asks for the receipt of the whole history.                        *)
(***************************************************************************)
THEOREM NoDuplicatedDataHolds == Spec => []NoDuplicatedData
<1>1. IInv => NoDuplicatedData
  <2>1. SUFFICES ASSUME IInv, events["reorg"] = 0, events["error"] = 0,
                        NEW r \in mined, NEW q \in mined, r.ok, q.tx.id = r.tx.id
                 PROVE  q.tx.nonce <= r.tx.nonce
    BY Zenon DEF NoDuplicatedData
  <2>2. Quiet
    BY Zenon, <2>1 DEF IInv
  <2>3. r.tx \in AnyTx /\ q.tx \in AnyTx
    BY <2>2 DEF Quiet, Types, AnyReceipt
  <2> DEFINE i == r.tx.id
  <2>4. i \in Id /\ r.tx.nonce \in Nat /\ q.tx.nonce \in Nat
    BY <2>3 DEF AnyTx
  <2>5. r.tx \in Good /\ q.tx \in Good \cup Bad
    BY Zenon, <2>1 DEF Good, Bad
  <2>6. rows[i] # NoRow /\ q.tx \in rows[i].history
    BY Zenon, <2>1, <2>2, <2>4, <2>5 DEF Quiet, RowOK
  <2>7. q.tx.nonce <= rows[i].nonce /\ rows[i].nonce <= r.tx.nonce
    BY Zenon, <2>1, <2>2, <2>4, <2>5, <2>6 DEF Quiet, NonceOK
  <2>8. rows[i].nonce \in Nat
    <3>1. rows[i] \in AnyRow
      BY Zenon, <2>2, <2>4, <2>6 DEF Quiet, Types
    <3> QED
      BY <3>1 DEF AnyRow
  <2> HIDE DEF i
  <2> QED
    BY <2>4, <2>7, <2>8
<1> QED
  BY <1>1, InvariantHolds, PTL

=============================================================================
