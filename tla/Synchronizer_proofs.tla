------------------------- MODULE Synchronizer_proofs -------------------------
(***************************************************************************)
(* The sequential synchronization and its checkers, for any height of L1,  *)
(* any number of reorganizations, failures and restarts and any chunk      *)
(* size: state.block follows one fork, no block is removed before L1 has   *)
(* reorganized, and the main checker marks canonical blocks only.          *)
(*                                                                         *)
(* The invariant, and that the steps of Sync keep it, are in               *)
(* SynchronizerLoop_proofs.                                                *)
(***************************************************************************)
EXTENDS SynchronizerLoop_proofs

\* A leaf may take the SMT solver up to 30 seconds, twice.
USE SMTT(30), Z3T(30)

-----------------------------------------------------------------------------
(* The steps of the checkers                                               *)

\* What a step of checker c has to show: its new state is a.
LEMMA CheckerStepKeeps ==
  ASSUME IInv, UNCHANGED <<chain, finalized, reorgs, sync, stored>>, checked' \subseteq stored,
         NEW c \in Checker, NEW a \in CheckerRecord, async' = [async EXCEPT ![c] = a],
         CheckerOK(a), stopping' \in [Checker -> Nat],
         Stopped' \/ (stopping' = stopping /\ a.running = async[c].running),
         c = "main" => MainOK(a, stored \cup sync.blocks),
         c = "pre" => a.pc \notin {"update", "next"},
         reorgs = 0 => CheckerQuiet(a)
  PROVE  IInv'
<1>1. "main" \in Checker /\ "pre" \in Checker /\ c \in {"main", "pre"} /\ "main" # "pre"
  BY DEF Checker
<1>2. async \in [Checker -> CheckerRecord]
  BY Zenon DEF IInv, Types
<1>3. /\ async' \in [Checker -> CheckerRecord] /\ async'[c] = a
      /\ \A d \in Checker : d # c => async'[d] = async[d]
  BY Zenon, <1>2
<1>4. Types'
  BY Zenon, <1>3 DEF IInv, Types
<1>5. Stopped'
  <2>1. CASE stopping' = stopping /\ a.running = async[c].running
    <3>1. \A d \in Checker : Ends(async'[d]) = Ends(async[d])
      BY Zenon, <1>3, <2>1 DEF Ends
    <3> QED
      BY Zenon, <1>1, <2>1, <3>1 DEF IInv, Stopped
  <2> QED
    BY Zenon, <2>1
<1>6. MainOK(async["main"], stored \cup sync.blocks)'
  <2>1. MainOK(async'["main"], stored \cup sync.blocks)
    BY Zenon, <1>1, <1>3 DEF IInv
  <2> QED
    BY Zenon, <2>1 DEF MainOK
<1>7. async'["pre"].pc \notin {"update", "next"}
  BY Zenon, <1>1, <1>3 DEF IInv
<1>8. \A d \in Checker : CheckerOK(async'[d])
  BY Zenon, <1>3 DEF IInv
<1>9. (reorgs = 0 => SyncQuiet(stored, sync) /\ \A d \in Checker : CheckerQuiet(async[d]))'
  <2>1. reorgs = 0 => SyncQuiet(stored, sync) /\ \A d \in Checker : CheckerQuiet(async'[d])
    BY Zenon, <1>3 DEF IInv
  <2> QED
    BY Zenon, <2>1 DEF SyncQuiet, CheckerQuiet
<1>10. SyncOK(stored, sync)'
  BY Zenon DEF IInv, SyncOK
<1> QED
  BY Zenon, <1>4, <1>5, <1>6, <1>7, <1>8, <1>9, <1>10 DEF IInv

\* The facts that the steps below start from.
LEMMA CheckerFacts ==
  ASSUME IInv, NEW c \in Checker
  PROVE  /\ async \in [Checker -> CheckerRecord] /\ async[c] \in CheckerRecord
         /\ CheckerOK(async[c]) /\ chain \in Block /\ finalized \in 0 .. Len(chain)
         /\ Len(chain) \in 0 .. MaxBlock /\ finalized \in 0 .. MaxBlock
         /\ stopping \in [Checker -> Nat]
         /\ OneFork(stored) /\ stored \subseteq Block /\ checked \subseteq stored
         /\ MainOK(async["main"], stored \cup sync.blocks)
         /\ async[c].pc \in {"compare", "update", "next", "verify"} =>
              /\ async[c].todo[1] \in Block /\ Head(async[c].todo) = async[c].todo[1]
              /\ Len(async[c].todo) > 0
<1>1. /\ async \in [Checker -> CheckerRecord] /\ async[c] \in CheckerRecord
      /\ CheckerOK(async[c]) /\ chain \in Block /\ finalized \in 0 .. Len(chain)
      /\ stopping \in [Checker -> Nat]
      /\ OneFork(stored) /\ stored \subseteq Block /\ checked \subseteq stored
      /\ MainOK(async["main"], stored \cup sync.blocks)
  BY Zenon, SyncFacts DEF IInv, Types
<1>2. Len(chain) \in 0 .. MaxBlock /\ finalized \in 0 .. MaxBlock
  BY <1>1, BlockFacts, L1Assumption
<1>3. ASSUME async[c].pc \in {"compare", "update", "next", "verify"}
      PROVE  /\ async[c].todo[1] \in Block /\ Head(async[c].todo) = async[c].todo[1]
             /\ Len(async[c].todo) > 0
  <2>1. async[c].todo \in Seq(Block) /\ async[c].todo # <<>>
    BY Zenon, <1>1, <1>3 DEF CheckerRecord, CheckerOK
  <2> QED
    BY <2>1
<1> QED
  BY Zenon, <1>1, <1>2, <1>3

\* A row is the only block with its number that is stored or will be.
LEMMA RowIsUnique ==
  ASSUME IInv, NEW b \in stored, NEW r \in stored \cup sync.blocks, Len(r) = Len(b)
  PROVE  r = b
<1>1. /\ sync \in SyncRecord /\ SyncOK(stored, sync) /\ OneFork(stored) /\ sync.last \in Block
  BY Zenon, SyncFacts
<1>2. b \in Block /\ Len(b) \in Nat /\ Len(b) <= Len(b) /\ Len(sync.last) \in Nat
  BY <1>1, BlockFacts DEF OneFork
<1>3. CASE r \in stored
  BY Zenon, <1>1, <1>2, <1>3, OneForkOrder
<1>4. CASE r \in sync.blocks
  <2>1. IsTop(stored, sync.last) /\ Len(sync.last) < Len(r)
    BY <1>1, <1>4 DEF SyncOK
  <2>2. Len(b) <= Len(sync.last)
    BY Zenon, <2>1 DEF IsTop
  <2> QED
    BY <1>2, <2>1, <2>2
<1> QED
  BY Zenon, <1>3, <1>4

\* CheckL1BlockHash: the block that the main checker handles next is a row.
LEMMA MainBlockFacts ==
  ASSUME IInv, NEW n, NEW safe, MainBlock(n, safe) # <<>>
  PROVE  \E b \in stored : MainBlock(n, safe) = <<b>> /\ Len(b) <= safe
<1> DEFINE N == {k \in Numbers(stored \ checked) : n <= k}
<1>1. N # {} /\ Min(N) <= safe /\ MainBlock(n, safe) = <<Row(stored, Min(N))>>
  BY Zenon DEF MainBlock
<1>2. OneFork(stored) /\ stored \ checked \subseteq Block
  BY Zenon, SyncFacts DEF OneFork
<1>3. N \subseteq Nat /\ \A k \in N : \E x \in stored \ checked : Len(x) = k
  BY Zenon, <1>2, NumbersFacts
<1> HIDE DEF N
<1>4. Min(N) \in N
  BY Zenon, <1>1, <1>3, MinFacts
<1>5. PICK x \in stored : Len(x) = Min(N)
  BY Zenon, <1>3, <1>4
<1>6. Row(stored, Min(N)) = x
  BY Zenon, <1>2, <1>5, RowFacts
<1> QED
  BY Zenon, <1>1, <1>5, <1>6

\* A row that the main checker has picked, in state a.
LEMMA PickedFacts ==
  ASSUME IInv, NEW a, a.pc = "compare", NEW b \in stored, a.todo = <<b>>,
         Len(b) <= a.safe, a.safe <= finalized
  PROVE  /\ MainOK(a, stored \cup sync.blocks) /\ a.todo \in Seq(Block) /\ a.todo # <<>>
         /\ reorgs = 0 => \A i \in 1 .. Len(a.todo) : IsAncestor(a.todo[i], chain)
<1>1. b \in Block
  BY Zenon, SyncFacts DEF OneFork
<1>2. a.todo \in Seq(Block) /\ a.todo # <<>> /\ a.todo[1] = b /\ Len(a.todo) = 1
  BY <1>1
<1>3. \A r \in stored \cup sync.blocks : Len(r) = Len(b) => r = b
  BY Zenon, RowIsUnique
<1>4. MainOK(a, stored \cup sync.blocks)
  BY <1>2, <1>3 DEF MainOK
<1>5. reorgs = 0 => IsAncestor(b, chain)
  BY Zenon DEF IInv, SyncQuiet
<1>6. \A i \in 1 .. Len(a.todo) : a.todo[i] = b
  BY <1>2
<1> QED
  BY Zenon, <1>2, <1>4, <1>5, <1>6

\* CheckL1BlockHash.Step: the first block.
LEMMA MainStepStep == IInv /\ MainStep => IInv'
<1> SUFFICES ASSUME IInv, MainStep
             PROVE  IInv'
  OBVIOUS
<1> DEFINE main == async["main"]
           todo == MainBlock(0, finalized)
           a == [main EXCEPT !.pc = "compare", !.safe = finalized, !.todo = todo]
<1>1. /\ main.pc = "step" /\ todo # <<>>
      /\ chain' = chain /\ finalized' = finalized /\ reorgs' = reorgs /\ sync' = sync
      /\ stored' = stored /\ checked' = checked /\ stopping' = stopping
  BY DEF MainStep, At, dbVars, checkerUnchanged
<1>2. "main" \in Checker /\ "main" # "pre"
  BY DEF Checker
<1>3. /\ async \in [Checker -> CheckerRecord] /\ main \in CheckerRecord /\ CheckerOK(main)
      /\ finalized \in 0 .. MaxBlock /\ finalized \in 0 .. Len(chain)
      /\ stopping \in [Checker -> Nat] /\ checked \subseteq stored
  BY Zenon, <1>2, CheckerFacts
<1>4. async' = [async EXCEPT !["main"] = a]
  BY Zenon, <1>2, <1>3 DEF MainStep
<1>5. PICK b \in stored : todo = <<b>> /\ Len(b) <= finalized
  BY Zenon, <1>1, MainBlockFacts
<1> HIDE DEF todo
<1>6. /\ a.pc = "compare" /\ a.safe = finalized /\ a.todo = todo
      /\ a.running = main.running /\ a.result = main.result
  BY <1>3 DEF CheckerRecord
<1> HIDE DEF a
<1>7. finalized <= finalized
  BY <1>3
<1>8. /\ MainOK(a, stored \cup sync.blocks) /\ a.todo \in Seq(Block) /\ a.todo # <<>>
      /\ reorgs = 0 => \A i \in 1 .. Len(a.todo) : IsAncestor(a.todo[i], chain)
  BY Zenon, <1>5, <1>6, <1>7, PickedFacts
<1>9. a \in CheckerRecord
  <2>1. todo \in Seq(Block)
    BY Zenon, <1>6, <1>8
  <2> QED
    BY Zenon, <1>3, <2>1 DEF CheckerRecord, a
<1>10. CheckerOK(a)
  BY <1>1, <1>3, <1>6, <1>8 DEF CheckerOK
<1>11. reorgs = 0 => CheckerQuiet(a)
  BY <1>2, <1>6, <1>8 DEF IInv, CheckerQuiet
<1> QED
  BY Zenon, <1>1, <1>2, <1>3, <1>4, <1>6, <1>8, <1>9, <1>10, <1>11, CheckerStepKeeps

\* setResult: a checker ends with a result.
LEMMA ReorgAtKeeps ==
  ASSUME IInv, UNCHANGED <<chain, finalized, reorgs, sync, stored, checked, stopping>>,
         NEW c \in Checker, async[c].pc # "off", NEW n \in Failed .. MaxBlock,
         async' = ReorgAt(c, n), reorgs = 0 => n <= 0
  PROVE  IInv'
<1> DEFINE a == [async[c] EXCEPT !.result = n, !.pc = "end", !.todo = <<>>, !.safe = 0]
<1>1. /\ async \in [Checker -> CheckerRecord] /\ async[c] \in CheckerRecord
      /\ CheckerOK(async[c]) /\ stopping \in [Checker -> Nat] /\ checked \subseteq stored
  BY Zenon, CheckerFacts
<1>2. async' = [async EXCEPT ![c] = a]
  BY Zenon, <1>1 DEF ReorgAt
<1>3. <<>> \in Seq(Block) /\ Len(<<>>) = 0 /\ 0 \in 0 .. MaxBlock
  BY L1Assumption
<1>4. a \in CheckerRecord
  BY Zenon, <1>1, <1>3 DEF CheckerRecord
<1>5. /\ a.pc = "end" /\ a.todo = <<>> /\ a.result = n /\ a.running = async[c].running
  BY <1>1 DEF CheckerRecord
<1> HIDE DEF a
<1>6. CheckerOK(a) /\ MainOK(a, stored \cup sync.blocks) /\ a.pc \notin {"update", "next"}
  BY <1>1, <1>5 DEF CheckerOK, MainOK
<1>7. reorgs = 0 => CheckerQuiet(a)
  BY <1>3, <1>5 DEF CheckerQuiet
<1> QED
  BY Zenon, <1>1, <1>2, <1>4, <1>5, <1>6, <1>7, CheckerStepKeeps

\* The step of a checker that only moves on or drops blocks of its list.
LEMMA MoveKeeps ==
  ASSUME IInv, UNCHANGED <<chain, finalized, reorgs, sync, stored, stopping>>,
         checked' \subseteq stored, NEW c \in Checker, async[c].pc # "off",
         NEW a \in CheckerRecord, async' = [async EXCEPT ![c] = a],
         a.running = async[c].running, a.result = async[c].result, a.safe = async[c].safe,
         a.pc # "step" => a.todo # <<>>,
         c = "main" => /\ a.pc \in {"update", "next"} /\ async[c].pc \in {"compare", "update"}
                       /\ a.todo = async[c].todo
                       /\ a.pc = "update" => IsAncestor(a.todo[1], chain),
         c = "pre" => a.pc \notin {"update", "next"},
         reorgs = 0 => a.pc # "verify" /\ \A i \in 1 .. Len(a.todo) : IsAncestor(a.todo[i], chain)
  PROVE  IInv'
<1>1. /\ CheckerOK(async[c]) /\ stopping \in [Checker -> Nat]
      /\ MainOK(async["main"], stored \cup sync.blocks)
  BY Zenon, CheckerFacts
<1>2. CheckerOK(a)
  BY <1>1 DEF CheckerOK
<1>3. c = "main" => MainOK(a, stored \cup sync.blocks)
  BY <1>1 DEF MainOK
<1>4. reorgs = 0 => CheckerQuiet(a)
  BY Zenon DEF IInv, CheckerQuiet
<1> QED
  BY Zenon, <1>1, <1>2, <1>3, <1>4, CheckerStepKeeps

\* CheckBlockHash of the main checker.
LEMMA MainCompareStep == IInv /\ MainCompare => IInv'
<1> SUFFICES ASSUME IInv, MainCompare
             PROVE  IInv'
  OBVIOUS
<1> DEFINE main == async["main"]
           b == main.todo[1]
           a == [main EXCEPT !.pc = "update"]
<1>1. /\ main.pc = "compare"
      /\ chain' = chain /\ finalized' = finalized /\ reorgs' = reorgs /\ sync' = sync
      /\ stored' = stored /\ checked' = checked /\ stopping' = stopping
  BY DEF MainCompare, At, dbVars, checkerUnchanged
<1>2. "main" \in Checker /\ "main" # "pre"
  BY DEF Checker
<1>3. /\ async \in [Checker -> CheckerRecord] /\ main \in CheckerRecord
      /\ finalized \in 0 .. Len(chain) /\ Len(chain) \in 0 .. MaxBlock /\ checked \subseteq stored
      /\ MainOK(main, stored \cup sync.blocks)
      /\ b \in Block /\ Head(main.todo) = b /\ Len(main.todo) > 0
  BY Zenon, <1>1, <1>2, CheckerFacts
<1>4. Len(b) \in 0 .. MaxBlock /\ MaxBlock \in Nat /\ main.safe \in 0 .. MaxBlock
  BY <1>3, BlockFacts, L1Assumption DEF CheckerRecord
<1>5. Len(b) <= main.safe /\ main.safe <= finalized
  BY Zenon, <1>1, <1>3 DEF MainOK
<1>6. Len(b) <= Len(chain)
  BY <1>3, <1>4, <1>5
<1>7. BlockByNumber(chain, Len(b)) = b <=> IsAncestor(b, chain)
  BY Zenon, <1>6 DEF IsAncestor
<1>8. CASE IsAncestor(b, chain)
  <2>1. async' = [async EXCEPT !["main"] = a]
    BY Zenon, <1>2, <1>3, <1>7, <1>8 DEF MainCompare
  <2>2. a \in CheckerRecord
    BY Zenon, <1>3 DEF CheckerRecord
  <2>3. /\ a.pc = "update" /\ a.todo = main.todo /\ a.running = main.running
        /\ a.result = main.result /\ a.safe = main.safe
    BY <1>3 DEF CheckerRecord
  <2>4. main.todo # <<>>
    BY <1>3
  <2>5. reorgs = 0 => \A i \in 1 .. Len(main.todo) : IsAncestor(main.todo[i], chain)
    BY Zenon, <1>2 DEF IInv, CheckerQuiet
  <2>6. main.pc # "off"
    BY <1>1
  <2>7. a.pc \in {"update", "next"} /\ a.pc # "verify"
    BY <2>3
  <2> HIDE DEF a
  <2> QED
    BY Zenon, <1>1, <1>2, <1>3, <1>8, <2>1, <2>2, <2>3, <2>4, <2>5, <2>6, <2>7, MoveKeeps
<1>9. CASE ~IsAncestor(b, chain)
  <2>1. async' = ReorgAt("main", Len(b))
    BY Zenon, <1>3, <1>7, <1>9 DEF MainCompare
  <2>2. reorgs # 0
    <3>1. 1 \in 1 .. Len(main.todo)
      <4>1. main.todo \in Seq(Block)
        BY Zenon, <1>3 DEF CheckerRecord
      <4> QED
        BY <1>3, <4>1
    <3> QED
      BY Zenon, <1>2, <1>9, <3>1 DEF IInv, CheckerQuiet
  <2>3. Len(b) \in Failed .. MaxBlock /\ main.pc # "off"
    BY <1>1, <1>4 DEF Failed
  <2> QED
    BY Zenon, <1>1, <1>2, <2>1, <2>2, <2>3, ReorgAtKeeps
<1> QED
  BY Zenon, <1>8, <1>9

\* UpdateCheckedBlockByNumber: the row that is marked is the compared block.
LEMMA MarkedFacts ==
  ASSUME IInv, MainUpdate
  PROVE  \A r \in Marked(Head(async["main"].todo)) : r \in stored /\ IsAncestor(r, chain)
<1>1. async["main"].pc = "update" /\ "main" \in Checker
  BY DEF MainUpdate, At, Checker
<1>2. /\ MainOK(async["main"], stored \cup sync.blocks)
      /\ Head(async["main"].todo) = async["main"].todo[1]
  BY Zenon, <1>1, CheckerFacts
<1> QED
  BY Zenon, <1>1, <1>2 DEF MainOK, Marked

\* The main checker marks by number the block whose hash it has compared.
LEMMA MainUpdateStep == IInv /\ MainUpdate => IInv'
<1> SUFFICES ASSUME IInv, MainUpdate
             PROVE  IInv'
  OBVIOUS
<1> DEFINE main == async["main"]
           a == [main EXCEPT !.pc = "next"]
<1>1. /\ main.pc = "update" /\ checked' = checked \cup Marked(Head(main.todo))
      /\ chain' = chain /\ finalized' = finalized /\ reorgs' = reorgs /\ sync' = sync
      /\ stored' = stored /\ stopping' = stopping
  BY DEF MainUpdate, At, dbVars, checkerUnchanged
<1>2. "main" \in Checker /\ "main" # "pre"
  BY DEF Checker
<1>3. /\ async \in [Checker -> CheckerRecord] /\ main \in CheckerRecord
      /\ checked \subseteq stored /\ Len(main.todo) > 0
  BY Zenon, <1>1, <1>2, CheckerFacts
<1>4. async' = [async EXCEPT !["main"] = a]
  BY Zenon, <1>2, <1>3 DEF MainUpdate
<1>5. a \in CheckerRecord
  BY Zenon, <1>3 DEF CheckerRecord
<1>6. /\ a.pc = "next" /\ a.todo = main.todo /\ a.running = main.running
      /\ a.result = main.result /\ a.safe = main.safe
  BY <1>3 DEF CheckerRecord
<1>7. main.todo # <<>>
  BY <1>3
<1>8. reorgs = 0 => \A i \in 1 .. Len(main.todo) : IsAncestor(main.todo[i], chain)
  BY Zenon, <1>2 DEF IInv, CheckerQuiet
<1>9. checked' \subseteq stored
  BY Zenon, <1>1, <1>3 DEF Marked
<1>10. main.pc # "off" /\ a.pc # "update" /\ a.pc # "verify"
  BY <1>1, <1>6
<1> HIDE DEF a
<1> QED
  BY Zenon, <1>1, <1>2, <1>4, <1>5, <1>6, <1>7, <1>8, <1>9, <1>10, MoveKeeps

\* doAllBlocks: the next block, not after the safe number read at first.
LEMMA MainNextStep == IInv /\ MainNext => IInv'
<1> SUFFICES ASSUME IInv, MainNext
             PROVE  IInv'
  OBVIOUS
<1> DEFINE main == async["main"]
           todo == MainBlock(Len(Head(main.todo)), main.safe)
           pc == IF todo = <<>> THEN "step" ELSE "compare"
           safe == IF todo = <<>> THEN 0 ELSE main.safe
           a == [main EXCEPT !.pc = pc, !.todo = todo, !.safe = safe]
<1>1. /\ main.pc = "next"
      /\ chain' = chain /\ finalized' = finalized /\ reorgs' = reorgs /\ sync' = sync
      /\ stored' = stored /\ checked' = checked /\ stopping' = stopping
  BY DEF MainNext, At, dbVars, checkerUnchanged
<1>2. "main" \in Checker /\ "main" # "pre"
  BY DEF Checker
<1>3. /\ async \in [Checker -> CheckerRecord] /\ main \in CheckerRecord /\ CheckerOK(main)
      /\ stopping \in [Checker -> Nat] /\ checked \subseteq stored
      /\ MainOK(main, stored \cup sync.blocks)
  BY Zenon, <1>2, CheckerFacts
<1>4. async' = [async EXCEPT !["main"] = a]
  BY Zenon, <1>2, <1>3 DEF MainNext
<1>5. main.safe \in 0 .. MaxBlock /\ main.safe <= finalized
  BY <1>1, <1>3 DEF MainOK, CheckerRecord
<1>6. <<>> \in Seq(Block) /\ Len(<<>>) = 0 /\ 0 \in 0 .. MaxBlock
  BY L1Assumption
<1>7. todo # <<>> => \E b \in stored : todo = <<b>> /\ Len(b) <= main.safe
  BY Zenon, MainBlockFacts
<1> HIDE DEF todo
<1>8. /\ a.pc = pc /\ a.safe = safe /\ a.todo = todo
      /\ a.running = main.running /\ a.result = main.result
  BY <1>3 DEF CheckerRecord
<1>9. /\ MainOK(a, stored \cup sync.blocks) /\ a.todo \in Seq(Block)
      /\ a.pc # "step" => a.todo # <<>>
      /\ reorgs = 0 => \A i \in 1 .. Len(a.todo) : IsAncestor(a.todo[i], chain)
  <2>1. CASE todo = <<>>
    <3>1. a.pc = "step" /\ a.todo = <<>>
      BY Zenon, <1>8, <2>1
    <3>2. MainOK(a, stored \cup sync.blocks)
      <4> HIDE DEF a
      <4> QED
        BY <3>1 DEF MainOK
    <3>3. \A i \in 1 .. Len(a.todo) : IsAncestor(a.todo[i], chain)
      <4> HIDE DEF a
      <4> QED
        BY <1>6, <3>1
    <3> QED
      BY Zenon, <1>6, <3>1, <3>2, <3>3
  <2>2. CASE todo # <<>>
    <3>1. PICK b \in stored : todo = <<b>> /\ Len(b) <= main.safe
      BY Zenon, <1>7, <2>2
    <3>2. a.pc = "compare" /\ a.safe = main.safe /\ a.todo = <<b>>
      BY Zenon, <1>8, <2>2, <3>1
    <3> HIDE DEF a
    <3> QED
      BY Zenon, <1>5, <3>1, <3>2, PickedFacts
  <2> QED
    BY Zenon, <2>1, <2>2
<1>10. a \in CheckerRecord
  <2>1. todo \in Seq(Block) /\ safe \in 0 .. MaxBlock /\ pc \in {"step", "compare"}
    BY Zenon, <1>5, <1>6, <1>8, <1>9
  <2> HIDE DEF safe, pc
  <2> QED
    BY Zenon, <1>3, <2>1 DEF CheckerRecord
<1> HIDE DEF a
<1>11. CheckerOK(a)
  BY <1>1, <1>3, <1>8, <1>9 DEF CheckerOK
<1>12. a.pc # "verify"
  BY <1>8
<1>13. reorgs = 0 => CheckerQuiet(a)
  BY Zenon, <1>2, <1>8, <1>9, <1>12 DEF IInv, CheckerQuiet
<1> QED
  BY Zenon, <1>1, <1>2, <1>3, <1>4, <1>8, <1>9, <1>10, <1>11, <1>13, CheckerStepKeeps

\* PreCheckL1BlockHash.Step: the rows to check.
LEMMA PreStepStep == IInv /\ PreStep => IInv'
<1> SUFFICES ASSUME IInv, PreStep
             PROVE  IInv'
  OBVIOUS
<1> DEFINE pre == async["pre"]
           T(to) == {b \in stored \ checked : Len(b) \in finalized .. to}
<1>1. /\ pre.pc = "step"
      /\ chain' = chain /\ finalized' = finalized /\ reorgs' = reorgs /\ sync' = sync
      /\ stored' = stored /\ checked' = checked /\ stopping' = stopping
  BY DEF PreStep, At, dbVars, checkerUnchanged
<1>2. "pre" \in Checker /\ "pre" # "main"
  BY DEF Checker
<1>3. PICK to \in finalized .. Len(chain) :
             /\ Ascending(T(to)) # <<>>
             /\ async' = [async EXCEPT !["pre"].pc = "compare", !["pre"].todo = Ascending(T(to))]
  BY Zenon DEF PreStep
<1> DEFINE todo == Ascending(T(to))
           a == [pre EXCEPT !.pc = "compare", !.todo = todo]
<1>4. /\ async \in [Checker -> CheckerRecord] /\ pre \in CheckerRecord
      /\ OneFork(stored) /\ stored \subseteq Block /\ checked \subseteq stored
  BY Zenon, <1>2, CheckerFacts
<1>5. T(to) \subseteq stored
  BY Zenon
<1> HIDE DEF T
<1>6. todo \in Seq(T(to)) /\ \A i \in 1 .. Len(todo) : todo[i] \in T(to)
  BY Zenon, <1>4, <1>5, OneForkSubset, AscendingFacts
<1>7. todo \in Seq(Block) /\ todo # <<>>
  <2>1. T(to) \subseteq Block
    BY Zenon, <1>4, <1>5
  <2>2. todo # <<>>
    BY Zenon, <1>3
  <2> HIDE DEF todo
  <2> QED
    BY <1>6, <2>1, <2>2
<1>8. async' = [async EXCEPT !["pre"] = a]
  BY Zenon, <1>2, <1>3, <1>4
<1>9. reorgs = 0 => \A i \in 1 .. Len(todo) : IsAncestor(todo[i], chain)
  BY Zenon, <1>5, <1>6 DEF IInv, SyncQuiet
<1> HIDE DEF todo
<1>10. a \in CheckerRecord
  BY Zenon, <1>4, <1>7 DEF CheckerRecord
<1>11. /\ a.pc = "compare" /\ a.todo = todo /\ a.running = pre.running
       /\ a.result = pre.result /\ a.safe = pre.safe
  BY <1>4 DEF CheckerRecord
<1> HIDE DEF a
<1>12. pre.pc # "off" /\ a.pc \notin {"update", "next"} /\ a.pc # "verify"
  BY <1>1, <1>11
<1> QED
  BY Zenon, <1>1, <1>2, <1>4, <1>7, <1>8, <1>9, <1>10, <1>11, <1>12, MoveKeeps

\* CheckBlockHash of the pre-checker.
LEMMA PreCompareStep == IInv /\ PreCompare => IInv'
<1> SUFFICES ASSUME IInv, PreCompare
             PROVE  IInv'
  OBVIOUS
<1> DEFINE pre == async["pre"]
           b == Head(pre.todo)
           rest == IF Len(b) <= Len(chain) THEN Tail(pre.todo) ELSE <<>>
           bad == Len(b) <= Len(chain) /\ ~IsAncestor(b, chain)
           todo == IF bad THEN pre.todo ELSE rest
           pc == IF bad THEN "verify" ELSE IF rest = <<>> THEN "step" ELSE pre.pc
           a == IF bad THEN [pre EXCEPT !.pc = "verify"]
                ELSE [pre EXCEPT !.pc = pc, !.todo = rest]
<1>1. /\ pre.pc = "compare"
      /\ chain' = chain /\ finalized' = finalized /\ reorgs' = reorgs /\ sync' = sync
      /\ stored' = stored /\ checked' = checked /\ stopping' = stopping
  BY DEF PreCompare, At, dbVars, checkerUnchanged
<1>2. "pre" \in Checker /\ "pre" # "main"
  BY DEF Checker
<1>3. /\ async \in [Checker -> CheckerRecord] /\ pre \in CheckerRecord
      /\ checked \subseteq stored /\ b = pre.todo[1] /\ Len(pre.todo) > 0
  BY Zenon, <1>1, <1>2, CheckerFacts
<1>4. async' = [async EXCEPT !["pre"] = a]
  <2>1. CASE bad
    BY Zenon, <1>2, <1>3, <2>1 DEF PreCompare
  <2>2. CASE ~bad
    BY Zenon, <1>2, <1>3, <2>2 DEF PreCompare
  <2> QED
    BY Zenon, <2>1, <2>2
<1>5. /\ pre.todo \in Seq(Block) /\ pre.todo # <<>> /\ 1 \in 1 .. Len(pre.todo)
      /\ Tail(pre.todo) \in Seq(Block) /\ <<>> \in Seq(Block) /\ Len(<<>>) = 0
      /\ \A i \in 1 .. Len(Tail(pre.todo)) :
           i + 1 \in 1 .. Len(pre.todo) /\ Tail(pre.todo)[i] = pre.todo[i + 1]
  <2>1. pre.todo \in Seq(Block)
    BY Zenon, <1>3 DEF CheckerRecord
  <2> QED
    BY <1>3, <2>1
<1>6. reorgs = 0 => ~bad /\ \A i \in 1 .. Len(todo) : IsAncestor(todo[i], chain)
  <2>1. SUFFICES ASSUME \A i \in 1 .. Len(pre.todo) : IsAncestor(pre.todo[i], chain)
                 PROVE  ~bad /\ \A i \in 1 .. Len(todo) : IsAncestor(todo[i], chain)
    BY Zenon, <1>2 DEF IInv, CheckerQuiet
  <2>2. ~bad
    BY Zenon, <1>3, <1>5, <2>1
  <2>3. CASE todo = Tail(pre.todo)
    BY Zenon, <1>5, <2>1, <2>2, <2>3
  <2>4. CASE todo = <<>>
    <3>1. \A i : i \notin 1 .. Len(<<>>)
      BY <1>5
    <3> QED
      BY Zenon, <2>2, <2>4, <3>1
  <2> QED
    BY Zenon, <2>2, <2>3, <2>4
<1>7. rest \in Seq(Block) /\ todo \in Seq(Block)
  BY Zenon, <1>5
<1>8. pc \in {"verify", "step", "compare"} /\ (pc # "step" => todo # <<>>)
      /\ (pc = "verify" => bad)
  BY <1>1, <1>5
<1> HIDE DEF rest, bad
<1>9. a \in CheckerRecord
  <2>1. [pre EXCEPT !.pc = "verify"] \in CheckerRecord
    BY Zenon, <1>3 DEF CheckerRecord
  <2>2. [pre EXCEPT !.pc = pc, !.todo = rest] \in CheckerRecord
    <3> HIDE DEF pc
    <3> QED
      BY Zenon, <1>3, <1>7, <1>8 DEF CheckerRecord
  <2> QED
    BY Zenon, <2>1, <2>2
<1>10. /\ a.pc = pc /\ a.todo = todo /\ a.running = pre.running
       /\ a.result = pre.result /\ a.safe = pre.safe
  BY <1>3 DEF CheckerRecord
<1> HIDE DEF a, todo, pc
<1>11. pre.pc # "off" /\ a.pc \notin {"update", "next"}
  BY <1>1, <1>8, <1>10
<1> QED
  BY Zenon, <1>1, <1>2, <1>3, <1>4, <1>6, <1>8, <1>9, <1>10, <1>11, MoveKeeps

\* checkThatStateBlockIsTheSame
LEMMA PreVerifyStep == IInv /\ PreVerify => IInv'
<1> SUFFICES ASSUME IInv, PreVerify
             PROVE  IInv'
  OBVIOUS
<1> DEFINE pre == async["pre"]
           b == Head(pre.todo)
           a == [pre EXCEPT !.pc = "step", !.todo = <<>>]
<1>1. /\ pre.pc = "verify"
      /\ async' = IF b \in stored \ checked THEN ReorgAt("pre", Len(b))
                  ELSE [async EXCEPT !["pre"].pc = "step", !["pre"].todo = <<>>]
      /\ chain' = chain /\ finalized' = finalized /\ reorgs' = reorgs /\ sync' = sync
      /\ stored' = stored /\ checked' = checked /\ stopping' = stopping
  BY Zenon DEF PreVerify, At, dbVars, checkerUnchanged
<1>2. "pre" \in Checker /\ "pre" # "main"
  BY DEF Checker
<1>3. /\ async \in [Checker -> CheckerRecord] /\ pre \in CheckerRecord
      /\ checked \subseteq stored /\ stored \subseteq Block
  BY Zenon, <1>1, <1>2, CheckerFacts
<1>4. reorgs # 0
  BY Zenon, <1>1, <1>2 DEF IInv, CheckerQuiet
<1>5. pre.pc # "off"
  BY <1>1
<1>6. CASE b \in stored \ checked
  <2>1. async' = ReorgAt("pre", Len(b)) /\ b \in Block
    BY Zenon, <1>1, <1>3, <1>6
  <2>2. Len(b) \in Failed .. MaxBlock
    BY <2>1, BlockFacts, L1Assumption DEF Failed
  <2> QED
    BY Zenon, <1>1, <1>2, <1>4, <1>5, <2>1, <2>2, ReorgAtKeeps
<1>7. CASE b \notin stored \ checked
  <2>1. async' = [async EXCEPT !["pre"] = a]
    BY Zenon, <1>1, <1>2, <1>3, <1>7
  <2>2. <<>> \in Seq(Block)
    OBVIOUS
  <2>3. a \in CheckerRecord
    BY Zenon, <1>3, <2>2 DEF CheckerRecord
  <2>4. /\ a.pc = "step" /\ a.todo = <<>> /\ a.running = pre.running
        /\ a.result = pre.result /\ a.safe = pre.safe
    BY <1>3 DEF CheckerRecord
  <2> HIDE DEF a
  <2>5. a.pc \notin {"update", "next"}
    BY <2>4
  <2> QED
    BY Zenon, <1>1, <1>2, <1>3, <1>4, <1>5, <2>1, <2>3, <2>4, <2>5, MoveKeeps
<1> QED
  BY Zenon, <1>6, <1>7

\* A checker whose context is cancelled ends.
LEMMA CancelledStep == \A c \in Checker : IInv /\ Cancelled(c) => IInv'
<1> SUFFICES ASSUME NEW c \in Checker, IInv, Cancelled(c)
             PROVE  IInv'
  OBVIOUS
<1>1. /\ async[c].pc # "off" /\ async' = ReorgAt(c, Failed)
      /\ chain' = chain /\ finalized' = finalized /\ reorgs' = reorgs /\ sync' = sync
      /\ stored' = stored /\ checked' = checked /\ stopping' = stopping
  BY DEF Cancelled, dbVars, checkerUnchanged
<1>2. Failed \in Failed .. MaxBlock /\ Failed <= 0
  BY L1Assumption DEF Failed
<1> QED
  BY Zenon, <1>1, <1>2, ReorgAtKeeps

\* The goroutine of a checker has ended: one more call of onFinishChecker.
LEMMA EndStep == \A c \in Checker : IInv /\ End(c) => IInv'
<1> SUFFICES ASSUME NEW c \in Checker, IInv, End(c)
             PROVE  IInv'
  OBVIOUS
<1> DEFINE a == [async[c] EXCEPT !.pc = "off", !.running = FALSE, !.cancelled = FALSE]
<1>1. /\ async[c].pc = "end"
      /\ async' = [async EXCEPT ![c].pc = "off", ![c].running = FALSE, ![c].cancelled = FALSE]
      /\ stopping' = [stopping EXCEPT !["main"] = stopping["main"] + 1]
      /\ chain' = chain /\ finalized' = finalized /\ reorgs' = reorgs /\ sync' = sync
      /\ stored' = stored /\ checked' = checked
  BY Zenon DEF End, dbVars
<1>2. "main" \in Checker /\ "pre" \in Checker /\ c \in {"main", "pre"} /\ "main" # "pre"
  BY DEF Checker
<1>3. /\ async \in [Checker -> CheckerRecord] /\ async[c] \in CheckerRecord
      /\ CheckerOK(async[c]) /\ stopping \in [Checker -> Nat] /\ checked \subseteq stored
  BY Zenon, CheckerFacts
<1>4. async' = [async EXCEPT ![c] = a]
  BY Zenon, <1>1, <1>3
<1>5. a \in CheckerRecord
  BY Zenon, <1>3 DEF CheckerRecord
<1>6. a.pc = "off" /\ ~a.running /\ a.todo = async[c].todo /\ a.result = async[c].result
  BY <1>3 DEF CheckerRecord
<1> HIDE DEF a
<1>7. CheckerOK(a) /\ MainOK(a, stored \cup sync.blocks) /\ a.pc \notin {"update", "next"}
  BY <1>6 DEF CheckerOK, MainOK
<1>8. /\ stopping["main"] \in Nat /\ stopping["pre"] \in Nat /\ stopping["main"] + 1 \in Nat
      /\ MaxStopping \in Nat
  BY <1>2, <1>3, SyncAssumption
<1>9. stopping' \in [Checker -> Nat] /\ stopping'["main"] = stopping["main"] + 1
      /\ stopping'["pre"] = stopping["pre"]
  BY Zenon, <1>1, <1>2, <1>3, <1>8
<1>10. Stopped'
  <2>0. Stopped /\ "main" \in Checker /\ "pre" \in Checker
    BY Zenon DEF IInv, Checker
  <2>1. async[c].running
    BY <1>1, <1>3 DEF CheckerOK
  <2>2. /\ Ends(async[c]) = 1 /\ Ends(async'[c]) = 0
        /\ \A d \in Checker : d # c => Ends(async'[d]) = Ends(async[d])
    BY Zenon, <1>3, <1>4, <1>6, <2>1 DEF Ends
  <2>3. \A d : Ends(d) \in {0, 1}
    BY DEF Ends
  <2>4. CASE c = "main"
    BY <1>8, <1>9, <2>0, <2>2, <2>3, <2>4 DEF Stopped
  <2>5. CASE c = "pre"
    BY <1>8, <1>9, <2>0, <2>2, <2>3, <2>5 DEF Stopped
  <2> QED
    BY Zenon, <1>2, <2>4, <2>5
<1>11. reorgs = 0 => CheckerQuiet(a)
  BY <1>6 DEF IInv, CheckerQuiet
<1> QED
  BY Zenon, <1>1, <1>3, <1>4, <1>5, <1>7, <1>9, <1>10, <1>11, CheckerStepKeeps

\* Stop: only the context of the checker changes.
LEMMA StopKeeps ==
  ASSUME IInv, UNCHANGED <<chain, finalized, reorgs, sync, stored, checked>>,
         NEW c \in Checker, Stop(c),
         stopping' \in [Checker -> Nat],
         stopping'["main"] + stopping'["pre"] <= stopping["main"] + stopping["pre"]
  PROVE  IInv'
<1> DEFINE on == async[c].pc \notin {"off", "end"}
           a == [async[c] EXCEPT !.cancelled = on]
<1>1. "main" \in Checker /\ "pre" \in Checker /\ c \in {"main", "pre"}
  BY DEF Checker
<1>2. /\ async \in [Checker -> CheckerRecord] /\ async[c] \in CheckerRecord
      /\ CheckerOK(async[c]) /\ stopping \in [Checker -> Nat] /\ checked \subseteq stored
      /\ MainOK(async["main"], stored \cup sync.blocks)
  BY Zenon, CheckerFacts
<1>3. async' = [async EXCEPT ![c] = a]
  BY Zenon, <1>2 DEF Stop
<1>4. on \in BOOLEAN
  BY Zenon
<1> HIDE DEF on
<1>5. a \in CheckerRecord
  BY Zenon, <1>2, <1>4 DEF CheckerRecord
<1>6. /\ a.pc = async[c].pc /\ a.running = async[c].running /\ a.todo = async[c].todo
      /\ a.result = async[c].result /\ a.safe = async[c].safe
  BY <1>2 DEF CheckerRecord
<1> HIDE DEF a
<1>7. /\ CheckerOK(a) /\ (c = "main" => MainOK(a, stored \cup sync.blocks))
      /\ c = "pre" => a.pc \notin {"update", "next"}
  BY Zenon, <1>2, <1>6 DEF IInv, CheckerOK, MainOK
<1>8. reorgs = 0 => CheckerQuiet(a)
  BY Zenon, <1>6 DEF IInv, CheckerQuiet
<1>9. Stopped'
  <2>1. \A d \in Checker : Ends(async'[d]) = Ends(async[d])
    BY Zenon, <1>2, <1>3, <1>6 DEF Ends
  <2>2. \A d : Ends(d) \in {0, 1}
    BY DEF Ends
  <2>3. /\ stopping["main"] \in Nat /\ stopping["pre"] \in Nat /\ MaxStopping \in Nat
        /\ stopping'["main"] \in Nat /\ stopping'["pre"] \in Nat
    BY <1>1, <1>2, SyncAssumption
  <2> QED
    <3>1. Stopped
      BY Zenon DEF IInv
    <3> QED
      BY <1>1, <2>1, <2>2, <2>3, <3>1 DEF Stopped
<1> QED
  BY Zenon, <1>2, <1>3, <1>5, <1>7, <1>8, <1>9, CheckerStepKeeps

\* onFinishChecker
LEMMA StopStep == IInv /\ (StopMain \/ StopPre) => IInv'
<1> SUFFICES ASSUME IInv, StopMain \/ StopPre
             PROVE  IInv'
  OBVIOUS
<1>1. "main" \in Checker /\ "pre" \in Checker /\ "main" # "pre" /\ Checker = {"main", "pre"}
  BY DEF Checker
<1>2. stopping \in [Checker -> Nat]
  BY Zenon, <1>1, CheckerFacts
<1>3. stopping["main"] \in Nat /\ stopping["pre"] \in Nat
  BY Zenon, <1>1, <1>2
<1>4. CASE StopMain
  <2>1. /\ stopping["main"] > 0 /\ Stop("main")
        /\ stopping' = [main |-> stopping["main"] - 1, pre |-> stopping["pre"] + 1]
        /\ chain' = chain /\ finalized' = finalized /\ reorgs' = reorgs /\ sync' = sync
        /\ stored' = stored /\ checked' = checked
    BY Zenon, <1>4 DEF StopMain, dbVars
  <2>2. /\ stopping' \in [Checker -> Nat]
        /\ stopping'["main"] + stopping'["pre"] <= stopping["main"] + stopping["pre"]
    BY <1>1, <1>3, <2>1
  <2> QED
    BY Zenon, <1>1, <2>1, <2>2, StopKeeps
<1>5. CASE StopPre
  <2>1. /\ stopping["pre"] > 0 /\ Stop("pre")
        /\ stopping' = [stopping EXCEPT !["pre"] = stopping["pre"] - 1]
        /\ chain' = chain /\ finalized' = finalized /\ reorgs' = reorgs /\ sync' = sync
        /\ stored' = stored /\ checked' = checked
    BY Zenon, <1>5 DEF StopPre, dbVars
  <2>2. /\ stopping' \in [Checker -> Nat]
        /\ stopping'["main"] + stopping'["pre"] <= stopping["main"] + stopping["pre"]
    BY <1>1, <1>2, <1>3, <2>1
  <2> QED
    BY Zenon, <1>1, <2>1, <2>2, StopKeeps
<1> QED
  BY Zenon, <1>4, <1>5

-----------------------------------------------------------------------------
(* The node starts, L1 moves on                                            *)

\* The checkers are launched and Sync starts from the last row.
LEMMA StartFacts ==
  ASSUME NEW S, Path(S), NEW last, IsTop(S, last)
  PROVE  LET a == [c \in Checker |-> Launched]
             n == [c \in Checker |-> 0]
         IN  /\ Loop(last) \in SyncRecord /\ SyncOK(S, Loop(last)) /\ Loop(last).blocks = {}
             /\ (\A b \in S : IsAncestor(b, chain)) => SyncQuiet(S, Loop(last))
             /\ a \in [Checker -> CheckerRecord] /\ n \in [Checker -> Nat]
             /\ MainOK(a["main"], S) /\ a["pre"].pc \notin {"update", "next"}
             /\ \A c \in Checker : CheckerOK(a[c]) /\ CheckerQuiet(a[c])
             /\ n["main"] + n["pre"] + Ends(a["main"]) + Ends(a["pre"]) <= MaxStopping + 2
<1> DEFINE a == [c \in Checker |-> Launched]
           n == [c \in Checker |-> 0]
<1>1. "main" \in Checker /\ "pre" \in Checker
  BY DEF Checker
<1>2. last \in S \cup {Genesis}
  BY Zenon DEF IsTop
<1>3. /\ Loop(last) \in SyncRecord /\ SyncOK(S, Loop(last)) /\ Loop(last).blocks = {}
      /\ (\A b \in S : IsAncestor(b, chain)) => SyncQuiet(S, Loop(last))
  BY Zenon, <1>2, LoopFacts
<1>4. \A c \in Checker : a[c] = Launched /\ n[c] = 0
  BY Zenon
<1>5. a \in [Checker -> CheckerRecord] /\ n \in [Checker -> Nat]
  BY LaunchedFacts
<1>6. /\ MainOK(a["main"], S) /\ a["pre"].pc = "step"
      /\ \A c \in Checker : CheckerOK(a[c]) /\ CheckerQuiet(a[c])
  BY Zenon, <1>1, <1>4, LaunchedFacts
<1>7. n["main"] + n["pre"] + Ends(a["main"]) + Ends(a["pre"]) <= MaxStopping + 2
  <2>1. n["main"] = 0 /\ n["pre"] = 0 /\ Ends(a["main"]) = 1 /\ Ends(a["pre"]) = 1
    BY Zenon, <1>1, <1>4, LaunchedFacts
  <2> QED
    BY <2>1, SyncAssumption
<1>8. a["pre"].pc \notin {"update", "next"}
  BY <1>6
<1> QED
  BY Zenon, <1>3, <1>5, <1>6, <1>7, <1>8

\* After a restart only the tables are left.
LEMMA RestartStep == IInv /\ Restart => IInv'
<1> SUFFICES ASSUME IInv, Restart
             PROVE  IInv'
  OBVIOUS
<1>1. /\ sync' = Loop(GetLastBlock)
      /\ async' = [c \in Checker |-> Launched] /\ stopping' = [c \in Checker |-> 0]
      /\ chain' = chain /\ finalized' = finalized /\ reorgs' = reorgs
      /\ stored' = stored /\ checked' = checked
  BY Zenon DEF Restart, dbVars
<1>2. Path(stored) /\ IsTop(stored, GetLastBlock)
  BY Zenon, SyncFacts
<1>3. /\ sync' \in SyncRecord /\ SyncOK(stored, sync') /\ sync'.blocks = {}
      /\ (\A b \in stored : IsAncestor(b, chain)) => SyncQuiet(stored, sync')
      /\ async' \in [Checker -> CheckerRecord] /\ stopping' \in [Checker -> Nat]
      /\ MainOK(async'["main"], stored) /\ async'["pre"].pc \notin {"update", "next"}
      /\ \A c \in Checker : CheckerOK(async'[c]) /\ CheckerQuiet(async'[c])
      /\ stopping'["main"] + stopping'["pre"] + Ends(async'["main"]) + Ends(async'["pre"])
           <= MaxStopping + 2
  BY Zenon, <1>1, <1>2, StartFacts
<1>4. Types' /\ Stopped'
  BY Zenon, <1>1, <1>3 DEF IInv, Types, Stopped
<1>5. MainOK(async["main"], stored \cup sync.blocks)'
  <2>1. stored \cup {} = stored
    BY Zenon
  <2>2. MainOK(async'["main"], stored' \cup sync'.blocks)
    BY Zenon, <1>1, <1>3, <2>1
  <2> QED
    BY Zenon, <1>1, <2>2 DEF MainOK
<1>6. SyncOK(stored', sync')
  BY Zenon, <1>1, <1>3
<1>7. (reorgs = 0 => SyncQuiet(stored, sync) /\ \A c \in Checker : CheckerQuiet(async[c]))'
  <2>1. reorgs = 0 => /\ SyncQuiet(stored, sync')
                      /\ \A c \in Checker : CheckerQuiet(async'[c])
    BY Zenon, <1>3 DEF IInv, SyncQuiet
  <2> QED
    BY Zenon, <1>1, <2>1 DEF SyncQuiet, CheckerQuiet
<1> QED
  BY Zenon, <1>3, <1>4, <1>5, <1>6, <1>7 DEF IInv

\* L1 changes no block up to the finalized one, and none before it reorganizes.
LEMMA L1Facts ==
  ASSUME chain \in Block, finalized \in 0 .. Len(chain), reorgs \in 0 .. MaxReorgs, L1Next
  PROVE  /\ chain' \in Block /\ finalized' \in 0 .. Len(chain') /\ reorgs' \in 0 .. MaxReorgs
         /\ finalized <= finalized'
         /\ \A b \in Block : Len(b) <= finalized => (IsAncestor(b, chain) <=> IsAncestor(b, chain'))
         /\ reorgs' = 0 => /\ reorgs = 0
                           /\ \A b \in Block : IsAncestor(b, chain) => IsAncestor(b, chain')
<1>1. Len(chain) \in 0 .. MaxBlock /\ MaxBlock \in Nat /\ MaxReorgs \in Nat
  BY BlockFacts, L1Assumption
<1>2. ASSUME NEW n \in finalized .. Len(chain), n < MaxBlock, NEW x \in Content,
             chain' = Append(BlockByNumber(chain, n), x)
      PROVE  /\ chain' \in Block /\ Len(chain') = n + 1
             /\ \A b \in Block : Len(b) <= n => (IsAncestor(b, chain) <=> IsAncestor(b, chain'))
  <2> DEFINE c == BlockByNumber(chain, n)
  <2>1. n \in 0 .. Len(chain)
    BY <1>1
  <2>2. c \in Block /\ Len(c) = n /\ IsAncestor(c, chain)
    BY Zenon, <2>1, CutFacts, CutAncestor
  <2> HIDE DEF c
  <2>3. c \in Seq(Content) /\ chain' = Append(c, x)
    BY <1>2, <2>2, BlockFacts DEF c
  <2>4. /\ chain' \in Seq(Content) /\ Len(chain') = n + 1
        /\ \A i \in 1 .. n : chain'[i] = c[i]
    BY <2>2, <2>3
  <2>5. chain' \in Block
    <3>1. Len(chain') <= MaxBlock
      BY <1>1, <1>2, <2>4
    <3> QED
      BY Zenon, <2>4, <3>1, IsBlock
  <2>6. IsAncestor(c, chain')
    <3>1. Len(c) <= Len(chain') /\ \A i \in 1 .. Len(c) : c[i] = chain'[i]
      BY <1>1, <2>2, <2>4
    <3> QED
      BY Zenon, <2>2, <2>5, <3>1, AncestorFacts
  <2>7. ASSUME NEW b \in Block, Len(b) <= n
        PROVE  IsAncestor(b, chain) <=> IsAncestor(b, chain')
    <3>1. IsAncestor(b, chain) => IsAncestor(b, c)
      BY Zenon, <2>2, <2>7, AncestorsCompare
    <3>2. IsAncestor(b, chain') => IsAncestor(b, c)
      BY Zenon, <2>2, <2>5, <2>6, <2>7, AncestorsCompare
    <3>3. IsAncestor(b, c) => IsAncestor(b, chain) /\ IsAncestor(b, chain')
      BY Zenon, <2>2, <2>5, <2>6, AncestorTransitive
    <3> QED
      BY Zenon, <3>1, <3>2, <3>3
  <2> QED
    BY Zenon, <2>4, <2>5, <2>7
<1>3. \A b \in Block : IsAncestor(b, chain) => Len(b) <= Len(chain)
  BY Zenon DEF IsAncestor
<1>4. \A b \in Block : Len(b) \in Nat
  BY BlockFacts
<1>5. CASE Grow
  <2> DEFINE n == Len(chain)
  <2>1. PICK ev \in BOOLEAN : chain' = Append(chain, [fork |-> reorgs, ev |-> ev])
    BY Zenon, <1>5 DEF Grow
  <2>2. n < MaxBlock /\ finalized' = finalized /\ reorgs' = reorgs
    BY Zenon, <1>5 DEF Grow
  <2>3. BlockByNumber(chain, n) = chain
    BY Zenon, AncestorReflexive DEF IsAncestor
  <2>4. [fork |-> reorgs, ev |-> ev] \in Content /\ n \in finalized .. Len(chain)
    BY <1>1 DEF Content
  <2>5. /\ chain' \in Block /\ Len(chain') = n + 1
        /\ \A b \in Block : Len(b) <= n => (IsAncestor(b, chain) <=> IsAncestor(b, chain'))
    BY Zenon, <1>2, <2>1, <2>2, <2>3, <2>4
  <2>6. \A b \in Block : Len(b) <= finalized => Len(b) <= n
    BY <1>1, <1>4
  <2>7. finalized' \in 0 .. Len(chain') /\ finalized <= finalized'
    BY <1>1, <2>2, <2>5
  <2> QED
    BY Zenon, <1>3, <2>2, <2>5, <2>6, <2>7
<1>6. CASE Reorg
  <2>1. reorgs < MaxReorgs /\ reorgs' = reorgs + 1 /\ finalized' = finalized
    BY Zenon, <1>6 DEF Reorg
  <2>2. PICK n \in finalized .. Len(chain) - 1, ev \in BOOLEAN :
               chain' = Append(BlockByNumber(chain, n), [fork |-> reorgs', ev |-> ev])
    BY Zenon, <1>6 DEF Reorg
  <2>3. [fork |-> reorgs', ev |-> ev] \in Content
    BY <1>1, <2>1 DEF Content
  <2>4. n \in finalized .. Len(chain) /\ n < MaxBlock
    BY <1>1
  <2>5. /\ chain' \in Block /\ Len(chain') = n + 1
        /\ \A b \in Block : Len(b) <= n => (IsAncestor(b, chain) <=> IsAncestor(b, chain'))
    BY Zenon, <1>2, <2>2, <2>3, <2>4
  <2>6. \A b \in Block : Len(b) <= finalized => Len(b) <= n
    BY <1>1, <1>4, <2>4
  <2>7. /\ finalized' \in 0 .. Len(chain') /\ finalized <= finalized'
        /\ reorgs' \in 0 .. MaxReorgs /\ reorgs' # 0
    BY <1>1, <2>1, <2>4, <2>5
  <2> QED
    BY Zenon, <2>5, <2>6, <2>7
<1>7. CASE Finalize
  <2>1. finalized < Len(chain) /\ finalized' = finalized + 1 /\ chain' = chain /\ reorgs' = reorgs
    BY <1>7 DEF Finalize
  <2>2. finalized' \in 0 .. Len(chain') /\ finalized <= finalized'
    BY <1>1, <2>1
  <2> QED
    BY Zenon, <2>1, <2>2
<1> QED
  BY Zenon, <1>5, <1>6, <1>7 DEF L1Next

\* L1 moves while calls of the loop and of the checkers are under way.
LEMMA L1StepStep == IInv /\ L1Step => IInv'
<1> SUFFICES ASSUME IInv, L1Step
             PROVE  IInv'
  OBVIOUS
<1> DEFINE main == async["main"]
           b == main.todo[1]
<1>1. /\ L1Next /\ stored' = stored /\ checked' = checked /\ sync' = sync
      /\ async' = async /\ stopping' = stopping
  BY Zenon DEF L1Step, dbVars, asyncVars
<1>2. /\ chain' \in Block /\ finalized' \in 0 .. Len(chain') /\ reorgs' \in 0 .. MaxReorgs
      /\ finalized <= finalized'
      /\ \A r \in Block : Len(r) <= finalized => (IsAncestor(r, chain) <=> IsAncestor(r, chain'))
      /\ reorgs' = 0 => /\ reorgs = 0
                        /\ \A r \in Block : IsAncestor(r, chain) => IsAncestor(r, chain')
  BY Zenon, <1>1, L1Facts DEF IInv, Types
<1>3. Types' /\ Stopped' /\ SyncOK(stored', sync')
  BY Zenon, <1>1, <1>2 DEF IInv, Types, Stopped
<1>4. "main" \in Checker
  BY DEF Checker
<1>5. MainOK(main, stored \cup sync.blocks)'
  <2>1. MainOK(main, stored \cup sync.blocks)
    BY Zenon DEF IInv
  <2>2. ASSUME main.pc \in {"compare", "update", "next"}
        PROVE  /\ Len(b) <= main.safe /\ main.safe <= finalized'
               /\ IsAncestor(b, chain) <=> IsAncestor(b, chain')
    <3>1. b \in Block /\ main \in CheckerRecord
      BY Zenon, <1>4, <2>2, CheckerFacts
    <3>2. Len(b) <= main.safe /\ main.safe <= finalized
      BY Zenon, <2>1, <2>2 DEF MainOK
    <3>3. Len(b) \in Nat /\ main.safe \in Nat /\ finalized \in Nat /\ finalized' \in Nat
      <4>1. main.safe \in 0 .. MaxBlock /\ chain \in Block /\ finalized \in 0 .. Len(chain)
        BY Zenon, <3>1 DEF IInv, Types, CheckerRecord
      <4> QED
        BY <1>2, <3>1, <4>1, BlockFacts, L1Assumption
    <3>4. Len(b) <= finalized /\ main.safe <= finalized'
      BY <1>2, <3>2, <3>3
    <3> QED
      BY Zenon, <1>2, <3>1, <3>2, <3>4
  <2> QED
    BY Zenon, <1>1, <2>1, <2>2 DEF MainOK
<1>6. ASSUME reorgs' = 0
      PROVE  (SyncQuiet(stored, sync) /\ \A c \in Checker : CheckerQuiet(async[c]))'
  <2>1. /\ SyncQuiet(stored, sync) /\ \A c \in Checker : CheckerQuiet(async[c])
        /\ \A r \in Block : IsAncestor(r, chain) => IsAncestor(r, chain')
    BY Zenon, <1>2, <1>6 DEF IInv
  <2>2. stored \cup sync.blocks \subseteq Block
    BY SyncFacts DEF SyncRecord
  <2>3. SyncQuiet(stored, sync)'
    BY Zenon, <1>1, <2>1, <2>2 DEF SyncQuiet
  <2>4. ASSUME NEW c \in Checker
        PROVE  CheckerQuiet(async[c])'
    <3>1. async[c].todo \in Seq(Block)
      BY Zenon, CheckerFacts DEF CheckerRecord
    <3>2. \A i \in 1 .. Len(async[c].todo) : async[c].todo[i] \in Block
      BY <3>1
    <3> QED
      BY Zenon, <1>1, <2>1, <3>2 DEF CheckerQuiet
  <2> QED
    BY Zenon, <2>3, <2>4
<1> QED
  BY Zenon, <1>1, <1>3, <1>5, <1>6 DEF IInv, CheckerOK

-----------------------------------------------------------------------------
(* The theorems                                                            *)

\* The invariant holds at the start.
LEMMA InitIInv == Init => IInv
<1> SUFFICES ASSUME Init
             PROVE  IInv
  OBVIOUS
<1>1. /\ chain = Genesis /\ finalized = 0 /\ reorgs = 0 /\ stored = {} /\ checked = {}
      /\ sync = Loop(Genesis) /\ async = [c \in Checker |-> Launched]
      /\ stopping = [c \in Checker |-> 0]
  BY Zenon DEF Init, L1Init
<1>2. Path({}) /\ IsTop({}, Genesis)
  BY Zenon DEF Path, OneFork, IsTop
<1>3. /\ sync \in SyncRecord /\ SyncOK(stored, sync) /\ sync.blocks = {}
      /\ SyncQuiet(stored, sync)
      /\ async \in [Checker -> CheckerRecord] /\ stopping \in [Checker -> Nat]
      /\ MainOK(async["main"], stored) /\ async["pre"].pc \notin {"update", "next"}
      /\ \A c \in Checker : CheckerOK(async[c]) /\ CheckerQuiet(async[c])
      /\ stopping["main"] + stopping["pre"] + Ends(async["main"]) + Ends(async["pre"])
           <= MaxStopping + 2
  BY Zenon, <1>1, <1>2, StartFacts
<1>4. chain \in Block /\ finalized \in 0 .. Len(chain) /\ reorgs \in 0 .. MaxReorgs
  BY <1>1, GenesisFacts, L1Assumption
<1>5. stored \subseteq Block /\ checked \subseteq stored /\ stored \cup sync.blocks = stored
  BY Zenon, <1>1, <1>3
<1> QED
  BY Zenon, <1>3, <1>4, <1>5 DEF IInv, Types, Stopped

\* Every step keeps the invariant.
LEMMA NextIInv == IInv /\ [Next]_vars => IInv'
<1> SUFFICES ASSUME IInv, [Next]_vars
             PROVE  IInv'
  OBVIOUS
<1>1. "main" \in Checker /\ "pre" \in Checker
  BY DEF Checker
<1>2. CASE SyncStep \/ StoreFails
  BY Zenon, <1>2, WalkStep, WrapReorgStep, WrapPassStep, ResetStateStep, OnResetStateStep,
     HeaderStep, FetchStep, GetFinalizedStep, StoreBlockStep, RangeDoneStep, StoreFailsStep
     DEF SyncStep
<1>3. CASE MainStepOrEnd
  BY Zenon, <1>1, <1>3, MainStepStep, MainCompareStep, MainUpdateStep, MainNextStep,
     CancelledStep, EndStep DEF MainStepOrEnd
<1>4. CASE PreStepOrEnd
  BY Zenon, <1>1, <1>4, PreStepStep, PreCompareStep, PreVerifyStep, CancelledStep, EndStep
     DEF PreStepOrEnd
<1>5. CASE StopMain \/ StopPre \/ Restart \/ L1Step
  BY Zenon, <1>5, StopStep, RestartStep, L1StepStep
<1>6. CASE UNCHANGED vars
  <2>1. /\ chain' = chain /\ finalized' = finalized /\ reorgs' = reorgs
        /\ stored' = stored /\ checked' = checked /\ sync' = sync
        /\ async' = async /\ stopping' = stopping
    BY Zenon, <1>6 DEF vars
  <2>2. sync \in SyncRecord /\ SyncOK(stored, sync) /\ checked \subseteq stored
    BY Zenon, SyncFacts
  <2>3. reorgs = 0 => SyncQuiet(stored, sync)
    BY Zenon DEF IInv
  <2>4. SyncQuiet(stored, sync) => SyncQuiet(stored', sync')
    BY Zenon, <2>1
  <2> QED
    BY Zenon, <2>1, <2>2, <2>3, <2>4, SyncStepKeeps
<1> QED
  BY Zenon, <1>2, <1>3, <1>4, <1>5, <1>6 DEF Next

\* The inductive invariant holds in every state: the rows and the blocks that Sync
\* holds go on from one another, whatever L1 and the checkers do meanwhile.
THEOREM InvariantHolds == Spec => []IInv
BY InitIInv, NextIInv, PTL DEF Spec

\* Type correctness of the synchronization and its checkers: every number stays
\* below the height of L1 and every block it holds is a block, and there are never
\* more onFinishChecker calls at once than checkers that were launched.
THEOREM TypeOKHolds == Spec => []TypeOK
<1>1. IInv => TypeOK
  <2> SUFFICES ASSUME IInv
               PROVE  TypeOK
    OBVIOUS
  <2>1. Types
    BY Zenon DEF IInv
  <2>2. /\ sync.pc \in {"walk", "wrap", "reset", "relaunch", "header", "fetch", "final", "store"}
        /\ sync.caller \in {"loop", "empty", "fetch"}
        /\ {sync.last, sync.at} \cup sync.init \cup sync.ok \cup sync.blocks \subseteq Block
        /\ {sync.depth, sync.known, sync.to, sync.fin} \subseteq 0 .. MaxBlock
    BY <2>1 DEF Types, SyncRecord
  <2>3. ASSUME NEW c \in Checker
        PROVE  /\ async[c].result \in Failed .. MaxBlock /\ async[c].safe \in 0 .. MaxBlock
               /\ Range(async[c].todo) \subseteq Block
    <3>1. /\ async[c].result \in Failed .. MaxBlock /\ async[c].safe \in 0 .. MaxBlock
          /\ async[c].todo \in Seq(Block)
      BY Zenon, <2>1 DEF Types, CheckerRecord
    <3>2. \A i \in DOMAIN async[c].todo : async[c].todo[i] \in Block
      BY <3>1
    <3> QED
      BY Zenon, <3>1, <3>2 DEF Range
  <2>4. stopping \in [Checker -> 0 .. MaxStopping + 2]
    <3>1. stopping \in [Checker -> Nat] /\ MaxStopping \in Nat
      BY SyncAssumption, <2>1 DEF Types
    <3>2. stopping["main"] \in Nat /\ stopping["pre"] \in Nat
      BY <3>1 DEF Checker
    <3>3. \A a : Ends(a) \in {0, 1}
      BY DEF Ends
    <3>4. stopping["main"] \in 0 .. MaxStopping + 2 /\ stopping["pre"] \in 0 .. MaxStopping + 2
      BY <3>1, <3>2, <3>3 DEF IInv, Stopped
    <3> QED
      BY <3>1, <3>4 DEF Checker
  <2> QED
    BY Zenon, <2>1, <2>2, <2>3, <2>4 DEF TypeOK, Types
<1> QED
  BY <1>1, InvariantHolds, PTL

\* The transactions that change state.block.
LEMMA StoredSteps ==
  ASSUME [Next]_vars, stored' # stored
  PROVE  StoreBlock \/ ResetState
<1>1. CASE SyncStep
  BY Zenon, <1>1 DEF SyncStep, Walk, WrapReorg, WrapPass, OnResetState, Header, Fetch,
     GetFinalized, RangeDone, dbVars
<1>2. CASE MainStepOrEnd
  BY Zenon, <1>2 DEF MainStepOrEnd, MainStep, MainCompare, MainUpdate, MainNext, Cancelled, End,
     dbVars
<1>3. CASE PreStepOrEnd
  BY Zenon, <1>3 DEF PreStepOrEnd, PreStep, PreCompare, PreVerify, Cancelled, End, dbVars
<1>4. CASE StoreFails \/ StopMain \/ StopPre \/ Restart \/ L1Step \/ UNCHANGED vars
  BY Zenon, <1>4 DEF StoreFails, StopMain, StopPre, Restart, L1Step, dbVars, vars
<1> QED
  BY Zenon, <1>1, <1>2, <1>3, <1>4 DEF Next

\* ProcessBlockRange implements Store of L1Follower.
LEMMA StoreBlockStores == IInv /\ StoreBlock => Follower!Next
<1> SUFFICES ASSUME IInv, StoreBlock
             PROVE  Follower!Next
  OBVIOUS
<1> DEFINE last == sync.last
           b == First(sync.blocks)
           S == stored \cup {b}
<1>1. /\ stored' = S /\ Path(S) /\ IsTop(stored, last)
      /\ Len(last) < Len(b) /\ IsAncestor(last, b) /\ b \in sync.blocks
      /\ \A n \in Len(last) + 1 .. Len(b) - 1 : ~b[n].ev
  BY Zenon, StoreBlockFacts
<1>2. Path(stored) /\ OneFork(stored) /\ stored \subseteq Block /\ sync \in SyncRecord /\ last \in Block
  BY Zenon, SyncFacts DEF OneFork
<1> HIDE DEF b, last
<1>3. b \in Block
  BY <1>1, <1>2 DEF SyncRecord
<1>4. \A a \in stored : Len(a) < Len(b)
  <2>1. \A a \in stored : Len(a) <= Len(last)
    BY Zenon, <1>1 DEF IsTop
  <2>2. Len(last) \in Nat /\ Len(b) \in Nat /\ \A a \in stored : Len(a) \in Nat
    BY <1>2, <1>3, BlockFacts
  <2> QED
    BY <1>1, <2>1, <2>2
<1>5. Ascending(stored') = Append(Ascending(stored), b)
  BY Zenon, <1>1, <1>4, AscendingAppend DEF Path
<1>6. Ascending(stored) \in Seq(stored)
  BY Zenon, <1>2, AscendingFacts
<1>7. Ascending(stored) \in Seq(Block)
  BY <1>2, <1>6
<1>8. /\ Ascending(stored') # <<>>
      /\ Ascending(stored')[Len(Ascending(stored'))] = b
  BY <1>3, <1>5, <1>7
<1>9. Follower!Top(Ascending(stored')) = b
  BY Zenon, <1>8 DEF Follower!Top
<1>10. Follower!Top(Ascending(stored)) = last
  <2>1. IF stored = {} THEN Ascending(stored) = <<>> /\ last = Genesis
        ELSE /\ Ascending(stored) # <<>>
             /\ Ascending(stored)[Len(Ascending(stored))] = last
    BY Zenon, <1>1, <1>2, TopOfAscending
  <2>2. Genesis = <<>>
    BY DEF Genesis
  <2> QED
    BY Zenon, <2>1, <2>2 DEF Follower!Top
<1>11. Follower!Follows(last, b)
  BY Zenon, <1>1 DEF Follower!Follows, IsAncestor, BlockByNumber
<1> QED
  BY Zenon, <1>5, <1>8, <1>9, <1>10, <1>11 DEF Follower!Next, Follower!Store

\* resetState implements Reset of L1Follower.
LEMMA ResetStateResets == IInv /\ ResetState /\ stored' # stored => Follower!Next
<1> SUFFICES ASSUME IInv, ResetState, stored' # stored
             PROVE  Follower!Next
  OBVIOUS
<1> DEFINE n == Len(sync.last)
           T == {b \in stored : Len(b) <= n}
           k == Cardinality(T)
<1>1. stored' = T
  BY Zenon DEF ResetState
<1>2. OneFork(stored) /\ n \in 0 .. MaxBlock /\ MaxBlock \in Nat
  BY Zenon, SyncFacts
<1>3. n \in Nat
  BY <1>2
<1> HIDE DEF n
<1>4. /\ k \in 0 .. Cardinality(stored) /\ (k = Cardinality(stored) => T = stored)
      /\ Ascending(T) = SubSeq(Ascending(stored), 1, k)
  BY Zenon, <1>2, <1>3, AscendingCut
<1>5. Len(Ascending(stored)) = Cardinality(stored) /\ Cardinality(stored) \in Nat
  BY Zenon, <1>2, AscendingFacts, OneForkFinite, FS_CardinalityType
<1>6. k # Cardinality(stored)
  BY Zenon, <1>1, <1>4
<1> HIDE DEF T, k
<1>7. k \in 0 .. Len(Ascending(stored)) - 1
  BY <1>4, <1>5, <1>6
<1> QED
  BY Zenon, <1>1, <1>4, <1>7 DEF Follower!Next, Follower!Reset

\* The synchronization implements L1Follower: every transaction on state.block
\* adds the next block with events of the fork it is on, or removes the last ones.
THEOREM FollowsOneForkHolds == Spec => FollowsOneFork
<1>1. Init => Follower!Init
  <2>1. Init => stored = {}
    BY Zenon DEF Init
  <2>2. Path({}) /\ IsTop({}, Genesis)
    BY Zenon DEF Path, OneFork, IsTop
  <2>3. Ascending({}) = <<>>
    BY Zenon, <2>2, TopOfAscending
  <2> QED
    BY Zenon, <2>1, <2>3 DEF Follower!Init
<1>2. IInv /\ [Next]_vars => [Follower!Next]_(Ascending(stored))
  BY Zenon, StoredSteps, StoreBlockStores, ResetStateResets
<1> QED
  BY <1>1, <1>2, InvariantHolds, PTL DEF Spec, FollowsOneFork, Follower!Spec

\* No block is removed from state.block before L1 has reorganized: neither the walk
\* of Sync nor a background checker then finds a block that is not canonical.
THEOREM NoResetBeforeReorgHolds == Spec => NoResetBeforeReorg
<1>1. IInv /\ [Next]_vars => [reorgs = 0 => stored \subseteq stored']_vars
  <2> SUFFICES ASSUME IInv, [Next]_vars, reorgs = 0, stored' # stored
               PROVE  stored \subseteq stored'
    BY Zenon
  <2>1. CASE StoreBlock
    BY Zenon, <2>1 DEF StoreBlock
  <2>2. CASE ResetState
    BY Zenon, <2>2 DEF ResetState, IInv, SyncQuiet
  <2> QED
    BY Zenon, <2>1, <2>2, StoredSteps
<1> QED
  BY <1>1, InvariantHolds, PTL DEF Spec, NoResetBeforeReorg

\* The rows that the main checker marks are canonical, although it compares a block
\* and marks a number in two steps: the number is final by then.
THEOREM CheckerMarksCanonicalHolds == Spec => CheckerMarksCanonical
<1>1. IInv /\ [Next]_vars =>
        [stored' = stored => \A b \in checked' \ checked : IsAncestor(b, chain)]_vars
  <2> SUFFICES ASSUME IInv, [Next]_vars, stored' = stored, NEW b \in checked' \ checked
               PROVE  IsAncestor(b, chain)
    BY Zenon
  <2>1. CASE MainUpdate
    BY Zenon, <2>1, MarkedFacts DEF MainUpdate
  <2>2. CASE StoreBlock
    <3> DEFINE new == First(sync.blocks)
    <3>1. IsTop(stored, sync.last) /\ Len(sync.last) < Len(new) /\ new \in stored
      BY Zenon, <2>2, StoreBlockFacts
    <3>2. Len(new) <= Len(sync.last)
      BY Zenon, <3>1 DEF IsTop
    <3>3. Len(sync.last) \in Nat /\ Len(new) \in Nat
      <4>1. sync.last \in Block /\ new \in Block
        BY Zenon, <3>1, SyncFacts DEF OneFork
      <4> HIDE DEF new
      <4> QED
        BY <4>1, BlockFacts
    <3> HIDE DEF new
    <3> QED
      BY <3>1, <3>2, <3>3
  <2>3. CASE ResetState
    BY Zenon, <2>3 DEF ResetState
  <2>4. CASE SyncStep /\ ~StoreBlock /\ ~ResetState
    BY Zenon, <2>4 DEF SyncStep, Walk, WrapReorg, WrapPass, OnResetState, Header, Fetch,
       GetFinalized, RangeDone, dbVars
  <2>5. CASE MainStepOrEnd /\ ~MainUpdate
    BY Zenon, <2>5 DEF MainStepOrEnd, MainStep, MainCompare, MainNext, Cancelled, End, dbVars
  <2>6. CASE PreStepOrEnd
    BY Zenon, <2>6 DEF PreStepOrEnd, PreStep, PreCompare, PreVerify, Cancelled, End, dbVars
  <2>7. CASE StoreFails \/ StopMain \/ StopPre \/ Restart \/ L1Step \/ UNCHANGED vars
    BY Zenon, <2>7 DEF StoreFails, StopMain, StopPre, Restart, L1Step, dbVars, vars
  <2> QED
    BY Zenon, <2>1, <2>2, <2>3, <2>4, <2>5, <2>6, <2>7 DEF Next
<1> QED
  BY <1>1, InvariantHolds, PTL DEF Spec, CheckerMarksCanonical
=============================================================================
