----------------------- MODULE SynchronizerLoop_proofs -----------------------
(***************************************************************************)
(* The first part of the proofs about the sequential synchronization, for  *)
(* any height of L1, any number of reorganizations, failures and restarts  *)
(* and any chunk size: facts about the blocks of L1 (numbers, ancestors    *)
(* and blocks of one fork), the inductive invariant, and that the steps of *)
(* Sync, the loop of the synchronizer, keep it.                            *)
(***************************************************************************)
EXTENDS Synchronizer, FiniteSetTheorems, TLAPS

\* A leaf may take the SMT solver up to 30 seconds, twice.
USE SMTT(30), Z3T(30)

\* The blocks of S are blocks of one fork.
OneFork(S) == S \subseteq Block /\ \A a, b \in S : IsAncestor(a, b) \/ IsAncestor(b, a)

\* The blocks with events of one fork above the genesis block, up to some block.
Path(S) ==
  /\ OneFork(S)
  /\ \A b \in S : /\ Len(b) > 0 /\ HasEvents(b)
                  /\ \A n \in 1 .. Len(b) : b[n].ev => BlockByNumber(b, n) \in S

\* Block b is the last row when S is stored.
IsTop(S, b) == b \in S \cup {Genesis} /\ \A a \in S : Len(a) <= Len(b)

\* The blocks of S are those with events of one fork between last and some block.
Extends(S, last) ==
  /\ OneFork(S)
  /\ \A b \in S : /\ HasEvents(b) /\ IsAncestor(last, b)
                  /\ \A n \in Len(last) + 1 .. Len(b) : b[n].ev => BlockByNumber(b, n) \in S

\* The rows below block b.
Rank(S, b) == Cardinality({a \in S : Len(a) < Len(b)})

-----------------------------------------------------------------------------
(* Bounded sets of numbers                                                 *)

\* Min of a non-empty set of naturals is its least element.
LEMMA MinFacts ==
  ASSUME NEW S, S \subseteq Nat, S # {}
  PROVE  Min(S) \in S /\ \A y \in S : Min(S) <= y
<1>1. \E x \in S : \A y \in S : ~(<<y, x>> \in OpToRel(<, Nat))
  BY Zenon, NatLessThanWellFounded, WFMin
<1>2. PICK x \in S : \A y \in S : ~(<<y, x>> \in OpToRel(<, Nat))
  BY Zenon, <1>1
<1>3. ASSUME NEW y \in S
      PROVE  x <= y
  <2>1. SUFFICES ASSUME y < x
                 PROVE  FALSE
    OBVIOUS
  <2>2. <<y, x>> \in OpToRel(<, Nat)
    BY <2>1 DEF OpToRel
  <2> QED
    BY Zenon, <1>2, <2>2
<1> QED
  BY Zenon, <1>3 DEF Min

\* Max of a non-empty bounded set of naturals is its greatest element.
LEMMA MaxFacts ==
  ASSUME NEW m \in Nat, NEW S, S \subseteq 0 .. m, S # {}
  PROVE  Max(S) \in S /\ \A y \in S : y <= Max(S)
<1> DEFINE T == {k \in Nat : k <= m /\ m - k \in S}
<1>1. T \subseteq Nat
  OBVIOUS
<1>2. \A y \in S : m - y \in T
  OBVIOUS
<1>3. T # {}
  BY Zenon, <1>2
<1>4. Min(T) \in T /\ \A k \in T : Min(T) <= k
  <2> HIDE DEF T
  <2> QED
    BY Zenon, <1>1, <1>3, MinFacts
<1> DEFINE x == m - Min(T)
<1>5. x \in S
  BY <1>4
<1>6. \A y \in S : Min(T) <= m - y
  <2> HIDE DEF T
  <2> QED
    BY Zenon, <1>2, <1>4
<1>7. \A y \in S : x >= y
  <2>1. Min(T) \in Nat
    BY <1>4
  <2>2. SUFFICES ASSUME NEW y \in S
                 PROVE  x >= y
    OBVIOUS
  <2>3. Min(T) <= m - y /\ y \in Nat
    BY <1>6
  <2> HIDE DEF T
  <2> QED
    BY <2>1, <2>3
<1>8. Max(S) \in S /\ \A y \in S : Max(S) >= y
  <2> HIDE DEF x
  <2> QED
    BY Zenon, <1>5, <1>7 DEF Max
<1> QED
  BY <1>8

-----------------------------------------------------------------------------
(* Blocks                                                                  *)

\* A block is a sequence as long as its number.
LEMMA BlockFacts ==
  ASSUME NEW b \in Block
  PROVE  /\ b \in Seq(Content) /\ Len(b) \in 0 .. MaxBlock
         /\ DOMAIN b = 1 .. Len(b)
         /\ \A i \in 1 .. Len(b) : b[i] \in Content
<1>1. PICK n \in 0 .. MaxBlock : b \in [1 .. n -> Content]
  BY DEF Block
<1>2. n \in Nat
  BY L1Assumption
<1>3. b \in Seq(Content) /\ Len(b) = n
  BY <1>1, <1>2
<1> QED
  BY <1>1, <1>3

\* A sequence of contents that is not too long is a block.
LEMMA IsBlock ==
  ASSUME NEW b \in Seq(Content), Len(b) <= MaxBlock
  PROVE  b \in Block
<1>1. b \in [1 .. Len(b) -> Content] /\ Len(b) \in 0 .. MaxBlock
  BY L1Assumption
<1> QED
  BY <1>1 DEF Block

\* The genesis block has number 0, and is the only one.
LEMMA GenesisFacts ==
  /\ Genesis \in Block /\ Len(Genesis) = 0 /\ HasEvents(Genesis)
  /\ \A b \in Block : Len(b) = 0 => b = Genesis
<1>1. Genesis \in Seq(Content) /\ Len(Genesis) = 0
  BY DEF Genesis
<1>2. Genesis \in Block
  <2>1. Len(Genesis) <= MaxBlock
    BY <1>1, L1Assumption
  <2> QED
    BY Zenon, <1>1, <2>1, IsBlock
<1>3. ASSUME NEW b \in Block, Len(b) = 0
      PROVE  b = Genesis
  BY <1>3, BlockFacts DEF Genesis
<1> QED
  BY <1>1, <1>2, <1>3 DEF HasEvents

\* Blocks with the same number and the same contents are the same.
LEMMA SameBlock ==
  ASSUME NEW a \in Block, NEW b \in Block, Len(a) = Len(b),
         \A i \in 1 .. Len(a) : a[i] = b[i]
  PROVE  a = b
<1>1. a \in Seq(Content) /\ b \in Seq(Content)
  BY BlockFacts
<1> QED
  BY <1>1

\* BlockByNumber: a block of the same fork.
LEMMA CutFacts ==
  ASSUME NEW b \in Block, NEW n \in 0 .. Len(b)
  PROVE  /\ BlockByNumber(b, n) \in Block /\ Len(BlockByNumber(b, n)) = n
         /\ \A i \in 1 .. n : BlockByNumber(b, n)[i] = b[i]
<1>1. b \in Seq(Content) /\ Len(b) \in 0 .. MaxBlock
  BY BlockFacts
<1>2. /\ BlockByNumber(b, n) \in Seq(Content) /\ Len(BlockByNumber(b, n)) = n
      /\ \A i \in 1 .. n : BlockByNumber(b, n)[i] = b[i]
  BY <1>1 DEF BlockByNumber
<1> QED
  BY <1>1, <1>2, IsBlock, L1Assumption

\* A block is an ancestor exactly when the other one starts with it.
LEMMA AncestorFacts ==
  ASSUME NEW a \in Block, NEW b \in Block
  PROVE  IsAncestor(a, b) <=> Len(a) <= Len(b) /\ \A i \in 1 .. Len(a) : a[i] = b[i]
<1>1. Len(a) \in Nat /\ Len(b) \in Nat
  BY BlockFacts, L1Assumption
<1>2. ASSUME Len(a) <= Len(b)
      PROVE  BlockByNumber(b, Len(a)) = a <=> \A i \in 1 .. Len(a) : a[i] = b[i]
  <2>1. Len(a) \in 0 .. Len(b)
    BY <1>1, <1>2
  <2>2. /\ BlockByNumber(b, Len(a)) \in Block /\ Len(BlockByNumber(b, Len(a))) = Len(a)
        /\ \A i \in 1 .. Len(a) : BlockByNumber(b, Len(a))[i] = b[i]
    BY <2>1, CutFacts
  <2> QED
    BY <2>2, SameBlock
<1> QED
  BY <1>2 DEF IsAncestor

\* Every block is its own ancestor.
LEMMA AncestorReflexive ==
  ASSUME NEW b \in Block
  PROVE  IsAncestor(b, b)
<1>1. Len(b) \in Nat
  BY BlockFacts
<1> QED
  BY <1>1, AncestorFacts

\* The ancestors of an ancestor are ancestors.
LEMMA AncestorTransitive ==
  ASSUME NEW a \in Block, NEW b \in Block, NEW c \in Block,
         IsAncestor(a, b), IsAncestor(b, c)
  PROVE  IsAncestor(a, c)
<1>1. Len(a) \in Nat /\ Len(b) \in Nat /\ Len(c) \in Nat
  BY BlockFacts
<1>2. Len(a) <= Len(b) /\ \A i \in 1 .. Len(a) : a[i] = b[i]
  BY AncestorFacts
<1>3. Len(b) <= Len(c) /\ \A i \in 1 .. Len(b) : b[i] = c[i]
  BY AncestorFacts
<1>4. Len(a) <= Len(c) /\ \A i \in 1 .. Len(a) : a[i] = c[i]
  BY <1>1, <1>2, <1>3
<1> QED
  BY <1>4, AncestorFacts

\* Two ancestors of one block are blocks of one fork.
LEMMA AncestorsCompare ==
  ASSUME NEW a \in Block, NEW b \in Block, NEW c \in Block,
         IsAncestor(a, c), IsAncestor(b, c), Len(a) <= Len(b)
  PROVE  IsAncestor(a, b)
<1>1. Len(a) \in Nat /\ Len(b) \in Nat /\ Len(c) \in Nat
  BY BlockFacts
<1>2. \A i \in 1 .. Len(a) : a[i] = c[i]
  BY AncestorFacts
<1>3. \A i \in 1 .. Len(b) : b[i] = c[i]
  BY AncestorFacts
<1>4. \A i \in 1 .. Len(a) : a[i] = b[i]
  BY <1>1, <1>2, <1>3
<1> QED
  BY <1>4, AncestorFacts

\* An ancestor with the same number is the block itself.
LEMMA AncestorSameNumber ==
  ASSUME NEW a \in Block, NEW b \in Block, IsAncestor(a, b), Len(a) = Len(b)
  PROVE  a = b
<1>1. \A i \in 1 .. Len(a) : a[i] = b[i]
  BY AncestorFacts
<1> QED
  BY <1>1, SameBlock

\* BlockByNumber returns ancestors.
LEMMA CutAncestor ==
  ASSUME NEW b \in Block, NEW n \in 0 .. Len(b)
  PROVE  IsAncestor(BlockByNumber(b, n), b)
<1> DEFINE c == BlockByNumber(b, n)
<1>1. c \in Block /\ Len(c) = n /\ \A i \in 1 .. n : c[i] = b[i]
  BY CutFacts
<1>2. Len(b) \in Nat
  BY BlockFacts
<1> HIDE DEF c
<1>3. Len(c) <= Len(b) /\ \A i \in 1 .. Len(c) : c[i] = b[i]
  BY <1>1, <1>2
<1>4. IsAncestor(c, b)
  BY <1>1, <1>3, AncestorFacts
<1> QED
  BY <1>4 DEF c

\* Up to the number of an ancestor, two blocks have the same ancestors.
LEMMA CutOfAncestor ==
  ASSUME NEW a \in Block, NEW b \in Block, IsAncestor(a, b), NEW n \in 0 .. Len(a)
  PROVE  BlockByNumber(a, n) = BlockByNumber(b, n)
<1> DEFINE c == BlockByNumber(a, n)
           d == BlockByNumber(b, n)
<1>1. Len(a) \in Nat /\ Len(b) \in Nat /\ Len(a) <= Len(b)
      /\ \A i \in 1 .. Len(a) : a[i] = b[i]
  BY BlockFacts, AncestorFacts
<1>2. c \in Block /\ Len(c) = n /\ \A i \in 1 .. n : c[i] = a[i]
  BY CutFacts
<1>3. n \in 0 .. Len(b)
  BY <1>1
<1>4. d \in Block /\ Len(d) = n /\ \A i \in 1 .. n : d[i] = b[i]
  BY <1>3, CutFacts
<1> HIDE DEF c, d
<1>5. \A i \in 1 .. Len(c) : c[i] = d[i]
  BY <1>1, <1>2, <1>4
<1>6. c = d
  BY <1>2, <1>4, <1>5, SameBlock
<1> QED
  BY <1>6 DEF c, d

\* The genesis block is an ancestor of every block.
LEMMA GenesisAncestor ==
  ASSUME NEW b \in Block
  PROVE  IsAncestor(Genesis, b)
<1>1. Len(b) \in Nat
  BY BlockFacts
<1> QED
  BY <1>1, GenesisFacts, AncestorFacts

\* In a set of blocks of one fork the numbers order the blocks.
LEMMA OneForkOrder ==
  ASSUME NEW S, OneFork(S), NEW a \in S, NEW b \in S, Len(a) <= Len(b)
  PROVE  IsAncestor(a, b) /\ (Len(a) = Len(b) => a = b)
<1>1. a \in Block /\ b \in Block
  BY DEF OneFork
<1>2. Len(a) \in Nat /\ Len(b) \in Nat
  BY <1>1, BlockFacts
<1>3. CASE IsAncestor(a, b)
  BY Zenon, <1>1, <1>3, AncestorSameNumber
<1>4. CASE IsAncestor(b, a)
  <2>1. Len(b) = Len(a)
    BY <1>1, <1>2, <1>4 DEF IsAncestor
  <2>2. b = a
    BY Zenon, <1>1, <1>4, <2>1, AncestorSameNumber
  <2> QED
    BY Zenon, <1>1, <2>2, AncestorReflexive
<1> QED
  BY Zenon, <1>3, <1>4 DEF OneFork

\* A part of a fork is one.
LEMMA OneForkSubset ==
  ASSUME NEW S, OneFork(S), NEW T, T \subseteq S
  PROVE  OneFork(T)
BY Zenon DEF OneFork

-----------------------------------------------------------------------------
(* The rows of state.block                                                 *)

\* Numbers are bounded naturals.
LEMMA NumbersFacts ==
  ASSUME NEW S, S \subseteq Block
  PROVE  /\ Numbers(S) \subseteq 0 .. MaxBlock /\ Numbers(S) \subseteq Nat
         /\ \A n : n \in Numbers(S) <=> \E b \in S : Len(b) = n
         /\ Numbers(S) = {} <=> S = {}
<1>1. \A b \in S : Len(b) \in 0 .. MaxBlock /\ Len(b) \in Nat
  BY BlockFacts, L1Assumption
<1> QED
  BY Zenon, <1>1 DEF Numbers

\* A row is found by its number.
LEMMA RowFacts ==
  ASSUME NEW S, OneFork(S), NEW b \in S
  PROVE  Row(S, Len(b)) = b
<1>1. Row(S, Len(b)) \in S /\ Len(Row(S, Len(b))) = Len(b)
  BY Zenon DEF Row
<1>2. Len(b) <= Len(b)
  BY BlockFacts DEF OneFork
<1> QED
  BY <1>1, <1>2, OneForkOrder

\* First returns the block with the least number.
LEMMA FirstFacts ==
  ASSUME NEW S, OneFork(S), S # {}
  PROVE  First(S) \in S /\ \A b \in S : Len(First(S)) <= Len(b)
<1> DEFINE n == Min(Numbers(S))
<1>1. S \subseteq Block
  BY DEF OneFork
<1>2. n \in Numbers(S) /\ \A k \in Numbers(S) : n <= k
  BY Zenon, <1>1, NumbersFacts, MinFacts
<1>3. PICK b \in S : Len(b) = n
  BY Zenon, <1>1, <1>2, NumbersFacts
<1>4. First(S) = b
  BY Zenon, <1>3, RowFacts DEF First
<1>5. \A c \in S : Len(c) \in Numbers(S)
  BY Zenon, <1>1, NumbersFacts
<1> HIDE DEF n
<1> QED
  BY Zenon, <1>2, <1>3, <1>4, <1>5

\* The row with the greatest number below a bound, when there is one.
LEMMA LastRowFacts ==
  ASSUME NEW S, OneFork(S), NEW N, N \subseteq Numbers(S), N # {}
  PROVE  /\ Row(S, Max(N)) \in S /\ Len(Row(S, Max(N))) \in N
         /\ \A n \in N : n <= Len(Row(S, Max(N)))
<1> DEFINE m == Max(N)
<1>1. S \subseteq Block
  BY DEF OneFork
<1>2. N \subseteq 0 .. MaxBlock
  BY Zenon, <1>1, NumbersFacts
<1>3. m \in N /\ \A n \in N : n <= m
  BY Zenon, <1>2, MaxFacts, L1Assumption
<1>4. PICK b \in S : Len(b) = m
  BY Zenon, <1>1, <1>3, NumbersFacts
<1>5. Row(S, m) = b
  BY Zenon, <1>4, RowFacts
<1> HIDE DEF m
<1>6. Row(S, m) \in S /\ Len(Row(S, m)) \in N /\ \A n \in N : n <= Len(Row(S, m))
  BY Zenon, <1>3, <1>4, <1>5
<1> QED
  BY Zenon, <1>6 DEF m

\* The genesis block is a block of every fork.
LEMMA OneForkGenesis ==
  ASSUME NEW S, OneFork(S)
  PROVE  OneFork(S \cup {Genesis})
BY Zenon, GenesisFacts, GenesisAncestor DEF OneFork

\* A fork has a last row, and only one.
LEMMA TopFacts ==
  ASSUME NEW S, OneFork(S)
  PROVE  /\ IsTop(S, Row(S \cup {Genesis}, Max(Numbers(S \cup {Genesis}))))
         /\ \A a, b : IsTop(S, a) /\ IsTop(S, b) => a = b
<1> DEFINE R == S \cup {Genesis}
           t == Row(R, Max(Numbers(R)))
<1>1. OneFork(R) /\ R \subseteq Block
  BY Zenon, OneForkGenesis DEF OneFork
<1>2. Numbers(R) # {}
  <2>1. Genesis \in R
    OBVIOUS
  <2> HIDE DEF R
  <2> QED
    BY Zenon, <1>1, <2>1, NumbersFacts
<1>3. t \in R /\ \A n \in Numbers(R) : n <= Len(t)
  BY Zenon, <1>1, <1>2, LastRowFacts
<1>4. \A a \in S : Len(a) \in Numbers(R)
  BY Zenon, <1>1, NumbersFacts
<1>5. IsTop(S, t)
  BY Zenon, <1>3, <1>4 DEF IsTop
<1>6. ASSUME NEW a, NEW b, IsTop(S, a), IsTop(S, b)
      PROVE  a = b
  <2>1. a \in R /\ b \in R
    BY Zenon, <1>6 DEF IsTop
  <2>2. Len(a) \in Nat /\ Len(b) \in Nat /\ Len(Genesis) = 0
    BY <1>1, <2>1, BlockFacts, GenesisFacts
  <2>3. Len(a) <= Len(b) /\ Len(b) <= Len(a)
    BY <1>6, <2>1, <2>2 DEF IsTop
  <2>4. Len(a) = Len(b)
    BY <2>2, <2>3
  <2> QED
    BY Zenon, <1>1, <2>1, <2>3, <2>4, OneForkOrder
<1> QED
  BY Zenon, <1>5, <1>6

\* A fork is finite and not higher than L1 is.
LEMMA OneForkFinite ==
  ASSUME NEW S, OneFork(S)
  PROVE  IsFiniteSet(S) /\ Cardinality(S) \in 0 .. MaxBlock + 1
<1> DEFINE f == [b \in S |-> Len(b)]
<1>1. \A b \in S : Len(b) \in 0 .. MaxBlock /\ Len(b) <= Len(b)
  BY BlockFacts DEF OneFork
<1>2. \A a, b \in S : Len(a) = Len(b) => a = b
  BY <1>1, OneForkOrder
<1>3. f \in Injection(S, 0 .. MaxBlock)
  BY <1>1, <1>2 DEF Injection, IsInjective
<1>4. IsFiniteSet(0 .. MaxBlock) /\ Cardinality(0 .. MaxBlock) = MaxBlock + 1
  <2>1. 0 \in Int /\ MaxBlock \in Int /\ ~(0 > MaxBlock) /\ MaxBlock - 0 + 1 = MaxBlock + 1
    BY L1Assumption
  <2> QED
    BY <2>1, FS_Interval
<1>5. IsFiniteSet(S) /\ Cardinality(S) <= MaxBlock + 1
  <2>1. IsFiniteSet(S) /\ Cardinality(S) <= Cardinality(0 .. MaxBlock)
    <3> HIDE DEF f
    <3> QED
      BY Zenon, <1>3, <1>4, FS_Injection
  <2> QED
    BY Zenon, <1>4, <2>1
<1>6. Cardinality(S) \in Nat
  BY Zenon, <1>5, FS_CardinalityType
<1> QED
  BY <1>5, <1>6, L1Assumption

-----------------------------------------------------------------------------
(* The rows in the order of their numbers                                  *)

\* The rows below a block of the fork: fewer than all, and fewer the lower it is.
LEMMA RankFacts ==
  ASSUME NEW S, OneFork(S)
  PROVE  /\ \A b \in S : Rank(S, b) \in 0 .. Cardinality(S) - 1
         /\ \A a, b \in S : Len(a) < Len(b) => Rank(S, a) < Rank(S, b)
         /\ \A a, b \in S : Rank(S, a) = Rank(S, b) => a = b
<1> DEFINE Below(b) == {a \in S : Len(a) < Len(b)}
<1>1. IsFiniteSet(S) /\ Cardinality(S) \in Nat
  BY Zenon, OneForkFinite, FS_CardinalityType
<1>2. \A b \in S : Len(b) \in Nat
  BY BlockFacts DEF OneFork
<1>3. ASSUME NEW T, T \subseteq S
      PROVE  IsFiniteSet(T) /\ Cardinality(T) \in Nat
  BY Zenon, <1>1, <1>3, FS_Subset, FS_CardinalityType
<1>4. ASSUME NEW T, NEW U, T \subseteq U, U \subseteq S, NEW x \in U, x \notin T
      PROVE  Cardinality(T) < Cardinality(U)
  <2>1. IsFiniteSet(U) /\ T \in SUBSET U /\ T # U
    BY Zenon, <1>3, <1>4
  <2>2. Cardinality(T) <= Cardinality(U) /\ Cardinality(T) # Cardinality(U)
    BY Zenon, <2>1, FS_Subset
  <2>3. Cardinality(T) \in Nat /\ Cardinality(U) \in Nat
    BY Zenon, <1>3, <1>4
  <2> QED
    BY <2>2, <2>3
<1>5. ASSUME NEW b \in S
      PROVE  Rank(S, b) \in 0 .. Cardinality(S) - 1
  <2>1. Below(b) \subseteq S /\ b \notin Below(b)
    BY <1>2
  <2>2. Cardinality(Below(b)) < Cardinality(S) /\ Cardinality(Below(b)) \in Nat
    <3> HIDE DEF Below
    <3> QED
      BY Zenon, <1>3, <1>4, <2>1
  <2> QED
    BY <1>1, <2>2 DEF Rank
<1>6. ASSUME NEW a \in S, NEW b \in S, Len(a) < Len(b)
      PROVE  Rank(S, a) < Rank(S, b)
  <2>1. Below(a) \subseteq Below(b) /\ Below(b) \subseteq S
    BY <1>2, <1>6
  <2>2. a \in Below(b) /\ a \notin Below(a)
    BY <1>2, <1>6
  <2>3. Cardinality(Below(a)) < Cardinality(Below(b))
    <3> HIDE DEF Below
    <3> QED
      BY Zenon, <1>4, <2>1, <2>2
  <2> QED
    BY <2>3 DEF Rank
<1>7. ASSUME NEW a \in S, NEW b \in S, Rank(S, a) = Rank(S, b)
      PROVE  a = b
  <2>1. Rank(S, a) \in Nat /\ Rank(S, b) \in Nat
    BY <1>1, <1>5
  <2>2. ~(Len(a) < Len(b)) /\ ~(Len(b) < Len(a))
    BY <1>6, <1>7, <2>1
  <2>3. Len(a) = Len(b) /\ Len(a) <= Len(b)
    BY <1>2, <2>2
  <2> QED
    BY Zenon, <2>3, OneForkOrder
<1> QED
  BY Zenon, <1>5, <1>6, <1>7

\* Every rank is the rank of a row.
LEMMA RankOnto ==
  ASSUME NEW S, OneFork(S), NEW k \in 0 .. Cardinality(S) - 1
  PROVE  \E b \in S : Rank(S, b) = k
<1> DEFINE m == Cardinality(S)
           f == [b \in S |-> Rank(S, b)]
<1>1. IsFiniteSet(S) /\ m \in Nat
  BY Zenon, OneForkFinite, FS_CardinalityType
<1>2. m > 0
  BY <1>1
<1>3. IsFiniteSet(0 .. m - 1) /\ Cardinality(0 .. m - 1) = m
  <2>1. 0 \in Int /\ m - 1 \in Int /\ ~(0 > m - 1) /\ (m - 1) - 0 + 1 = m
    BY <1>1, <1>2
  <2> HIDE DEF m
  <2> QED
    BY <2>1, FS_Interval
<1>4. f \in Injection(S, 0 .. m - 1)
  BY RankFacts DEF Injection, IsInjective
<1>5. f \in Surjection(S, 0 .. m - 1)
  <2>1. Cardinality(S) = Cardinality(0 .. m - 1)
    BY <1>3
  <2> HIDE DEF f, m
  <2> QED
    BY Zenon, <1>3, <1>4, <2>1, FS_Injection
<1>6. PICK b \in S : f[b] = k
  <2>1. \A t \in 0 .. m - 1 : \E b \in S : f[b] = t
    <3> HIDE DEF f, m
    <3> QED
      BY Zenon, <1>5 DEF Surjection
  <2> QED
    BY Zenon, <2>1
<1> QED
  BY <1>6

\* Ascending lists every row once, at its rank.
LEMMA AscendingFacts ==
  ASSUME NEW S, OneFork(S)
  PROVE  /\ Ascending(S) \in Seq(S) /\ Len(Ascending(S)) = Cardinality(S)
         /\ \A i \in 1 .. Cardinality(S) : Ascending(S)[i] \in S /\ Rank(S, Ascending(S)[i]) = i - 1
         /\ \A b \in S : Rank(S, b) + 1 \in 1 .. Cardinality(S) /\ Ascending(S)[Rank(S, b) + 1] = b
<1> DEFINE m == Cardinality(S)
           RowAt(i) == CHOOSE b \in S : Rank(S, b) = i - 1
<1>1. m \in Nat
  BY Zenon, OneForkFinite, FS_CardinalityType
<1>2. Ascending(S) = [i \in 1 .. m |-> RowAt(i)]
  BY Zenon DEF Ascending, Rank
<1>3. ASSUME NEW i \in 1 .. m
      PROVE  RowAt(i) \in S /\ Rank(S, RowAt(i)) = i - 1
  <2>1. i - 1 \in 0 .. m - 1
    BY <1>1
  <2>2. \E b \in S : Rank(S, b) = i - 1
    BY Zenon, <2>1, RankOnto
  <2> QED
    BY Zenon, <2>2
<1>4. ASSUME NEW b \in S
      PROVE  Rank(S, b) + 1 \in 1 .. m /\ RowAt(Rank(S, b) + 1) = b
  <2> DEFINE i == Rank(S, b) + 1
  <2>1. Rank(S, b) \in 0 .. m - 1
    BY Zenon, RankFacts
  <2>2. i \in 1 .. m /\ i - 1 = Rank(S, b)
    BY <1>1, <2>1
  <2>3. RowAt(i) \in S /\ Rank(S, RowAt(i)) = Rank(S, b)
    <3>1. RowAt(i) \in S /\ Rank(S, RowAt(i)) = i - 1
      BY Zenon, <1>3, <2>2
    <3> QED
      BY Zenon, <2>2, <3>1
  <2>4. RowAt(i) = b
    BY Zenon, <2>3, RankFacts
  <2> QED
    BY Zenon, <2>2, <2>4
<1> HIDE DEF RowAt
<1> QED
  BY <1>1, <1>2, <1>3, <1>4

\* A block above all others comes last.
LEMMA AscendingAppend ==
  ASSUME NEW S, NEW b, OneFork(S \cup {b}), \A a \in S : Len(a) < Len(b)
  PROVE  Ascending(S \cup {b}) = Append(Ascending(S), b)
<1> DEFINE R == S \cup {b}
           m == Cardinality(S)
<1>1. OneFork(S) /\ S \subseteq R /\ b \in R
  BY Zenon, OneForkSubset
<1>2. \A a \in R : Len(a) \in Nat
  BY BlockFacts DEF OneFork
<1>3. b \notin S
  BY <1>2
<1>4. IsFiniteSet(S) /\ m \in Nat /\ Cardinality(R) = m + 1
  BY Zenon, <1>1, <1>3, OneForkFinite, FS_CardinalityType, FS_AddElement
<1>5. \A a \in S : Rank(R, a) = Rank(S, a)
  <2>1. ASSUME NEW a \in S
        PROVE  {c \in R : Len(c) < Len(a)} = {c \in S : Len(c) < Len(a)}
    <3>1. ~(Len(b) < Len(a))
      BY <1>2, <2>1
    <3> QED
      BY Zenon, <3>1
  <2> QED
    BY Zenon, <2>1 DEF Rank
<1>6. Rank(R, b) = m
  <2>1. ~(Len(b) < Len(b))
    BY <1>2
  <2>2. {c \in R : Len(c) < Len(b)} = S
    BY Zenon, <2>1
  <2> QED
    BY Zenon, <2>2 DEF Rank
<1> HIDE DEF R, m
<1>7. /\ Ascending(S) \in Seq(S) /\ Len(Ascending(S)) = m
      /\ \A i \in 1 .. m : Ascending(S)[i] \in S /\ Rank(S, Ascending(S)[i]) = i - 1
  BY Zenon, <1>1, AscendingFacts DEF m
<1>8. OneFork(R)
  BY DEF R
<1>9. /\ Ascending(R) \in Seq(R) /\ Len(Ascending(R)) = m + 1
      /\ \A a \in R : Ascending(R)[Rank(R, a) + 1] = a
  BY Zenon, <1>4, <1>8, AscendingFacts
<1>10. ASSUME NEW i \in 1 .. m
       PROVE  Ascending(R)[i] = Ascending(S)[i]
  <2> DEFINE a == Ascending(S)[i]
  <2>1. a \in S /\ a \in R /\ Rank(R, a) = i - 1
    BY Zenon, <1>1, <1>5, <1>7
  <2>2. (i - 1) + 1 = i
    OBVIOUS
  <2> QED
    BY Zenon, <1>9, <2>1, <2>2
<1>11. Ascending(R)[m + 1] = b
  BY Zenon, <1>1, <1>6, <1>9
<1>12. Ascending(S) \in Seq(R)
  BY <1>1, <1>7
<1>13. Ascending(R) = Append(Ascending(S), b)
  BY <1>1, <1>4, <1>7, <1>9, <1>10, <1>11, <1>12
<1> QED
  BY Zenon, <1>13 DEF R

\* Without the blocks above a number the list is a prefix of what it was.
LEMMA AscendingCut ==
  ASSUME NEW S, OneFork(S), NEW n \in Nat
  PROVE  LET T == {b \in S : Len(b) <= n}
         IN  /\ Cardinality(T) \in 0 .. Cardinality(S)
             /\ Cardinality(T) = Cardinality(S) => T = S
             /\ Ascending(T) = SubSeq(Ascending(S), 1, Cardinality(T))
<1> DEFINE T == {b \in S : Len(b) <= n}
           m == Cardinality(S)
           k == Cardinality(T)
<1>1. OneFork(T) /\ T \subseteq S
  BY Zenon, OneForkSubset
<1>2. \A a \in S : Len(a) \in Nat
  BY BlockFacts DEF OneFork
<1>3. ASSUME NEW a \in T
      PROVE  Rank(T, a) = Rank(S, a)
  <2>1. \A c \in S : Len(c) < Len(a) => Len(c) <= n
    BY <1>2, <1>3
  <2>2. {c \in T : Len(c) < Len(a)} = {c \in S : Len(c) < Len(a)}
    BY Zenon, <2>1
  <2> QED
    BY Zenon, <2>2 DEF Rank
<1> HIDE DEF T
<1>4. IsFiniteSet(S) /\ IsFiniteSet(T) /\ m \in Nat /\ k \in Nat
  BY Zenon, <1>1, OneForkFinite, FS_CardinalityType
<1>5. k <= m /\ (k = m => T = S)
  BY Zenon, <1>1, <1>4, FS_Subset
<1> HIDE DEF m, k
<1>6. /\ Ascending(S) \in Seq(S) /\ Len(Ascending(S)) = m
      /\ \A a \in S : Ascending(S)[Rank(S, a) + 1] = a
  BY Zenon, AscendingFacts DEF m
<1>7. /\ Ascending(T) \in Seq(T) /\ Len(Ascending(T)) = k
      /\ \A i \in 1 .. k : Ascending(T)[i] \in T /\ Rank(T, Ascending(T)[i]) = i - 1
  BY Zenon, <1>1, AscendingFacts DEF k
<1>8. ASSUME NEW i \in 1 .. k
      PROVE  Ascending(T)[i] = Ascending(S)[i]
  <2> DEFINE a == Ascending(T)[i]
  <2>1. a \in T /\ a \in S /\ Rank(S, a) = i - 1
    BY Zenon, <1>1, <1>3, <1>7
  <2>2. (i - 1) + 1 = i
    BY <1>4
  <2> QED
    BY Zenon, <1>6, <2>1, <2>2
<1>9. Ascending(T) \in Seq(S)
  BY <1>1, <1>7
<1>10. Ascending(T) = SubSeq(Ascending(S), 1, k)
  BY <1>4, <1>5, <1>6, <1>7, <1>8, <1>9
<1>11. k \in 0 .. m
  BY <1>4, <1>5
<1> QED
  BY Zenon, <1>5, <1>10, <1>11 DEF T, m, k

\* The rank of the highest row.
LEMMA TopRank ==
  ASSUME NEW R, OneFork(R), NEW t \in R, \A a \in R : Len(a) <= Len(t)
  PROVE  Rank(R, t) = Cardinality(R) - 1
<1> DEFINE m == Cardinality(R)
<1>1. Rank(R, t) \in 0 .. m - 1 /\ m \in Nat
  BY Zenon, RankFacts, OneForkFinite, FS_CardinalityType
<1>2. m - 1 \in 0 .. m - 1
  BY <1>1
<1>3. PICK x \in R : Rank(R, x) = m - 1
  BY Zenon, <1>2, RankOnto
<1>4. CASE Len(x) = Len(t)
  <2>1. Len(x) <= Len(t)
    OBVIOUS
  <2>2. x = t
    BY Zenon, <1>4, <2>1, OneForkOrder
  <2> QED
    BY Zenon, <1>3, <2>2
<1>5. CASE Len(x) # Len(t)
  <2>1. Len(x) \in Nat /\ Len(t) \in Nat /\ Len(x) <= Len(t)
    BY BlockFacts DEF OneFork
  <2>2. Len(x) < Len(t)
    BY <1>5, <2>1
  <2>3. Rank(R, x) < Rank(R, t)
    BY Zenon, <2>2, RankFacts
  <2> HIDE DEF m
  <2> QED
    BY <1>1, <1>3, <2>3
<1> QED
  BY Zenon, <1>4, <1>5

\* The last stored block is at the end of the list.
LEMMA TopOfAscending ==
  ASSUME NEW S, Path(S), NEW t, IsTop(S, t)
  PROVE  IF S = {} THEN Ascending(S) = <<>> /\ t = Genesis
         ELSE Ascending(S) # <<>> /\ Ascending(S)[Len(Ascending(S))] = t
<1>1. OneFork(S) /\ \A b \in S : Len(b) > 0 /\ Len(b) \in Nat
  BY BlockFacts DEF Path, OneFork
<1>2. /\ Ascending(S) \in Seq(S) /\ Len(Ascending(S)) = Cardinality(S)
      /\ \A b \in S : Rank(S, b) + 1 \in 1 .. Cardinality(S) /\ Ascending(S)[Rank(S, b) + 1] = b
  BY Zenon, <1>1, AscendingFacts
<1>3. CASE S = {}
  <2>1. Cardinality(S) = 0 /\ t = Genesis
    BY Zenon, <1>3, FS_EmptySet DEF IsTop
  <2>2. Ascending(S) = <<>>
    BY <1>2, <2>1
  <2> QED
    BY Zenon, <1>3, <2>1, <2>2
<1>4. CASE S # {}
  <2>1. t \in S /\ \A a \in S : Len(a) <= Len(t)
    BY <1>1, <1>4, GenesisFacts DEF IsTop
  <2>2. Rank(S, t) = Cardinality(S) - 1
    BY Zenon, <1>1, <2>1, TopRank
  <2>3. Cardinality(S) \in Nat
    BY Zenon, <1>1, OneForkFinite, FS_CardinalityType
  <2>4. Rank(S, t) + 1 = Cardinality(S)
    BY <2>2, <2>3
  <2>5. Ascending(S)[Len(Ascending(S))] = t /\ Len(Ascending(S)) \in 1 .. Cardinality(S)
    BY Zenon, <1>2, <2>1, <2>4
  <2>6. Ascending(S) # <<>>
    BY <1>2, <2>5
  <2> QED
    BY Zenon, <1>4, <2>5, <2>6
<1> QED
  BY Zenon, <1>3, <1>4

-----------------------------------------------------------------------------
(* Storing, removing and fetching blocks                                   *)

\* What ProcessBlockRange does: the next block of the range goes on top of the path.
LEMMA StoreFacts ==
  ASSUME NEW S, Path(S), NEW last, IsTop(S, last),
         NEW B, B # {}, Extends(B, last), \A c \in B : Len(last) < Len(c)
  PROVE  LET b == First(B)
         IN  /\ b \in B /\ Path(S \cup {b}) /\ IsTop(S \cup {b}, b)
             /\ Extends(B \ {b}, b) /\ \A c \in B \ {b} : Len(b) < Len(c)
             /\ Len(last) < Len(b) /\ IsAncestor(last, b)
             /\ \A n \in Len(last) + 1 .. Len(b) - 1 : ~b[n].ev
<1> DEFINE b == First(B)
           R == S \cup {b}
<1>1. OneFork(S) /\ OneFork(B) /\ S \subseteq Block /\ B \subseteq Block
  BY Zenon DEF Path, Extends, OneFork
<1>2. b \in B /\ \A c \in B : Len(b) <= Len(c)
  BY Zenon, <1>1, FirstFacts
<1> HIDE DEF b
<1>3. last \in Block /\ b \in Block
  BY Zenon, <1>1, <1>2, GenesisFacts DEF IsTop
<1>4. /\ Len(last) \in Nat /\ Len(b) \in Nat
      /\ \A c \in S \cup B : Len(c) \in Nat
  BY <1>1, <1>3, BlockFacts
<1>5. IsAncestor(last, b) /\ Len(last) < Len(b) /\ HasEvents(b)
  BY Zenon, <1>2 DEF Extends
<1>6. \A a \in S : IsAncestor(a, last) /\ IsAncestor(a, b) /\ Len(a) <= Len(last)
  <2>1. \A a \in S : Len(a) <= Len(last)
    BY Zenon DEF IsTop
  <2>2. \A a \in S : IsAncestor(a, last)
    BY Zenon, <1>1, <2>1, OneForkGenesis, OneForkOrder DEF IsTop
  <2> QED
    BY Zenon, <1>1, <1>3, <1>5, <2>1, <2>2, AncestorTransitive
<1>7. \A n \in Len(last) + 1 .. Len(b) - 1 : ~b[n].ev
  <2>1. SUFFICES ASSUME NEW n \in Len(last) + 1 .. Len(b) - 1, b[n].ev
                 PROVE  FALSE
    OBVIOUS
  <2>2. n \in Len(last) + 1 .. Len(b) /\ n \in 0 .. Len(b) /\ n < Len(b)
    BY <1>4
  <2>3. BlockByNumber(b, n) \in B /\ Len(BlockByNumber(b, n)) = n
    BY Zenon, <1>2, <1>3, <2>1, <2>2, CutFacts DEF Extends
  <2>4. Len(b) <= n
    BY Zenon, <1>2, <2>3
  <2> QED
    BY <1>4, <2>2, <2>4
<1>8. Path(R)
  <2>1. OneFork(R)
    BY Zenon, <1>1, <1>3, <1>6, AncestorReflexive DEF OneFork
  <2>2. \A c \in R : Len(c) > 0 /\ HasEvents(c)
    BY <1>4, <1>5 DEF Path
  <2>3. ASSUME NEW c \in S, NEW n \in 1 .. Len(c), c[n].ev
        PROVE  BlockByNumber(c, n) \in R
    BY Zenon, <2>3 DEF Path
  <2>4. ASSUME NEW n \in 1 .. Len(b), b[n].ev
        PROVE  BlockByNumber(b, n) \in R
    <3>1. n \in Nat /\ n \in 0 .. Len(b)
      BY <1>4
    <3>2. CASE n <= Len(last)
      <4>1. n \in 1 .. Len(last) /\ n \in 0 .. Len(last) /\ Len(last) # 0
        BY <1>4, <3>2
      <4>2. last \in S
        BY Zenon, <4>1, GenesisFacts DEF IsTop
      <4>3. last[n] = b[n] /\ BlockByNumber(last, n) = BlockByNumber(b, n)
        BY Zenon, <1>3, <1>5, <4>1, AncestorFacts, CutOfAncestor
      <4> QED
        BY Zenon, <2>4, <4>1, <4>2, <4>3 DEF Path
    <3>3. CASE ~(n <= Len(last))
      <4>1. n \in Len(last) + 1 .. Len(b)
        BY <1>4, <3>1, <3>3
      <4>2. ~(n \in Len(last) + 1 .. Len(b) - 1)
        BY Zenon, <1>7, <2>4
      <4>3. n = Len(b) /\ n \in 0 .. Len(b)
        BY <1>4, <4>1, <4>2
      <4>4. BlockByNumber(b, n) = b
        <5>1. IsAncestor(BlockByNumber(b, n), b) /\ BlockByNumber(b, n) \in Block
              /\ Len(BlockByNumber(b, n)) = Len(b)
          BY Zenon, <1>3, <4>3, CutAncestor, CutFacts
        <5> QED
          BY Zenon, <1>3, <5>1, AncestorSameNumber
      <4> QED
        BY Zenon, <4>4
    <3> QED
      BY Zenon, <3>2, <3>3
  <2> QED
    BY Zenon, <2>1, <2>2, <2>3, <2>4 DEF Path
<1>9. IsTop(R, b)
  BY <1>4, <1>5, <1>6 DEF IsTop
<1>10. \A c \in B \ {b} : Len(b) < Len(c) /\ IsAncestor(b, c)
  <2>1. SUFFICES ASSUME NEW c \in B, c # b
                 PROVE  Len(b) < Len(c) /\ IsAncestor(b, c)
    BY Zenon
  <2>2. Len(b) <= Len(c) /\ Len(c) # Len(b) /\ IsAncestor(b, c)
    BY Zenon, <1>1, <1>2, <2>1, OneForkOrder
  <2> QED
    BY <1>4, <2>2
<1>11. Extends(B \ {b}, b)
  <2>1. OneFork(B \ {b})
    BY Zenon, <1>1, OneForkSubset
  <2>2. ASSUME NEW c \in B \ {b}, NEW n \in Len(b) + 1 .. Len(c), c[n].ev
        PROVE  BlockByNumber(c, n) \in B \ {b}
    <3>1. n \in Len(last) + 1 .. Len(c) /\ n \in 0 .. Len(c) /\ n # Len(b) /\ c \in Block
      BY <1>1, <1>4, <1>5
    <3>2. BlockByNumber(c, n) \in B /\ Len(BlockByNumber(c, n)) = n
      BY Zenon, <2>2, <3>1, CutFacts DEF Extends
    <3> QED
      BY Zenon, <3>1, <3>2
  <2> QED
    BY Zenon, <1>10, <2>1, <2>2 DEF Extends
<1> QED
  BY Zenon, <1>2, <1>5, <1>7, <1>8, <1>9, <1>10, <1>11 DEF b

\* What Reset does: the rows up to a number are a path.
LEMMA PathCut ==
  ASSUME NEW S, Path(S), NEW n \in Nat
  PROVE  Path({b \in S : Len(b) <= n})
<1> DEFINE T == {b \in S : Len(b) <= n}
<1>1. OneFork(T)
  BY Zenon, OneForkSubset DEF Path
<1>2. ASSUME NEW b \in T, NEW k \in 1 .. Len(b), b[k].ev
      PROVE  BlockByNumber(b, k) \in T
  <2>1. b \in Block /\ b \in S
    BY Zenon DEF Path, OneFork
  <2>2. Len(b) \in Nat
    BY <2>1, BlockFacts
  <2>3. k \in 0 .. Len(b) /\ k <= n
    BY <2>2
  <2>4. BlockByNumber(b, k) \in S /\ Len(BlockByNumber(b, k)) = k
    BY Zenon, <1>2, <2>1, <2>3, CutFacts DEF Path
  <2> QED
    BY Zenon, <2>3, <2>4
<1> HIDE DEF T
<1>3. T \subseteq S
  BY DEF T
<1>4. Path(T)
  BY Zenon, <1>1, <1>2, <1>3 DEF Path
<1> QED
  BY Zenon, <1>4 DEF T

-----------------------------------------------------------------------------
(* The inductive invariant                                                 *)

SyncRecord ==
  [pc : {"walk", "wrap", "reset", "relaunch", "header", "fetch", "final", "store"},
   caller : {"loop", "empty", "fetch"}, last : Block, at : Block, depth : 0 .. MaxBlock,
   init : SUBSET Block, ok : SUBSET Block, err : BOOLEAN,
   known : 0 .. MaxBlock, to : 0 .. MaxBlock, blocks : SUBSET Block, fin : 0 .. MaxBlock]

CheckerRecord ==
  [running : BOOLEAN, cancelled : BOOLEAN, result : Failed .. MaxBlock,
   pc : {"off", "step", "compare", "update", "next", "verify", "end"},
   todo : Seq(Block), safe : 0 .. MaxBlock]

Types ==
  /\ chain \in Block /\ finalized \in 0 .. Len(chain) /\ reorgs \in 0 .. MaxReorgs
  /\ stored \subseteq Block /\ checked \subseteq stored
  /\ sync \in SyncRecord
  /\ async \in [Checker -> CheckerRecord]
  /\ stopping \in [Checker -> Nat]

\* onFinishChecker calls that a checker will make.
Ends(a) == IF a.running THEN 1 ELSE 0

Stopped ==
  stopping["main"] + stopping["pre"] + Ends(async["main"]) + Ends(async["pre"]) <= MaxStopping + 2

\* What the goroutine of Sync, in state s, knows of the rows S.
SyncOK(S, s) ==
  LET R == S \cup {Genesis}
  IN  /\ Path(S)
      /\ s.caller = "fetch" => s.pc \in {"walk", "wrap", "final", "store"}
      /\ s.caller = "empty" => s.pc \in {"walk", "wrap", "reset", "relaunch"}
      /\ s.pc \in {"final", "store"} => s.caller = "fetch"
      /\ s.last \in R /\ (s.pc = "wrap" => s.ok \subseteq R)
      /\ s.pc = "relaunch" \/ (s.pc # "reset" /\ s.caller # "empty") => IsTop(S, s.last)
      /\ s.caller # "fetch" => s.blocks = {} /\ s.init = {}
      /\ s.caller = "fetch" \/ s.pc = "fetch" => Len(s.last) <= s.to
      /\ \A b \in s.blocks : Len(s.last) < Len(b) /\ Len(b) <= s.to
      /\ s.pc = "walk" =>
           /\ s.at \in R /\ s.depth + Rank(R, s.at) < Cardinality(R)
           /\ s.init # {} => s.at = s.last
           /\ s.caller = "fetch" /\ s.init = {} => s.at # s.last
           /\ \A f \in s.init : /\ s.last = Genesis => f = Genesis
                                /\ f = s.last => Extends(s.blocks, s.last)
      /\ s.pc = "wrap" /\ s.caller = "fetch" /\ s.ok = {} /\ ~s.err => Extends(s.blocks, s.last)
      /\ s.pc \in {"final", "store"} => Extends(s.blocks, s.last)

\* Sync has not seen, and does not look for, a block that is not canonical.
SyncQuiet(S, s) ==
  /\ \A b \in S \cup s.blocks : IsAncestor(b, chain)
  /\ s.pc \notin {"reset", "relaunch"} /\ s.caller # "empty"
  /\ s.ok = {} /\ ~s.err
  /\ s.pc = "walk" => s.at = s.last /\ \A f \in s.init : f = s.last

\* A checker, in state a, has not seen one either.
CheckerQuiet(a) ==
  /\ a.result <= 0 /\ a.pc # "verify"
  /\ \A i \in 1 .. Len(a.todo) : IsAncestor(a.todo[i], chain)

\* The block that the main checker handles is final.  When it is canonical, no
\* other block of U (the rows, and the blocks that Sync will store) has its number.
MainOK(a, U) ==
  /\ a.pc \in {"compare", "update", "next"} =>
       Len(a.todo[1]) <= a.safe /\ a.safe <= finalized
  /\ a.pc \in {"compare", "update"} /\ IsAncestor(a.todo[1], chain) =>
       \A r \in U : Len(r) = Len(a.todo[1]) => r = a.todo[1]
  /\ a.pc = "update" => IsAncestor(a.todo[1], chain)
  /\ a.pc # "verify"

\* A checker in state a.
CheckerOK(a) ==
  /\ a.pc # "off" => a.running
  /\ a.pc \in {"compare", "update", "next", "verify"} => a.todo # <<>>

IInv ==
  /\ Types /\ Stopped
  /\ SyncOK(stored, sync)
  /\ MainOK(async["main"], stored \cup sync.blocks)
  /\ async["pre"].pc \notin {"update", "next"}
  /\ \A c \in Checker : CheckerOK(async[c])
  /\ reorgs = 0 => SyncQuiet(stored, sync) /\ \A c \in Checker : CheckerQuiet(async[c])

-----------------------------------------------------------------------------
(* The queries of Sync                                                     *)

\* SyncOK in checkReorg, and when it has returned.
LEMMA WalkOK ==
  ASSUME NEW S, NEW s, Path(S), s.pc = "walk", s.last \in S \cup {Genesis},
         s.caller # "empty" => IsTop(S, s.last),
         s.caller # "fetch" => s.blocks = {} /\ s.init = {},
         s.caller = "fetch" => Len(s.last) <= s.to,
         \A b \in s.blocks : Len(s.last) < Len(b) /\ Len(b) <= s.to,
         s.at \in S \cup {Genesis},
         s.depth + Rank(S \cup {Genesis}, s.at) < Cardinality(S \cup {Genesis}),
         s.init # {} => s.at = s.last,
         s.caller = "fetch" /\ s.init = {} => s.at # s.last,
         \A f \in s.init : /\ s.last = Genesis => f = Genesis
                           /\ f = s.last => Extends(s.blocks, s.last)
  PROVE  SyncOK(S, s)
<1>1. s.pc \notin {"wrap", "reset", "relaunch", "fetch", "final", "store"}
  OBVIOUS
<1> QED
  BY Zenon, <1>1 DEF SyncOK

\* checkReorg has returned.
LEMMA WrapOK ==
  ASSUME NEW S, NEW s, Path(S), s.pc = "wrap", s.last \in S \cup {Genesis},
         s.ok \subseteq S \cup {Genesis},
         s.caller # "empty" => IsTop(S, s.last),
         s.caller # "fetch" => s.blocks = {} /\ s.init = {},
         s.caller = "fetch" => Len(s.last) <= s.to,
         \A b \in s.blocks : Len(s.last) < Len(b) /\ Len(b) <= s.to,
         s.caller = "fetch" /\ s.ok = {} /\ ~s.err => Extends(s.blocks, s.last)
  PROVE  SyncOK(S, s)
<1>1. s.pc \notin {"walk", "reset", "relaunch", "fetch", "final", "store"}
  OBVIOUS
<1> QED
  BY Zenon, <1>1 DEF SyncOK

\* What SyncOK says of the answers in hand when checkReorg walks or has returned.
LEMMA CheckingFacts ==
  ASSUME NEW S, NEW s, SyncOK(S, s), s.pc \in {"walk", "wrap"}
  PROVE  /\ Path(S) /\ s.last \in S \cup {Genesis}
         /\ s.caller # "empty" => IsTop(S, s.last)
         /\ s.caller # "fetch" => s.blocks = {} /\ s.init = {}
         /\ s.caller = "fetch" => Len(s.last) <= s.to
         /\ \A b \in s.blocks : Len(s.last) < Len(b) /\ Len(b) <= s.to
<1>1. s.pc # "reset"
  OBVIOUS
<1> QED
  BY Zenon, <1>1 DEF SyncOK

\* GetPreviousBlock: a row below the last one, as long as there are so many.
LEMMA PreviousFacts ==
  ASSUME OneFork(stored), NEW d \in 1 .. Cardinality(Rows) - 1
  PROVE  /\ GetPreviousBlock(d) \in Rows
         /\ Rank(Rows, GetPreviousBlock(d)) = Cardinality(Rows) - d - 1
         /\ \A t : IsTop(stored, t) => GetPreviousBlock(d) # t
<1> DEFINE m == Cardinality(Rows)
           b == GetPreviousBlock(d)
<1>1. OneFork(Rows)
  BY Zenon, OneForkGenesis DEF Rows
<1>2. m \in Nat
  BY Zenon, <1>1, OneForkFinite, FS_CardinalityType
<1>3. m - d \in 1 .. m /\ (m - d) - 1 = m - d - 1 /\ m - d - 1 < m - 1
  BY <1>2
<1>4. b \in Rows /\ Rank(Rows, b) = m - d - 1
  BY Zenon, <1>1, <1>3, AscendingFacts DEF GetPreviousBlock
<1>5. ASSUME NEW t, IsTop(stored, t)
      PROVE  b # t
  <2>1. t \in Rows /\ \A a \in Rows : Len(a) <= Len(t)
    <3>1. t \in Rows /\ \A a \in stored : Len(a) <= Len(t)
      BY Zenon, <1>5 DEF IsTop, Rows
    <3>2. Len(t) \in Nat /\ Len(Genesis) = 0
      BY <1>1, <3>1, BlockFacts, GenesisFacts DEF OneFork
    <3> QED
      BY <3>1, <3>2 DEF Rows
  <2>2. Rank(Rows, t) = m - 1
    BY Zenon, <1>1, <2>1, TopRank
  <2>3. m - 1 # m - d - 1
    BY <1>2
  <2> QED
    BY Zenon, <1>4, <2>2, <2>3
<1> QED
  BY Zenon, <1>4, <1>5

\* GetRollupInfoByBlockRange: the canonical blocks with events of the range.
LEMMA FetchFacts ==
  ASSUME chain \in Block, NEW from \in Nat, NEW to \in Nat
  PROVE  /\ OneFork(GetRollupInfoByBlockRange(from, to))
         /\ \A b : b \in GetRollupInfoByBlockRange(from, to) <=>
              /\ b \in Block /\ IsAncestor(b, chain) /\ HasEvents(b)
              /\ from <= Len(b) /\ Len(b) <= to
<1> DEFINE B == GetRollupInfoByBlockRange(from, to)
<1>1. Len(chain) \in Nat
  BY BlockFacts
<1>2. ASSUME NEW n \in from .. Len(chain)
      PROVE  /\ BlockByNumber(chain, n) \in Block /\ Len(BlockByNumber(chain, n)) = n
             /\ IsAncestor(BlockByNumber(chain, n), chain) /\ from <= n
  <2>1. n \in 0 .. Len(chain) /\ from <= n
    BY <1>1
  <2> QED
    BY Zenon, <2>1, CutFacts, CutAncestor
<1>3. ASSUME NEW b \in B
      PROVE  /\ b \in Block /\ IsAncestor(b, chain) /\ HasEvents(b)
             /\ from <= Len(b) /\ Len(b) <= to
  BY Zenon, <1>2 DEF GetRollupInfoByBlockRange
<1>4. ASSUME NEW b \in Block, IsAncestor(b, chain), HasEvents(b),
             from <= Len(b), Len(b) <= to
      PROVE  b \in B
  <2>1. Len(b) \in Nat /\ Len(b) <= Len(chain) /\ b = BlockByNumber(chain, Len(b))
    BY <1>4, BlockFacts DEF IsAncestor
  <2>2. Len(b) \in from .. Len(chain)
    BY <1>1, <1>4, <2>1
  <2> QED
    BY Zenon, <1>4, <2>1, <2>2 DEF GetRollupInfoByBlockRange
<1> HIDE DEF B
<1>5. OneFork(B)
  <2>1. \A a \in B : Len(a) \in Nat
    BY <1>3, BlockFacts
  <2>2. \A a, b \in B : Len(a) <= Len(b) \/ Len(b) <= Len(a)
    BY <2>1
  <2> QED
    BY Zenon, <1>3, <2>2, AncestorsCompare DEF OneFork
<1> QED
  BY Zenon, <1>3, <1>4, <1>5 DEF B

\* syncBlocksSequential: when the first block of the range is the last stored
\* one, the other blocks of the range go on from it.
LEMMA RangeFacts ==
  ASSUME chain \in Block, NEW last \in Block, NEW to \in Nat
  PROVE  LET B == GetRollupInfoByBlockRange(Len(last), to)
         IN  /\ last = Genesis => B # {}
             /\ B # {} =>
                  /\ First(B) \in Block /\ (last = Genesis => First(B) = Genesis)
                  /\ First(B) = last => Extends(B \ {First(B)}, last)
                  /\ \A b \in B \ {First(B)} :
                       /\ b \in Block /\ IsAncestor(b, chain)
                       /\ Len(last) < Len(b) /\ Len(b) <= to
             /\ IsAncestor(last, chain) /\ HasEvents(last) /\ Len(last) <= to =>
                  B # {} /\ First(B) = last
<1> DEFINE B == GetRollupInfoByBlockRange(Len(last), to)
           f == First(B)
<1>1. Len(last) \in Nat /\ Len(last) <= Len(last)
  BY BlockFacts
<1>2. /\ OneFork(B)
      /\ \A b : b \in B <=> /\ b \in Block /\ IsAncestor(b, chain) /\ HasEvents(b)
                            /\ Len(last) <= Len(b) /\ Len(b) <= to
  BY Zenon, <1>1, FetchFacts
<1> HIDE DEF B
<1>3. B # {} => f \in B /\ \A b \in B : Len(f) <= Len(b)
  BY Zenon, <1>2, FirstFacts
<1> HIDE DEF f
<1>4. \A b \in B : b \in Block /\ Len(b) \in Nat
  BY <1>2, BlockFacts
<1>5. ASSUME last \in B
      PROVE  B # {} /\ f = last
  <2>1. f \in B /\ Len(f) <= Len(last) /\ Len(last) <= Len(f)
    BY Zenon, <1>2, <1>3, <1>5
  <2>2. Len(f) = Len(last)
    BY <1>1, <1>4, <2>1
  <2> QED
    BY Zenon, <1>2, <1>5, <2>1, <2>2, OneForkOrder
<1>6. ASSUME last = Genesis
      PROVE  last \in B
  <2>1. IsAncestor(last, chain) /\ HasEvents(last) /\ Len(last) = 0
    BY Zenon, <1>6, GenesisFacts, GenesisAncestor
  <2>2. Len(last) <= to
    BY <2>1
  <2> QED
    BY Zenon, <1>1, <1>2, <2>1, <2>2
<1>7. ASSUME NEW b \in B \ {f}
      PROVE  Len(last) < Len(b)
  <2>1. f \in B /\ b \in B /\ Len(f) <= Len(b) /\ Len(last) <= Len(f) /\ b # f
    BY Zenon, <1>2, <1>3
  <2>2. Len(f) # Len(b)
    BY Zenon, <1>2, <2>1, OneForkOrder
  <2> QED
    BY <1>1, <1>4, <2>1, <2>2
<1>8. ASSUME B # {}, f = last
      PROVE  Extends(B \ {f}, last)
  <2>1. OneFork(B \ {f})
    BY Zenon, <1>2, OneForkSubset
  <2>2. \A b \in B \ {f} : HasEvents(b) /\ IsAncestor(last, b)
    BY Zenon, <1>2, <1>3, <1>8, OneForkOrder
  <2>3. ASSUME NEW b \in B \ {f}, NEW n \in Len(last) + 1 .. Len(b), b[n].ev
        PROVE  BlockByNumber(b, n) \in B \ {f}
    <3> DEFINE c == BlockByNumber(b, n)
    <3>1. b \in Block /\ IsAncestor(b, chain) /\ Len(b) \in Nat /\ Len(b) <= to
      BY <1>2, <1>4
    <3>2. n \in 0 .. Len(b) /\ n \in 1 .. n /\ n # Len(last) /\ Len(last) <= n /\ n <= to
      BY <1>1, <3>1
    <3>3. c \in Block /\ Len(c) = n /\ c[n] = b[n] /\ IsAncestor(c, chain)
      BY Zenon, <3>1, <3>2, CutFacts, CutAncestor, AncestorTransitive
    <3>4. HasEvents(c)
      BY Zenon, <2>3, <3>3 DEF HasEvents
    <3>5. c \in B /\ c # f
      BY Zenon, <1>2, <1>8, <3>2, <3>3, <3>4
    <3> QED
      BY Zenon, <3>5
  <2> QED
    BY Zenon, <2>1, <2>2, <2>3 DEF Extends
<1> QED
  BY Zenon, <1>1, <1>2, <1>3, <1>5, <1>6, <1>7, <1>8 DEF B, f

-----------------------------------------------------------------------------
(* The steps of Sync                                                       *)

\* A checker that has just been launched: Run.
LEMMA LaunchedFacts ==
  /\ Launched \in CheckerRecord /\ CheckerOK(Launched)
  /\ \A U : MainOK(Launched, U)
  /\ CheckerQuiet(Launched) /\ Ends(Launched) = 1 /\ Launched.pc = "step"
<1>1. <<>> \in Seq(Block) /\ Len(<<>>) = 0
  OBVIOUS
<1>2. Launched \in CheckerRecord
  BY <1>1, L1Assumption DEF Launched, CheckerRecord, Running, Failed
<1>3. CheckerOK(Launched) /\ Ends(Launched) = 1 /\ Launched.pc = "step"
  BY DEF Launched, CheckerOK, Ends
<1>4. \A U : MainOK(Launched, U)
  BY DEF Launched, MainOK
<1>5. CheckerQuiet(Launched)
  BY <1>1 DEF Launched, CheckerQuiet, Running
<1> QED
  BY Zenon, <1>2, <1>3, <1>4, <1>5

\* launch: the checkers that were off are on.
LEMMA LaunchFacts ==
  ASSUME IInv, launch, UNCHANGED <<chain, finalized, reorgs, stopping>>
  PROVE  /\ async' \in [Checker -> CheckerRecord] /\ Stopped'
         /\ \A c \in Checker : /\ async'[c] = async[c] \/ async'[c] = Launched
                               /\ CheckerOK(async'[c])
                               /\ reorgs = 0 => CheckerQuiet(async'[c])
<1>1. \A c \in Checker : async'[c] = async[c] \/ async'[c] = Launched
  BY DEF launch, Run
<1>2. async' \in [Checker -> CheckerRecord]
  BY <1>1, LaunchedFacts DEF launch, Run, IInv, Types
<1>3. Stopped'
  <2>1. stopping["main"] + stopping["pre"] < MaxStopping /\ stopping' = stopping
    BY DEF launch
  <2>2. stopping["main"] \in Nat /\ stopping["pre"] \in Nat /\ MaxStopping \in Nat
    BY SyncAssumption DEF IInv, Types, Checker
  <2>3. \A a : Ends(a) \in {0, 1}
    BY DEF Ends
  <2> QED
    BY <2>1, <2>2, <2>3 DEF Stopped
<1>4. \A c \in Checker : /\ CheckerOK(async'[c])
                         /\ reorgs = 0 => CheckerQuiet(async'[c])
  BY Zenon, <1>1, LaunchedFacts DEF IInv
<1> QED
  BY Zenon, <1>1, <1>2, <1>3, <1>4

\* What a step of Sync has to show.
LEMMA SyncStepKeeps ==
  ASSUME IInv, UNCHANGED <<chain, finalized, reorgs, stopping>>, async' = async \/ launch,
         checked' \subseteq stored', sync' \in SyncRecord, SyncOK(stored', sync'),
         \A r \in stored' \cup sync'.blocks :
            r \in stored \cup sync.blocks \/ (r \in Block /\ IsAncestor(r, chain)),
         reorgs = 0 => SyncQuiet(stored', sync')
  PROVE  IInv'
<1> DEFINE main == async["main"]
           b == main.todo[1]
<1>1. /\ async' \in [Checker -> CheckerRecord] /\ Stopped'
      /\ \A c \in Checker : /\ async'[c] = async[c] \/ async'[c] = Launched
                            /\ CheckerOK(async'[c])
                            /\ reorgs = 0 => CheckerQuiet(async'[c])
  <2>1. CASE launch
    BY Zenon, <2>1, LaunchFacts
  <2>2. CASE async' = async
    BY Zenon, <2>2 DEF IInv, Types, Stopped
  <2> QED
    BY Zenon, <2>1, <2>2
<1>2. "main" \in Checker /\ "pre" \in Checker
  BY DEF Checker
<1>3. MainOK(async'["main"], stored' \cup sync'.blocks)
  <2>1. CASE async'["main"] = Launched
    BY Zenon, <2>1, LaunchedFacts
  <2>2. CASE async'["main"] = main
    <3>1. MainOK(main, stored \cup sync.blocks)
      BY Zenon DEF IInv
    <3>2. ASSUME main.pc \in {"compare", "update"}, IsAncestor(b, chain),
                 NEW r \in stored' \cup sync'.blocks, Len(r) = Len(b)
          PROVE  r = b
      <4>1. CASE r \in stored \cup sync.blocks
        BY Zenon, <3>1, <3>2, <4>1 DEF MainOK
      <4>2. CASE r \in Block /\ IsAncestor(r, chain)
        <5>1. main.todo \in Seq(Block) /\ main.todo # <<>>
          BY <1>2, <3>2 DEF IInv, Types, CheckerRecord, CheckerOK
        <5>2. b \in Block
          BY <5>1
        <5> QED
          BY Zenon, <3>2, <4>2, <5>2 DEF IsAncestor
      <4> QED
        BY Zenon, <4>1, <4>2
    <3> QED
      BY Zenon, <2>2, <3>1, <3>2 DEF MainOK
  <2> QED
    BY Zenon, <1>1, <1>2, <2>1, <2>2
<1>4. MainOK(async["main"], stored \cup sync.blocks)'
  BY Zenon, <1>3 DEF MainOK
<1>5. async'["pre"].pc \notin {"update", "next"}
  BY <1>1, <1>2, LaunchedFacts DEF IInv
<1>6. Types'
  <2>1. stored' \subseteq Block
    BY Zenon DEF SyncOK, Path, OneFork
  <2> QED
    BY Zenon, <1>1, <2>1 DEF IInv, Types
<1>7. (reorgs = 0 => SyncQuiet(stored, sync) /\ \A c \in Checker : CheckerQuiet(async[c]))'
  BY Zenon, <1>1 DEF SyncQuiet, CheckerQuiet
<1> QED
  BY Zenon, <1>1, <1>4, <1>5, <1>6, <1>7 DEF IInv

\* The facts that the steps below start from.
LEMMA SyncFacts ==
  ASSUME IInv
  PROVE  /\ chain \in Block /\ sync \in SyncRecord /\ SyncOK(stored, sync)
         /\ checked \subseteq stored /\ Path(stored) /\ OneFork(stored) /\ OneFork(Rows)
         /\ Rows = stored \cup {Genesis} /\ Rows \subseteq Block
         /\ MaxBlock \in Nat /\ sync.last \in Rows /\ sync.last \in Block
         /\ Len(sync.last) \in 0 .. MaxBlock
         /\ IsTop(stored, GetLastBlock)
<1>1. /\ chain \in Block /\ sync \in SyncRecord /\ SyncOK(stored, sync)
      /\ checked \subseteq stored
  BY Zenon DEF IInv, Types
<1>2. Path(stored) /\ OneFork(stored) /\ sync.last \in Rows
  BY Zenon, <1>1 DEF SyncOK, Path, Rows
<1>3. OneFork(Rows) /\ Rows \subseteq Block
  BY Zenon, <1>2, OneForkGenesis DEF Rows, OneFork
<1>4. IsTop(stored, GetLastBlock)
  BY Zenon, <1>2, TopFacts DEF GetLastBlock, Rows
<1>5. sync.last \in Block
  BY Zenon, <1>2, <1>3
<1>6. Len(sync.last) \in 0 .. MaxBlock
  BY Zenon, <1>5, BlockFacts
<1> QED
  BY Zenon, <1>1, <1>2, <1>3, <1>4, <1>5, <1>6, L1Assumption DEF Rows

\* The next iteration of Sync, or a reset, from a row.
LEMMA LoopFacts ==
  ASSUME NEW S, Path(S), NEW last \in S \cup {Genesis}
  PROVE  /\ Loop(last) \in SyncRecord /\ Loop(last).blocks = {}
         /\ [Loop(last) EXCEPT !.pc = "reset"] \in SyncRecord
         /\ IsTop(S, last) => SyncOK(S, Loop(last))
         /\ SyncOK(S, [Loop(last) EXCEPT !.pc = "reset"])
         /\ (\A b \in S : IsAncestor(b, chain)) => SyncQuiet(S, Loop(last))
<1> DEFINE R == S \cup {Genesis}
<1>1. OneFork(R) /\ R \subseteq Block
  BY Zenon, OneForkGenesis DEF Path, OneFork
<1>2. last \in Block
  BY Zenon, <1>1
<1>3. Rank(R, last) \in 0 .. Cardinality(R) - 1 /\ Cardinality(R) \in Nat
  BY Zenon, <1>1, RankFacts, OneForkFinite, FS_CardinalityType
<1>4. 0 + Rank(R, last) < Cardinality(R)
  BY <1>3
<1>5. Loop(last) \in SyncRecord /\ [Loop(last) EXCEPT !.pc = "reset"] \in SyncRecord
  <2>1. {} \in SUBSET Block /\ 0 \in 0 .. MaxBlock
    BY L1Assumption
  <2>2. Loop(last) \in SyncRecord
    BY <1>2, <2>1 DEF Loop, checkReorg, SyncRecord
  <2>3. [Loop(last) EXCEPT !.pc = "reset"] \in SyncRecord
    <3> HIDE DEF Loop
    <3> QED
      BY <2>2 DEF SyncRecord
  <2> QED
    BY Zenon, <2>2, <2>3
<1> HIDE DEF R
<1>6. IsTop(S, last) => SyncOK(S, Loop(last))
  BY <1>4 DEF Loop, checkReorg, SyncOK, R
<1>7. SyncOK(S, [Loop(last) EXCEPT !.pc = "reset"])
  BY DEF Loop, checkReorg, SyncOK
<1>8. (\A b \in S : IsAncestor(b, chain)) => SyncQuiet(S, Loop(last))
  BY DEF Loop, checkReorg, SyncQuiet
<1>9. Loop(last).blocks = {}
  BY DEF Loop, checkReorg
<1> QED
  BY Zenon, <1>5, <1>6, <1>7, <1>8, <1>9

\* One iteration of newCheckReorg: the rows are not all used up before the
\* genesis block, and a range is used only when its first block is the last row.
LEMMA WalkStep == IInv /\ Walk => IInv'
<1> SUFFICES ASSUME IInv, Walk
             PROVE  IInv'
  OBVIOUS
<1> DEFINE at == sync.at
           Return(ok, err) == [sync EXCEPT !.pc = "wrap", !.ok = ok, !.err = err,
                                           !.init = {}, !.at = Genesis, !.depth = 0]
           d == sync.depth + 1
           previous == [sync EXCEPT !.at = GetPreviousBlock(d), !.depth = d, !.init = {}]
<1>1. /\ sync.pc = "walk"
      /\ chain' = chain /\ finalized' = finalized /\ reorgs' = reorgs
      /\ stored' = stored /\ checked' = checked
      /\ async' = async /\ stopping' = stopping
  BY DEF Walk, dbVars, asyncVars
<1>2. PICK b : /\ sync.init = {} => b = BlockByNumber(chain, Len(at))
               /\ sync.init # {} => b \in sync.init
               /\ sync' = IF sync.init = {} /\ Len(at) > Len(chain) THEN Return({}, TRUE)
                          ELSE IF BadBlock(b, at) THEN previous
                          ELSE Return(IF at = sync.last THEN {} ELSE {at}, FALSE)
  <2>1. CASE sync.init = {}
    BY <2>1 DEF Walk
  <2>2. CASE sync.init # {}
    <3>1. (CHOOSE x \in sync.init : TRUE) \in sync.init
      BY Zenon, <2>2
    <3> QED
      BY Zenon, <2>2, <3>1 DEF Walk
  <2> QED
    BY Zenon, <2>1, <2>2
<1>3. /\ chain \in Block /\ sync \in SyncRecord /\ SyncOK(stored, sync) /\ checked \subseteq stored
      /\ OneFork(stored) /\ OneFork(Rows)
      /\ Rows = stored \cup {Genesis} /\ Rows \subseteq Block /\ sync.last \in Rows
  BY Zenon, SyncFacts
<1>0. /\ Path(stored) /\ (sync.caller # "empty" => IsTop(stored, sync.last))
      /\ sync.caller # "fetch" => sync.blocks = {} /\ sync.init = {}
      /\ sync.caller = "fetch" => Len(sync.last) <= sync.to
      /\ \A c \in sync.blocks : Len(sync.last) < Len(c) /\ Len(c) <= sync.to
  BY Zenon, <1>1, <1>3, CheckingFacts
<1>4. /\ at \in Rows /\ at \in Block /\ sync.depth \in Nat
      /\ sync.depth + Rank(Rows, at) < Cardinality(Rows)
      /\ sync.init # {} => at = sync.last
      /\ sync.caller = "fetch" /\ sync.init = {} => at # sync.last
      /\ \A f \in sync.init : /\ sync.last = Genesis => f = Genesis
                              /\ f = sync.last => Extends(sync.blocks, sync.last)
  <2>1. at \in Rows /\ at \in Block
    BY Zenon, <1>1, <1>3 DEF SyncOK
  <2>2. sync.depth \in Nat
    BY <1>3 DEF SyncRecord
  <2> QED
    BY Zenon, <1>1, <1>3, <2>1, <2>2 DEF SyncOK
<1>5. Len(at) \in Nat /\ Len(chain) \in Nat /\ Len(Genesis) = 0 /\ Genesis \in Block
  BY <1>3, <1>4, BlockFacts, GenesisFacts
<1>6. ASSUME reorgs = 0
      PROVE  b = at /\ Len(at) <= Len(chain) /\ at = sync.last
  <2>1. SyncQuiet(stored, sync)
    BY Zenon, <1>6 DEF IInv
  <2>2. at = sync.last /\ \A f \in sync.init : f = sync.last
    BY Zenon, <1>1, <2>1 DEF SyncQuiet
  <2>3. IsAncestor(at, chain)
    BY Zenon, <1>3, <1>4, <2>1, GenesisAncestor DEF SyncQuiet
  <2> QED
    BY Zenon, <1>2, <2>2, <2>3 DEF IsAncestor
<1>7. ASSUME NEW ok \in SUBSET Rows, NEW err \in BOOLEAN, sync' = Return(ok, err),
             sync.caller = "fetch" /\ ok = {} /\ ~err => Extends(sync.blocks, sync.last),
             reorgs = 0 => ok = {} /\ ~err
      PROVE  IInv'
  <2>1. ok \in SUBSET Block /\ {} \in SUBSET Block /\ 0 \in 0 .. MaxBlock
    BY <1>3, L1Assumption
  <2>2. sync' \in SyncRecord
    BY ZenonT(60), <1>3, <1>5, <1>7, <2>1 DEF SyncRecord
  <2>3. /\ sync'.pc = "wrap" /\ sync'.ok = ok /\ sync'.err = err /\ sync'.init = {}
        /\ sync'.caller = sync.caller /\ sync'.last = sync.last
        /\ sync'.to = sync.to /\ sync'.blocks = sync.blocks
    BY <1>3, <1>7 DEF SyncRecord
  <2>4. SyncOK(stored, sync')
    BY Zenon, <1>0, <1>3, <1>7, <2>3, WrapOK
  <2>5. reorgs = 0 => SyncQuiet(stored, sync')
    BY <1>1, <1>7, <2>3 DEF IInv, SyncQuiet
  <2> QED
    BY Zenon, <1>1, <1>3, <2>2, <2>3, <2>4, <2>5, SyncStepKeeps
<1>8. CASE sync.init = {} /\ Len(at) > Len(chain)
  <2>1. sync' = Return({}, TRUE) /\ {} \in SUBSET Rows /\ TRUE \in BOOLEAN
    BY <1>2, <1>8
  <2>2. ~(reorgs = 0)
    BY <1>5, <1>6, <1>8
  <2> HIDE DEF Return
  <2> QED
    BY Zenon, <1>7, <2>1, <2>2
<1>9. CASE ~(sync.init = {} /\ Len(at) > Len(chain)) /\ ~BadBlock(b, at)
  <2> DEFINE ok == IF at = sync.last THEN {} ELSE {at}
  <2>1. sync' = Return(ok, FALSE)
    BY Zenon, <1>2, <1>9
  <2>2. ok \in SUBSET Rows /\ FALSE \in BOOLEAN
    BY <1>4
  <2>3. ASSUME sync.caller = "fetch", ok = {}
        PROVE  Extends(sync.blocks, sync.last)
    <3>1. at = sync.last
      BY Zenon, <2>3
    <3>2. sync.init # {} /\ b \in sync.init
      BY Zenon, <1>2, <1>4, <2>3, <3>1
    <3>3. b = at \/ at = Genesis
      BY Zenon, <1>9 DEF BadBlock
    <3>4. b = sync.last
      BY Zenon, <1>4, <3>1, <3>2, <3>3
    <3> QED
      BY Zenon, <1>4, <3>2, <3>4
  <2>4. reorgs = 0 => ok = {}
    BY Zenon, <1>6
  <2> HIDE DEF Return, ok
  <2> QED
    BY Zenon, <1>7, <2>1, <2>2, <2>3, <2>4
<1>10. CASE ~(sync.init = {} /\ Len(at) > Len(chain)) /\ BadBlock(b, at)
  <2>1. sync' = previous
    BY Zenon, <1>2, <1>10
  <2>2. at # Genesis /\ b # at
    BY Zenon, <1>10 DEF BadBlock
  <2>3. reorgs # 0
    BY Zenon, <1>6, <2>2
  <2> DEFINE m == Cardinality(Rows)
  <2>4. m \in Nat /\ m <= MaxBlock + 1 /\ Rank(Rows, at) \in Nat /\ Rank(Rows, Genesis) \in Nat
    <3>1. m \in 0 .. MaxBlock + 1 /\ Genesis \in Rows
      BY Zenon, <1>3, OneForkFinite
    <3>2. Rank(Rows, at) \in 0 .. m - 1 /\ Rank(Rows, Genesis) \in 0 .. m - 1
      BY Zenon, <1>3, <1>4, <3>1, RankFacts
    <3> QED
      BY <3>1, <3>2, L1Assumption
  <2>5. Rank(Rows, at) >= 1
    <3>1. Len(Genesis) < Len(at) /\ Genesis \in Rows
      BY <1>3, <1>4, <1>5, <2>2, GenesisFacts
    <3>2. Rank(Rows, Genesis) < Rank(Rows, at)
      BY Zenon, <1>3, <1>4, <3>1, RankFacts
    <3> QED
      BY <2>4, <3>2
  <2>6. d \in 1 .. m - 1 /\ d \in 0 .. MaxBlock /\ d + (m - d - 1) < m
    BY <1>4, <2>4, <2>5, L1Assumption
  <2> DEFINE p == GetPreviousBlock(d)
  <2>7. /\ p \in Rows /\ p \in Block /\ Rank(Rows, p) = m - d - 1
        /\ \A t : IsTop(stored, t) => p # t
    BY Zenon, <1>3, <2>6, PreviousFacts
  <2>8. sync' \in SyncRecord
    <3>1. {} \in SUBSET Block
      OBVIOUS
    <3> HIDE DEF p, d
    <3> QED
      BY Zenon, <1>3, <2>1, <2>6, <2>7, <3>1 DEF SyncRecord, p
  <2>9. /\ sync'.pc = sync.pc /\ sync'.ok = sync.ok /\ sync'.err = sync.err /\ sync'.init = {}
        /\ sync'.caller = sync.caller /\ sync'.last = sync.last
        /\ sync'.to = sync.to /\ sync'.blocks = sync.blocks
        /\ sync'.at = p /\ sync'.depth = d
    <3> HIDE DEF p, d
    <3> QED
      BY <1>3, <2>1 DEF SyncRecord, p
  <2>10. d + Rank(Rows, p) < m
    BY Zenon, <2>6, <2>7
  <2>11. sync.caller = "fetch" => p # sync.last
    BY <1>1, <1>3, <2>7 DEF SyncOK
  <2> HIDE DEF p, d, m
  <2>12. SyncOK(stored, sync')
    BY Zenon, <1>0, <1>1, <1>3, <2>7, <2>9, <2>10, <2>11, WalkOK DEF m
  <2> QED
    BY Zenon, <1>1, <1>3, <2>3, <2>8, <2>9, <2>12, SyncStepKeeps
<1> QED
  BY Zenon, <1>8, <1>9, <1>10

\* getMergedResults: nothing, an error or a block, and no block before a reorg.
LEMMA MergedFacts ==
  ASSUME IInv
  PROVE  getMergedResults \in Failed .. MaxBlock /\ (reorgs = 0 => getMergedResults <= 0)
<1> DEFINE r == async["main"].result
           p == async["pre"].result
<1>1. r \in Failed .. MaxBlock /\ p \in Failed .. MaxBlock
  BY DEF IInv, Types, Checker, CheckerRecord
<1>2. reorgs = 0 => r <= 0 /\ p <= 0
  BY Zenon DEF IInv, Checker, CheckerQuiet
<1>3. r > 0 /\ p > 0 => Min({r, p}) \in {r, p}
  <2>1. SUFFICES ASSUME r > 0, p > 0
                 PROVE  Min({r, p}) \in {r, p}
    OBVIOUS
  <2>2. {r, p} \subseteq Nat /\ {r, p} # {}
    BY <1>1, <2>1, L1Assumption DEF Failed
  <2> QED
    BY Zenon, <2>2, MinFacts
<1>4. getMergedResults \in {r, p}
  BY Zenon, <1>3 DEF getMergedResults
<1> QED
  BY Zenon, <1>1, <1>2, <1>4

\* What the callers of checkReorg do with its result.
LEMMA DecideFacts ==
  ASSUME IInv, sync.pc = "wrap", NEW ok \in SUBSET Rows, NEW err \in BOOLEAN, Decide(ok, err),
         ok = {} /\ ~err => sync.ok = {} /\ ~sync.err
  PROVE  /\ sync' \in SyncRecord /\ SyncOK(stored, sync') /\ sync'.blocks \subseteq sync.blocks
         /\ reorgs = 0 /\ ok = {} /\ ~err => SyncQuiet(stored, sync')
<1>1. /\ sync \in SyncRecord /\ SyncOK(stored, sync) /\ Path(stored)
      /\ Rows = stored \cup {Genesis} /\ sync.last \in Rows /\ IsTop(stored, GetLastBlock)
  BY Zenon, SyncFacts
<1>2. CASE err
  <2> DEFINE l == IF sync.caller = "loop" THEN sync.last ELSE GetLastBlock
  <2>1. sync' = Loop(l)
    BY Zenon, <1>2 DEF Decide
  <2>2. IsTop(stored, l) /\ l \in stored \cup {Genesis}
    BY <1>1 DEF SyncOK, IsTop
  <2> HIDE DEF l
  <2>3. sync' \in SyncRecord /\ SyncOK(stored, sync') /\ sync'.blocks = {}
    BY Zenon, <1>1, <2>1, <2>2, LoopFacts
  <2> QED
    BY Zenon, <1>2, <2>3
<1>3. CASE ~err /\ ok # {}
  <2> DEFINE l == CHOOSE b \in ok : TRUE
  <2>1. sync' = [Loop(l) EXCEPT !.pc = "reset"]
    BY Zenon, <1>3 DEF Decide
  <2>2. l \in stored \cup {Genesis}
    BY Zenon, <1>1, <1>3
  <2> HIDE DEF l
  <2>3. sync' \in SyncRecord /\ SyncOK(stored, sync')
    BY Zenon, <1>1, <2>1, <2>2, LoopFacts
  <2>4. sync'.blocks = {}
    BY <2>1 DEF Loop, checkReorg
  <2> QED
    BY Zenon, <1>3, <2>3, <2>4
<1>4. CASE ~err /\ ok = {}
  <2> DEFINE pc == CASE sync.caller = "loop"  -> "header"
                     [] sync.caller = "fetch" -> "final"
                     [] sync.caller = "empty" -> "reset"
  <2>1. sync' = [sync EXCEPT !.pc = pc]
    BY Zenon, <1>4 DEF Decide
  <2>2. sync.caller \in {"loop", "empty", "fetch"}
    BY <1>1 DEF SyncRecord
  <2>3. /\ sync.caller = "loop" => pc = "header"
        /\ sync.caller = "fetch" => pc = "final"
        /\ sync.caller = "empty" => pc = "reset"
    OBVIOUS
  <2> HIDE DEF pc
  <2>4. pc \in {"header", "final", "reset"}
    BY Zenon, <2>2, <2>3
  <2>5. sync' \in SyncRecord
    BY Zenon, <1>1, <2>1, <2>4 DEF SyncRecord
  <2>6. /\ sync'.pc = pc /\ sync'.caller = sync.caller /\ sync'.last = sync.last
        /\ sync'.ok = sync.ok /\ sync'.err = sync.err /\ sync'.init = sync.init
        /\ sync'.to = sync.to /\ sync'.blocks = sync.blocks
    BY <1>1, <2>1 DEF SyncRecord
  <2>7. SyncOK(stored, sync')
    <3>1. CASE sync.caller = "loop"
      BY <1>1, <2>3, <2>6, <3>1 DEF SyncOK
    <3>2. CASE sync.caller = "fetch"
      BY <1>1, <1>4, <2>3, <2>6, <3>2 DEF SyncOK
    <3>3. CASE sync.caller = "empty"
      BY <1>1, <2>3, <2>6, <3>3 DEF SyncOK
    <3> QED
      BY Zenon, <2>2, <3>1, <3>2, <3>3
  <2>8. reorgs = 0 => SyncQuiet(stored, sync')
    BY <2>2, <2>3, <2>6 DEF IInv, SyncQuiet
  <2> QED
    BY Zenon, <2>5, <2>6, <2>7, <2>8
<1> QED
  BY Zenon, <1>2, <1>3, <1>4

\* CheckReorgWrapper when the background checker knows of a reorg.
LEMMA WrapReorgStep == IInv /\ WrapReorg => IInv'
<1> SUFFICES ASSUME IInv, WrapReorg
             PROVE  IInv'
  OBVIOUS
<1> DEFINE r == getMergedResults
           firstOk == GetPreviousBlockToBlockNumber(r)
<1>1. /\ sync.pc = "wrap" /\ r > 0
      /\ chain' = chain /\ finalized' = finalized /\ reorgs' = reorgs
      /\ stored' = stored /\ checked' = checked
      /\ async' = async /\ stopping' = stopping
      /\ Decide({firstOk}, FALSE) \/ Decide(sync.ok, sync.err)
      /\ Decide({firstOk}, FALSE) \/ ~(sync.err \/ sync.ok = {})
  BY Zenon DEF WrapReorg, dbVars, asyncVars
<1>2. /\ sync \in SyncRecord /\ SyncOK(stored, sync) /\ OneFork(Rows) /\ Rows \subseteq Block
      /\ Rows = stored \cup {Genesis} /\ checked \subseteq stored
  BY Zenon, SyncFacts
<1>3. r \in Failed .. MaxBlock /\ reorgs # 0
  BY <1>1, MergedFacts, L1Assumption DEF Failed
<1>4. firstOk \in Rows
  <2> DEFINE N == {k \in Numbers(Rows) : k < r}
  <2>1. Genesis \in Rows /\ Len(Genesis) = 0
    BY Zenon, <1>2, GenesisFacts
  <2>2. 0 \in Numbers(Rows)
    BY Zenon, <1>2, <2>1, NumbersFacts
  <2>3. 0 < r
    BY <1>1, <1>3
  <2>4. N \subseteq Numbers(Rows) /\ N # {}
    BY Zenon, <2>2, <2>3
  <2>5. Row(Rows, Max(N)) \in Rows
    <3> HIDE DEF N
    <3> QED
      BY Zenon, <1>2, <2>4, LastRowFacts
  <2> QED
    BY Zenon, <2>5 DEF GetPreviousBlockToBlockNumber
<1>5. sync' \in SyncRecord /\ SyncOK(stored, sync') /\ sync'.blocks \subseteq sync.blocks
  <2>1. CASE Decide({firstOk}, FALSE)
    <3>1. {firstOk} \in SUBSET Rows /\ FALSE \in BOOLEAN /\ {firstOk} # {}
      BY Zenon, <1>4
    <3> HIDE DEF firstOk
    <3> QED
      BY Zenon, <1>1, <2>1, <3>1, DecideFacts
  <2>2. CASE Decide(sync.ok, sync.err)
    <3>1. sync.ok \in SUBSET Rows /\ sync.err \in BOOLEAN
      BY <1>1, <1>2 DEF SyncOK, SyncRecord
    <3> QED
      BY Zenon, <1>1, <2>2, <3>1, DecideFacts
  <2> QED
    BY Zenon, <1>1, <2>1, <2>2
<1> QED
  BY Zenon, <1>1, <1>2, <1>3, <1>5, SyncStepKeeps

\* CheckReorgWrapper when it does not.
LEMMA WrapPassStep == IInv /\ WrapPass => IInv'
<1> SUFFICES ASSUME IInv, WrapPass
             PROVE  IInv'
  OBVIOUS
<1>1. /\ sync.pc = "wrap" /\ Decide(sync.ok, sync.err)
      /\ chain' = chain /\ finalized' = finalized /\ reorgs' = reorgs
      /\ stored' = stored /\ checked' = checked /\ stopping' = stopping
      /\ async' = async \/ launch
  BY Zenon DEF WrapPass, dbVars
<1>2. /\ sync \in SyncRecord /\ SyncOK(stored, sync)
      /\ Rows = stored \cup {Genesis} /\ checked \subseteq stored
  BY Zenon, SyncFacts
<1>3. sync.ok \in SUBSET Rows /\ sync.err \in BOOLEAN
  BY <1>1, <1>2 DEF SyncOK, SyncRecord
<1>4. reorgs = 0 => sync.ok = {} /\ ~sync.err
  BY Zenon DEF IInv, SyncQuiet
<1>5. /\ sync' \in SyncRecord /\ SyncOK(stored, sync') /\ sync'.blocks \subseteq sync.blocks
      /\ reorgs = 0 => SyncQuiet(stored, sync')
  BY Zenon, <1>1, <1>3, <1>4, DecideFacts
<1> QED
  BY Zenon, <1>1, <1>2, <1>5, SyncStepKeeps

\* resetState: the rows after the block are gone, which is the last one now.
LEMMA ResetStateStep == IInv /\ ResetState => IInv'
<1> SUFFICES ASSUME IInv, ResetState
             PROVE  IInv'
  OBVIOUS
<1> DEFINE last == sync.last
           T == {b \in stored : Len(b) <= Len(last)}
<1>1. /\ sync.pc = "reset" /\ stored' = T /\ checked' = checked \cap stored'
      /\ sync' = [sync EXCEPT !.pc = "relaunch"]
      /\ chain' = chain /\ finalized' = finalized /\ reorgs' = reorgs
      /\ async' = async /\ stopping' = stopping
  BY DEF ResetState, asyncVars
<1>2. /\ sync \in SyncRecord /\ SyncOK(stored, sync) /\ Path(stored)
      /\ last \in stored \cup {Genesis} /\ Len(last) \in 0 .. MaxBlock /\ MaxBlock \in Nat
  BY Zenon, SyncFacts
<1>3. Len(last) \in Nat /\ Len(last) <= Len(last)
  BY <1>2
<1>4. Path(T)
  <2> DEFINE n == Len(last)
  <2> HIDE DEF n
  <2>1. n \in Nat
    BY Zenon, <1>3 DEF n
  <2>2. Path({b \in stored : Len(b) <= n})
    BY Zenon, <1>2, <2>1, PathCut
  <2> QED
    BY Zenon, <2>2 DEF n
<1>5. last \in T \cup {Genesis} /\ IsTop(T, last)
  BY Zenon, <1>2, <1>3 DEF IsTop
<1>6. sync' \in SyncRecord
  BY Zenon, <1>1, <1>2 DEF SyncRecord
<1>7. /\ sync'.pc = "relaunch" /\ sync'.caller = sync.caller /\ sync'.last = last
      /\ sync'.init = sync.init /\ sync'.to = sync.to /\ sync'.blocks = sync.blocks
  BY <1>1, <1>2 DEF SyncRecord
<1>8. sync.caller # "fetch" /\ sync.blocks = {} /\ sync.init = {}
  BY <1>1, <1>2 DEF SyncOK
<1>9. SyncOK(T, sync')
  <2> HIDE DEF T
  <2> QED
    BY <1>4, <1>5, <1>7, <1>8 DEF SyncOK
<1>10. reorgs # 0
  BY Zenon, <1>1 DEF IInv, SyncQuiet
<1>11. T \subseteq stored
  OBVIOUS
<1> HIDE DEF T
<1>12. \A r \in stored' \cup sync'.blocks : r \in stored \cup sync.blocks
  BY Zenon, <1>1, <1>7, <1>8, <1>11
<1>13. checked' \subseteq stored'
  BY Zenon, <1>1
<1> QED
  BY Zenon, <1>1, <1>6, <1>9, <1>10, <1>12, <1>13, SyncStepKeeps

\* OnResetState: the checkers are launched and Sync goes on from the last row.
LEMMA OnResetStateStep == IInv /\ OnResetState => IInv'
<1> SUFFICES ASSUME IInv, OnResetState
             PROVE  IInv'
  OBVIOUS
<1>1. /\ sync.pc = "relaunch" /\ launch /\ sync' = Loop(sync.last)
      /\ chain' = chain /\ finalized' = finalized /\ reorgs' = reorgs
      /\ stored' = stored /\ checked' = checked /\ stopping' = stopping
  BY Zenon DEF OnResetState, dbVars
<1>2. /\ SyncOK(stored, sync) /\ Path(stored) /\ checked \subseteq stored
      /\ sync.last \in stored \cup {Genesis}
  BY Zenon, SyncFacts
<1>3. IsTop(stored, sync.last)
  BY Zenon, <1>1, <1>2 DEF SyncOK
<1>4. sync' \in SyncRecord /\ SyncOK(stored, sync') /\ sync'.blocks = {}
  BY Zenon, <1>1, <1>2, <1>3, LoopFacts
<1>5. reorgs # 0
  BY Zenon, <1>1 DEF IInv, SyncQuiet
<1> QED
  BY Zenon, <1>1, <1>2, <1>4, <1>5, SyncStepKeeps

\* The range from the last row up to a known block.
LEMMA ToFetchFacts ==
  ASSUME IInv, IsTop(stored, sync.last), NEW from, NEW to \in Nat, NEW known \in 0 .. MaxBlock,
         Len(sync.last) <= to, Len(sync.last) <= known
  PROVE  LET s == ToFetch(from, to, known)
         IN  /\ s \in SyncRecord /\ SyncOK(stored, s) /\ s.blocks = {}
             /\ SyncQuiet(stored, sync) => SyncQuiet(stored, s)
<1> DEFINE last == sync.last
           m == Min({to, known})
           s == ToFetch(from, to, known)
<1>1. /\ Path(stored) /\ last \in stored \cup {Genesis} /\ last \in Block
      /\ MaxBlock \in Nat /\ Len(last) \in 0 .. MaxBlock
  BY Zenon, SyncFacts
<1>2. m \in 0 .. MaxBlock /\ Len(last) <= m
  <2>1. {to, known} \subseteq Nat /\ {to, known} # {}
    BY <1>1
  <2>2. m \in {to, known} /\ m <= known
    BY Zenon, <2>1, MinFacts
  <2> QED
    BY <1>1, <2>2
<1> HIDE DEF m
<1>3. s = [Loop(last) EXCEPT !.pc = "fetch", !.known = known, !.to = m]
  BY DEF ToFetch, m
<1> HIDE DEF s
<1>4. Loop(last) \in SyncRecord
  BY Zenon, <1>1, LoopFacts
<1>5. s \in SyncRecord
  BY Zenon, <1>2, <1>3, <1>4 DEF SyncRecord
<1>6. /\ s.pc = "fetch" /\ s.caller = "loop" /\ s.last = last /\ s.to = m
      /\ s.init = {} /\ s.blocks = {} /\ s.ok = {} /\ s.err = FALSE
  BY <1>3 DEF Loop, checkReorg
<1>7. SyncOK(stored, s)
  BY <1>1, <1>2, <1>6 DEF SyncOK
<1>8. SyncQuiet(stored, sync) => SyncQuiet(stored, s)
  BY Zenon, <1>6 DEF SyncQuiet
<1> QED
  BY Zenon, <1>5, <1>6, <1>7, <1>8 DEF s

\* syncBlocksSequential: the last known block of L1 is read.
LEMMA HeaderStep == IInv /\ Header => IInv'
<1> SUFFICES ASSUME IInv, Header
             PROVE  IInv'
  OBVIOUS
<1> DEFINE from == Len(sync.last)
<1>1. /\ sync.pc = "header"
      /\ chain' = chain /\ finalized' = finalized /\ reorgs' = reorgs
      /\ stored' = stored /\ checked' = checked
      /\ async' = async /\ stopping' = stopping
  BY DEF Header, dbVars, asyncVars
<1>2. PICK known \in finalized .. Len(chain) :
             sync' = IF from > Min({from + SyncChunkSize, known})
                     THEN Loop(sync.last)
                     ELSE ToFetch(from, from + SyncChunkSize, known)
  BY Zenon DEF Header
<1>3. /\ SyncOK(stored, sync) /\ Path(stored) /\ checked \subseteq stored /\ chain \in Block
      /\ sync.last \in stored \cup {Genesis} /\ from \in 0 .. MaxBlock /\ MaxBlock \in Nat
  BY Zenon, SyncFacts
<1>4. IsTop(stored, sync.last)
  BY <1>1, <1>3 DEF SyncOK
<1>5. finalized \in Nat /\ Len(chain) \in 0 .. MaxBlock
  BY <1>3, BlockFacts DEF IInv, Types
<1>6. known \in 0 .. MaxBlock /\ from + SyncChunkSize \in Nat /\ from <= from + SyncChunkSize
  BY <1>3, <1>5, SyncAssumption
<1>7. /\ sync' \in SyncRecord /\ SyncOK(stored, sync') /\ sync'.blocks = {}
      /\ SyncQuiet(stored, sync) => SyncQuiet(stored, sync')
  <2>1. CASE from > Min({from + SyncChunkSize, known})
    <3>1. sync' = Loop(sync.last)
      BY Zenon, <1>2, <2>1
    <3>2. SyncQuiet(stored, sync) => \A b \in stored : IsAncestor(b, chain)
      BY Zenon DEF SyncQuiet
    <3> QED
      BY Zenon, <1>3, <1>4, <3>1, <3>2, LoopFacts
  <2>2. CASE ~(from > Min({from + SyncChunkSize, known}))
    <3> DEFINE to == from + SyncChunkSize
    <3>1. sync' = ToFetch(from, to, known)
      BY Zenon, <1>2, <2>2
    <3>2. {to, known} \subseteq Nat /\ {to, known} # {} /\ MaxBlock \in Nat
      BY <1>3, <1>6
    <3> HIDE DEF to
    <3>3. Min({to, known}) \in {to, known} /\ Min({to, known}) <= known
      BY Zenon, <3>2, MinFacts
    <3>4. Min({to, known}) \in Nat /\ ~(from > Min({to, known}))
      BY Zenon, <2>2, <3>2, <3>3 DEF to
    <3>5. from <= known
      BY <1>3, <1>6, <3>3, <3>4
    <3>6. to \in Nat /\ from <= to
      BY Zenon, <1>6 DEF to
    <3> QED
      BY Zenon, <1>4, <1>6, <3>1, <3>5, <3>6, ToFetchFacts
  <2> QED
    BY Zenon, <2>1, <2>2
<1>8. reorgs = 0 => SyncQuiet(stored, sync')
  BY Zenon, <1>7 DEF IInv
<1> QED
  BY Zenon, <1>1, <1>3, <1>7, <1>8, SyncStepKeeps

\* syncBlocksSequential: the answer to the range.
LEMMA FetchStep == IInv /\ Fetch => IInv'
<1> SUFFICES ASSUME IInv, Fetch
             PROVE  IInv'
  OBVIOUS
<1> DEFINE last == sync.last
           to == sync.to
           B == GetRollupInfoByBlockRange(Len(last), to)
           f == First(B)
           s == checkReorg(last, {f}, "fetch")
<1>1. /\ sync.pc = "fetch"
      /\ sync' = IF B = {} THEN checkReorg(GetPreviousBlock(1), {}, "empty")
                 ELSE [s EXCEPT !.known = sync.known, !.to = to, !.blocks = B \ {f}]
      /\ chain' = chain /\ finalized' = finalized /\ reorgs' = reorgs
      /\ stored' = stored /\ checked' = checked
      /\ async' = async /\ stopping' = stopping
  BY Zenon DEF Fetch, dbVars, asyncVars
<1>2. /\ chain \in Block /\ sync \in SyncRecord /\ SyncOK(stored, sync)
      /\ checked \subseteq stored /\ Path(stored) /\ OneFork(stored) /\ OneFork(Rows)
      /\ Rows = stored \cup {Genesis} /\ Rows \subseteq Block
      /\ last \in Rows /\ last \in Block /\ MaxBlock \in Nat /\ Len(last) \in 0 .. MaxBlock
  BY Zenon, SyncFacts
<1>3. /\ IsTop(stored, last) /\ Len(last) <= to /\ to \in 0 .. MaxBlock
      /\ sync.known \in 0 .. MaxBlock
  BY <1>1, <1>2 DEF SyncOK, SyncRecord
<1>4. to \in Nat
  BY <1>2, <1>3
<1>5. /\ last = Genesis => B # {}
      /\ B # {} =>
           /\ f \in Block /\ (last = Genesis => f = Genesis)
           /\ f = last => Extends(B \ {f}, last)
           /\ \A b \in B \ {f} : /\ b \in Block /\ IsAncestor(b, chain)
                                 /\ Len(last) < Len(b) /\ Len(b) <= to
      /\ IsAncestor(last, chain) /\ HasEvents(last) /\ Len(last) <= to => B # {} /\ f = last
  BY Zenon, <1>2, <1>4, RangeFacts
<1>6. reorgs = 0 => B # {} /\ f = last /\ \A b \in stored : IsAncestor(b, chain)
  <2>1. SUFFICES ASSUME SyncQuiet(stored, sync)
                 PROVE  IsAncestor(last, chain) /\ HasEvents(last)
    BY Zenon, <1>3, <1>5 DEF IInv, SyncQuiet
  <2>2. CASE last \in stored
    BY Zenon, <1>2, <2>1, <2>2 DEF SyncQuiet, Path
  <2>3. CASE last = Genesis
    BY Zenon, <1>2, <2>3, GenesisAncestor, GenesisFacts
  <2> QED
    BY Zenon, <1>2, <2>2, <2>3
<1> HIDE DEF B
<1>7. Cardinality(Rows) \in Nat /\ \A b \in Rows : Rank(Rows, b) \in 0 .. Cardinality(Rows) - 1
  BY Zenon, <1>2, RankFacts, OneForkFinite, FS_CardinalityType
<1>8. {} \in SUBSET Block /\ 0 \in 0 .. MaxBlock
  BY <1>2
<1>9. CASE B = {}
  <2> DEFINE p == GetPreviousBlock(1)
  <2>1. last # Genesis /\ Genesis \in Rows
    BY Zenon, <1>2, <1>5, <1>9
  <2>2. Len(Genesis) = 0 /\ Len(last) # 0
    BY Zenon, <1>2, <2>1, GenesisFacts
  <2>3. Len(Genesis) < Len(last)
    BY <1>2, <2>2
  <2>4. Rank(Rows, Genesis) < Rank(Rows, last)
    BY Zenon, <1>2, <2>1, <2>3, RankFacts
  <2>5. 1 \in 1 .. Cardinality(Rows) - 1
    <3>1. /\ Rank(Rows, Genesis) \in 0 .. Cardinality(Rows) - 1
          /\ Rank(Rows, last) \in 0 .. Cardinality(Rows) - 1
      BY Zenon, <1>2, <1>7, <2>1
    <3> QED
      BY <1>7, <2>4, <3>1
  <2>6. p \in Rows /\ Rank(Rows, p) = Cardinality(Rows) - 1 - 1
    BY Zenon, <1>2, <2>5, PreviousFacts
  <2>7. sync' = checkReorg(p, {}, "empty")
    BY Zenon, <1>1, <1>9
  <2> HIDE DEF p
  <2>8. 0 + Rank(Rows, p) < Cardinality(Rows) /\ p \in Block
    BY <1>2, <1>7, <2>6
  <2>9. sync' \in SyncRecord
    BY <1>8, <2>7, <2>8 DEF checkReorg, SyncRecord
  <2>10. /\ sync'.pc = "walk" /\ sync'.caller = "empty" /\ sync'.last = p /\ sync'.at = p
         /\ sync'.depth = 0 /\ sync'.init = {} /\ sync'.blocks = {}
    BY <2>7 DEF checkReorg
  <2>11. SyncOK(stored, sync')
    <3>1. sync'.caller # "fetch"
      BY <2>10
    <3> QED
      BY Zenon, <1>2, <2>6, <2>8, <2>10, <3>1, WalkOK
  <2> QED
    BY Zenon, <1>1, <1>2, <1>6, <1>9, <2>9, <2>10, <2>11, SyncStepKeeps
<1>10. CASE B # {}
  <2>1. sync' = [s EXCEPT !.known = sync.known, !.to = to, !.blocks = B \ {f}]
    BY Zenon, <1>1, <1>10
  <2>2. /\ f \in Block /\ (last = Genesis => f = Genesis)
        /\ f = last => Extends(B \ {f}, last)
        /\ \A b \in B \ {f} : /\ b \in Block /\ IsAncestor(b, chain)
                              /\ Len(last) < Len(b) /\ Len(b) <= to
    BY Zenon, <1>5, <1>10
  <2> HIDE DEF f, to, last
  <2>3. s \in SyncRecord
    BY <1>2, <1>8, <2>2 DEF checkReorg, SyncRecord
  <2>4. B \ {f} \in SUBSET Block
    BY Zenon, <2>2
  <2>5. sync' \in SyncRecord
    <3> HIDE DEF s
    <3> QED
      BY Zenon, <1>3, <2>1, <2>3, <2>4 DEF SyncRecord
  <2>6. /\ sync'.pc = "walk" /\ sync'.caller = "fetch" /\ sync'.last = last /\ sync'.at = last
        /\ sync'.depth = 0 /\ sync'.init = {f} /\ sync'.blocks = B \ {f} /\ sync'.to = to
        /\ sync'.ok = {} /\ sync'.err = FALSE
    BY <2>1 DEF checkReorg
  <2>7. 0 + Rank(Rows, last) < Cardinality(Rows)
    <3>1. Rank(Rows, last) \in 0 .. Cardinality(Rows) - 1
      BY Zenon, <1>2, <1>7
    <3> QED
      BY <1>7, <3>1
  <2>8. SyncOK(stored, sync')
    BY Zenon, <1>2, <1>3, <2>2, <2>6, <2>7, WalkOK
  <2>9. reorgs = 0 => SyncQuiet(stored, sync')
    BY <1>6, <2>2, <2>6 DEF SyncQuiet
  <2> QED
    BY Zenon, <1>1, <1>2, <2>2, <2>5, <2>6, <2>8, <2>9, SyncStepKeeps
<1> QED
  BY Zenon, <1>9, <1>10

\* ProcessBlockRange: the finalized block is read.
LEMMA GetFinalizedStep == IInv /\ GetFinalized => IInv'
<1> SUFFICES ASSUME IInv, GetFinalized
             PROVE  IInv'
  OBVIOUS
<1>1. /\ sync.pc = "final" /\ sync' = [sync EXCEPT !.pc = "store", !.fin = finalized]
      /\ chain' = chain /\ finalized' = finalized /\ reorgs' = reorgs
      /\ stored' = stored /\ checked' = checked
      /\ async' = async /\ stopping' = stopping
  BY DEF GetFinalized, dbVars, asyncVars
<1>2. /\ sync \in SyncRecord /\ SyncOK(stored, sync) /\ checked \subseteq stored
      /\ chain \in Block
  BY Zenon, SyncFacts
<1>3. finalized \in 0 .. MaxBlock
  BY <1>2, BlockFacts, L1Assumption DEF IInv, Types
<1>4. sync' \in SyncRecord
  BY Zenon, <1>1, <1>2, <1>3 DEF SyncRecord
<1>5. /\ sync'.pc = "store" /\ sync'.caller = sync.caller /\ sync'.last = sync.last
      /\ sync'.init = sync.init /\ sync'.to = sync.to /\ sync'.blocks = sync.blocks
      /\ sync'.ok = sync.ok /\ sync'.err = sync.err
  BY <1>1, <1>2 DEF SyncRecord
<1>6. SyncOK(stored, sync')
  BY <1>1, <1>2, <1>5 DEF SyncOK
<1>7. reorgs = 0 => SyncQuiet(stored, sync')
  BY <1>1, <1>5 DEF IInv, SyncQuiet
<1> QED
  BY Zenon, <1>1, <1>2, <1>4, <1>5, <1>6, <1>7, SyncStepKeeps

\* ProcessBlockRange stores the next block of the fork.
LEMMA StoreBlockFacts ==
  ASSUME IInv, StoreBlock
  PROVE  LET b == First(sync.blocks)
         IN  /\ b \in sync.blocks /\ stored' = stored \cup {b}
             /\ Path(stored \cup {b}) /\ IsTop(stored \cup {b}, b)
             /\ Extends(sync.blocks \ {b}, b) /\ \A c \in sync.blocks \ {b} : Len(b) < Len(c)
             /\ IsTop(stored, sync.last) /\ Len(sync.last) < Len(b) /\ IsAncestor(sync.last, b)
             /\ \A n \in Len(sync.last) + 1 .. Len(b) - 1 : ~b[n].ev
<1>1. /\ sync.pc = "store" /\ sync.blocks # {}
      /\ stored' = stored \cup {First(sync.blocks)}
  BY Zenon DEF StoreBlock
<1>2. SyncOK(stored, sync)
  BY Zenon, SyncFacts
<1>3. sync.caller = "fetch" /\ Path(stored) /\ Extends(sync.blocks, sync.last)
  BY <1>1, <1>2 DEF SyncOK
<1>4. IsTop(stored, sync.last) /\ \A c \in sync.blocks : Len(sync.last) < Len(c)
  BY <1>1, <1>2, <1>3 DEF SyncOK
<1> DEFINE B == sync.blocks
           last == sync.last
           b == First(B)
<1>5. /\ B # {} /\ Path(stored) /\ IsTop(stored, last) /\ Extends(B, last)
      /\ \A c \in B : Len(last) < Len(c)
  BY Zenon, <1>1, <1>3, <1>4
<1> HIDE DEF B, last
<1>6. /\ b \in B /\ Path(stored \cup {b}) /\ IsTop(stored \cup {b}, b)
      /\ Extends(B \ {b}, b) /\ \A c \in B \ {b} : Len(b) < Len(c)
      /\ Len(last) < Len(b) /\ IsAncestor(last, b)
      /\ \A n \in Len(last) + 1 .. Len(b) - 1 : ~b[n].ev
  BY Zenon, <1>5, StoreFacts
<1> QED
  BY Zenon, <1>1, <1>5, <1>6 DEF B, last

\* The transaction of one block is committed: the row continues the path.
LEMMA StoreBlockStep == IInv /\ StoreBlock => IInv'
<1> SUFFICES ASSUME IInv, StoreBlock
             PROVE  IInv'
  OBVIOUS
<1> DEFINE b == First(sync.blocks)
           S == stored \cup {b}
           B == sync.blocks \ {b}
<1>1. /\ sync.pc = "store" /\ stored' = S /\ checked' \subseteq checked \cup {b}
      /\ sync' = [sync EXCEPT !.blocks = B, !.last = b]
      /\ chain' = chain /\ finalized' = finalized /\ reorgs' = reorgs
      /\ async' = async /\ stopping' = stopping
  <2>1. checked' = checked \cup {b} \/ checked' = checked
    BY Zenon DEF StoreBlock
  <2> QED
    BY Zenon, <2>1 DEF StoreBlock, asyncVars
<1>2. /\ b \in sync.blocks /\ Path(S) /\ IsTop(S, b) /\ Extends(B, b)
      /\ \A c \in B : Len(b) < Len(c)
  BY Zenon, StoreBlockFacts
<1>3. /\ sync \in SyncRecord /\ SyncOK(stored, sync) /\ checked \subseteq stored
  BY Zenon, SyncFacts
<1>4. /\ sync.caller = "fetch" /\ sync.blocks \subseteq Block
      /\ \A c \in sync.blocks : Len(c) <= sync.to
  BY <1>1, <1>3 DEF SyncOK, SyncRecord
<1> HIDE DEF b
<1>5. sync' \in SyncRecord
  <2>1. b \in Block /\ B \in SUBSET Block
    BY Zenon, <1>2, <1>4
  <2> HIDE DEF B
  <2> QED
    BY Zenon, <1>1, <1>3, <2>1 DEF SyncRecord
<1>6. /\ sync'.pc = "store" /\ sync'.caller = "fetch" /\ sync'.last = b
      /\ sync'.init = sync.init /\ sync'.to = sync.to /\ sync'.blocks = B
      /\ sync'.ok = sync.ok /\ sync'.err = sync.err
  <2> HIDE DEF B
  <2> QED
    BY <1>1, <1>3, <1>4 DEF SyncRecord
<1>7. /\ b \in S \cup {Genesis} /\ Len(b) <= sync.to
      /\ \A c \in B : Len(b) < Len(c) /\ Len(c) <= sync.to
  BY Zenon, <1>2, <1>4
<1>8. S \cup B \subseteq stored \cup sync.blocks
  BY Zenon, <1>2
<1>9. checked' \subseteq S
  BY Zenon, <1>1, <1>3
<1> HIDE DEF S, B
<1>10. SyncOK(S, sync')
  BY <1>2, <1>6, <1>7 DEF SyncOK
<1>11. reorgs = 0 => SyncQuiet(S, sync')
  <2>1. SUFFICES ASSUME SyncQuiet(stored, sync)
                 PROVE  SyncQuiet(S, sync')
    BY Zenon DEF IInv
  <2>2. \A r \in S \cup B : IsAncestor(r, chain)
    BY Zenon, <1>8, <2>1 DEF SyncQuiet
  <2> QED
    BY <1>6, <2>1, <2>2 DEF SyncQuiet
<1>12. \A r \in S \cup B : r \in stored \cup sync.blocks
  BY Zenon, <1>8
<1> QED
  BY Zenon, <1>1, <1>5, <1>6, <1>9, <1>10, <1>11, <1>12, SyncStepKeeps

\* The transaction of a block fails.
LEMMA StoreFailsStep == IInv /\ StoreFails => IInv'
<1> SUFFICES ASSUME IInv, StoreFails
             PROVE  IInv'
  OBVIOUS
<1>1. /\ sync' = Loop(GetLastBlock)
      /\ chain' = chain /\ finalized' = finalized /\ reorgs' = reorgs
      /\ stored' = stored /\ checked' = checked
      /\ async' = async /\ stopping' = stopping
  BY DEF StoreFails, dbVars, asyncVars
<1>2. checked \subseteq stored /\ Path(stored) /\ IsTop(stored, GetLastBlock)
  BY Zenon, SyncFacts
<1>3. GetLastBlock \in stored \cup {Genesis}
  BY Zenon, <1>2 DEF IsTop
<1>4. reorgs = 0 => \A r \in stored : IsAncestor(r, chain)
  BY Zenon DEF IInv, SyncQuiet
<1>5. /\ sync' \in SyncRecord /\ SyncOK(stored, sync') /\ sync'.blocks = {}
      /\ reorgs = 0 => SyncQuiet(stored, sync')
  BY Zenon, <1>1, <1>2, <1>3, <1>4, LoopFacts
<1> QED
  BY Zenon, <1>1, <1>2, <1>5, SyncStepKeeps

\* All blocks of a range are stored.
LEMMA RangeDoneStep == IInv /\ RangeDone => IInv'
<1> SUFFICES ASSUME IInv, RangeDone
             PROVE  IInv'
  OBVIOUS
<1> DEFINE last == sync.last
           to == sync.to + SyncChunkSize
<1>1. /\ sync.pc = "store"
      /\ sync' = IF sync.known <= sync.to THEN Loop(last)
                 ELSE ToFetch(Len(last), to, sync.known)
      /\ chain' = chain /\ finalized' = finalized /\ reorgs' = reorgs
      /\ stored' = stored /\ checked' = checked
      /\ async' = async /\ stopping' = stopping
  BY Zenon DEF RangeDone, dbVars, asyncVars
<1>2. /\ sync \in SyncRecord /\ SyncOK(stored, sync) /\ Path(stored) /\ checked \subseteq stored
      /\ last \in stored \cup {Genesis} /\ Len(last) \in 0 .. MaxBlock /\ MaxBlock \in Nat
  BY Zenon, SyncFacts
<1>3. /\ IsTop(stored, last) /\ Len(last) <= sync.to
      /\ sync.to \in 0 .. MaxBlock /\ sync.known \in 0 .. MaxBlock
  BY <1>1, <1>2 DEF SyncOK, SyncRecord
<1>4. reorgs = 0 => \A r \in stored : IsAncestor(r, chain)
  BY Zenon DEF IInv, SyncQuiet
<1>5. /\ sync' \in SyncRecord /\ SyncOK(stored, sync') /\ sync'.blocks = {}
      /\ reorgs = 0 => SyncQuiet(stored, sync')
  <2>1. CASE sync.known <= sync.to
    BY Zenon, <1>1, <1>2, <1>3, <1>4, <2>1, LoopFacts
  <2>2. CASE ~(sync.known <= sync.to)
    <3>1. to \in Nat /\ Len(last) <= to /\ Len(last) <= sync.known
      BY <1>2, <1>3, <2>2, SyncAssumption
    <3>2. sync' = ToFetch(Len(last), to, sync.known)
      BY Zenon, <1>1, <2>2
    <3> HIDE DEF to
    <3> QED
      BY Zenon, <1>3, <3>1, <3>2, ToFetchFacts DEF IInv
  <2> QED
    BY Zenon, <2>1, <2>2
<1> QED
  BY Zenon, <1>1, <1>2, <1>5, SyncStepKeeps
=============================================================================
