-------------------------- MODULE Aggregator_proofs --------------------------
(***************************************************************************)
(* The rows of state.proof never overlap, for any number of provers,       *)
(* batches, errors and restarts, and only proofs the contract accepts are  *)
(* sent, as long as no row is deleted under its holder.                    *)
(***************************************************************************)
EXTENDS Aggregator, TLAPS

\* A leaf may take the SMT solver up to 30 seconds, twice.
USE SMTT(30), Z3T(30)

\* The proofs that the goroutine of a prover has in hand.
Claimed(g) ==
  CASE g.pc = "aggregating" -> {g.range, g.second}
    [] g.pc \in {"build", "release", "proving"} -> {g.range}
    [] g.pc \in {"loop", "sync", "lock"} /\ g.own -> {g.range}
    [] OTHER -> {}

claims == [p \in Prover |-> Claimed(prover[p])]

\* The one that sendFinalProof has in hand.  At the start of the process it has
\* a tx, not a proof.
sent == IF sender.pc # "idle" /\ ~sender.boot THEN {sender.range} ELSE {}

Goroutine == [pc : ProverPC, last : 0 .. NBatch, own : BOOLEAN,
              range : Range2 \cup {NoRange}, second : Range2 \cup {NoRange}]

GoroutineOK(g, v) == /\ Claimed(g) \subseteq Range2
                     /\ g.pc = "aggregating" => g.range[2] = g.second[1] - 1
                     /\ g.last <= v

\* Control states of the provers and of sendFinalProof.
Control ==
  /\ \A p \in Prover : /\ GoroutineOK(prover[p], verified)
                       /\ sender.boot => prover[p].pc = "off"
  /\ sender.pc # "idle" => sender.range \in Range2
  /\ sender.pc \in {"idle", "settle"} => ~sender.boot
  /\ sender.boot => events["restart"] > 0

Exists(R, r) == R[r] # "none"
NoOverlap(R) == \A r, s \in Range2 : r # s /\ Exists(R, r) /\ Exists(R, s) => ~Overlap(r, s)

\* Whoever has proofs X in hand has their rows locked, and no other row has one
\* of their batches; a row that is gone is of verified batches.
Owns(R, X, v) ==
  \A x \in X : /\ Exists(R, x) \/ x[2] <= v
               /\ R[x] # "ready"
               /\ \A y \in Range2 : Exists(R, y) /\ Overlap(x, y) => y = x

Apart(X, Y) == \A x \in X, y \in Y : ~Overlap(x, y)

Good(R, C, S, v) ==
  /\ NoOverlap(R)
  /\ Owns(R, S, v)
  /\ \A p \in Prover : Owns(R, C[p], v) /\ Apart(C[p], S)
  /\ \A p, q \in Prover : p # q => Apart(C[p], C[q])

\* Without errors somebody has every locked row in hand.
LockedIsHeld ==
  (\A e \in Event : events[e] = 0) =>
     \A x \in Locked : x \in sent \/ \E p \in Prover : x \in claims[p]

IInv == /\ TypeOK
        /\ Control
        /\ events["cleanup"] = 0 => Good(rows, claims, sent, verified)
        /\ LockedIsHeld

-----------------------------------------------------------------------------
(* Ranges and claims                                                       *)

\* A range is a pair of batch numbers in order.
LEMMA RangeFacts ==
  \A r \in Range2 : r[1] \in Int /\ r[2] \in Int /\ r[1] <= r[2] /\ r = <<r[1], r[2]>>
BY AggregatorAssumption DEF Range2, Batch

\* Rows deleted or changed, and claims given up, where no claim that stays is
\* concerned: errors, releases, deletions and cleanups.
LEMMA GoodShrinks ==
  ASSUME NEW R, NEW R2, NEW C, NEW C2, NEW S, NEW S2, NEW v \in Int, NEW v2 \in Int,
         Good(R, C, S, v), v <= v2, S \subseteq Range2, S2 \subseteq S,
         \A p \in Prover : C[p] \subseteq Range2 /\ C2[p] \subseteq C[p],
         \A x \in Range2 : \/ R2[x] = R[x]
                           \/ R2[x] = "none"
                           \/ Exists(R, x) /\ x \notin S2 /\ \A p \in Prover : x \notin C2[p],
         \A x \in S2 : Exists(R, x) => Exists(R2, x) \/ x[2] <= v2,
         \A p \in Prover : \A x \in C2[p] : Exists(R, x) => Exists(R2, x) \/ x[2] <= v2
  PROVE  Good(R2, C2, S2, v2)
<1> USE RangeFacts
<1>1. \A x \in Range2 : Exists(R2, x) => Exists(R, x)
  BY Zenon DEF Exists
<1>2. NoOverlap(R2)
  BY Zenon, <1>1 DEF Good, NoOverlap
<1>3. Owns(R2, S2, v2)
  BY <1>1 DEF Good, Owns, Exists
<1>4. \A p \in Prover : Owns(R2, C2[p], v2)
  BY <1>1 DEF Good, Owns, Exists
<1>5. \A p \in Prover : Apart(C2[p], S2)
  BY Zenon DEF Good, Apart
<1>6. \A p, q \in Prover : p # q => Apart(C2[p], C2[q])
  BY Zenon DEF Good, Apart
<1> QED
  BY Zenon, <1>2, <1>3, <1>4, <1>5, <1>6 DEF Good

\* A free row is locked by a prover that had nothing in hand, or two are.
LEMMA GoodTakes ==
  ASSUME NEW R, NEW R2, NEW C, NEW C2, NEW S, NEW v \in Int, NEW p \in Prover, NEW X,
         Good(R, C, S, v), S \subseteq Range2,
         \A q \in Prover : C[q] \subseteq Range2,
         X \subseteq Range2, \A x \in X : R[x] = "ready" /\ R2[x] = "locked",
         \A x \in Range2 \ X : R2[x] = R[x],
         C2[p] = X, \A q \in Prover : q # p => C2[q] = C[q]
  PROVE  Good(R2, C2, S, v)
<1> USE RangeFacts
<1>1. \A x \in Range2 : Exists(R2, x) <=> Exists(R, x)
  BY Zenon DEF Exists
<1>2. NoOverlap(R2)
  BY Zenon, <1>1 DEF Good, NoOverlap
<1>3. \A x \in X : Exists(R, x)
  BY Zenon DEF Exists
<1>4. Apart(X, S)
  BY <1>3 DEF Good, Owns, Apart, Overlap
<1>5. \A q \in Prover : q # p => Apart(X, C[q]) /\ Apart(C[q], X)
  BY <1>3 DEF Good, Owns, Apart, Overlap
<1>6. Owns(R2, X, v)
  BY Zenon, <1>1, <1>3 DEF Good, NoOverlap, Owns, Overlap
<1>7. X \cap S = {} /\ \A q \in Prover : q # p => X \cap C[q] = {}
  BY Zenon, <1>4, <1>5 DEF Apart, Overlap
<1>8. Owns(R2, S, v)
  BY <1>1, <1>7 DEF Good, Owns
<1>9. \A q \in Prover : Owns(R2, C2[q], v)
  BY <1>1, <1>6, <1>7 DEF Good, Owns
<1> QED
  BY Zenon, <1>2, <1>4, <1>5, <1>8, <1>9 DEF Good

\* The row of a batch that no row covers and that is not verified is added.
LEMMA GoodAdds ==
  ASSUME NEW R, NEW R2, NEW C, NEW C2, NEW S, NEW v \in Int, NEW p \in Prover,
         NEW r \in Range2, NEW n \in Int,
         Good(R, C, S, v), S \subseteq Range2,
         \A q \in Prover : C[q] \subseteq Range2,
         r[1] = n, r[2] = n,
         v < n, \A x \in Range2 : Exists(R, x) => ~Covers(x, n),
         R2[r] = "generating",
         \A x \in Range2 : x # r => R2[x] = R[x],
         C2[p] = {r}, \A q \in Prover : q # p => C2[q] = C[q]
  PROVE  Good(R2, C2, S, v)
<1> USE RangeFacts
<1>1. \A x \in Range2 : Exists(R, x) => ~Overlap(x, r) /\ ~Overlap(r, x)
  BY Zenon DEF Overlap, Covers
<1>2. \A x \in Range2 : Exists(R, x) \/ x[2] <= v => ~Overlap(x, r) /\ ~Overlap(r, x) /\ x # r
  BY <1>1 DEF Overlap
<1>3. \A x \in S : Exists(R, x) \/ x[2] <= v
  BY Zenon DEF Good, Owns
<1>4. \A q \in Prover : \A x \in C[q] : Exists(R, x) \/ x[2] <= v
  BY Zenon DEF Good, Owns
<1>5. NoOverlap(R2)
  BY <1>1 DEF Good, NoOverlap, Exists
<1>6. Owns(R2, S, v)
  BY <1>2, <1>3 DEF Good, Owns, Exists
<1>7. \A q \in Prover : q # p => Owns(R2, C[q], v)
  BY <1>2, <1>4 DEF Good, Owns, Exists
<1>8. Owns(R2, {r}, v)
  BY Zenon, <1>1 DEF Owns, Exists
<1>9. Apart({r}, S) /\ \A q \in Prover : q # p => Apart({r}, C[q]) /\ Apart(C[q], {r})
  BY <1>2, <1>3, <1>4 DEF Apart
<1>10. \A q \in Prover : Owns(R2, C2[q], v) /\ Apart(C2[q], S)
  BY Zenon, <1>7, <1>8, <1>9 DEF Good
<1>11. \A q, k \in Prover : q # k => Apart(C2[q], C2[k])
  BY ZenonT(60), <1>9 DEF Good
<1> QED
  BY Zenon, <1>5, <1>6, <1>10, <1>11 DEF Good

RowsJoined(R, R2, r, s, u) ==
  /\ R2[u] = "locked"
  /\ \A x \in Range2 : x # u => R2[x] = IF Within(x, r[1], s[2]) THEN "none" ELSE R[x]

ClaimsJoined(C, C2, p, r, s, u) ==
  C[p] = {r, s} /\ C2[p] = {u} /\ \A q \in Prover : q # p => C2[q] = C[q]

\* The rows of two neighbours in hand become the row of their union.
LEMMA GoodJoins ==
  ASSUME NEW R, NEW R2, NEW C, NEW C2, NEW S, NEW v \in Int, NEW p \in Prover,
         NEW r \in Range2, NEW s \in Range2, NEW u \in Range2,
         Good(R, C, S, v), S \subseteq Range2,
         \A q \in Prover : C[q] \subseteq Range2,
         r[2] = s[1] - 1, u[1] = r[1], u[2] = s[2],
         RowsJoined(R, R2, r, s, u), ClaimsJoined(C, C2, p, r, s, u)
  PROVE  Good(R2, C2, S, v)
<1> USE RangeFacts DEF RowsJoined, ClaimsJoined
<1>1. \A x \in Range2 : Overlap(x, u) => Overlap(x, r) \/ Overlap(x, s)
  BY DEF Overlap
<1>2. \A x, y \in Range2 : Overlap(x, y) => Overlap(y, x)
  BY Zenon DEF Overlap
<1>3. \A x \in Range2 : Exists(R, x) /\ Overlap(x, u) => x \in {r, s}
  BY Zenon, <1>1, <1>2 DEF Good, Owns
<1>4. \A x \in {r, s} : Within(x, r[1], s[2])
  BY DEF Within
<1>5. \A x \in Range2 : Exists(R2, x) /\ x # u => Exists(R, x) /\ R2[x] = R[x] /\ ~Overlap(x, u)
  BY <1>3, <1>4 DEF Exists
<1>6. \A x \in Range2 : Within(x, r[1], s[2]) => Overlap(x, u)
  BY DEF Within, Overlap
<1>7. \A x \in Range2 : ~Overlap(x, u) => R2[x] = R[x]
  BY Zenon, <1>6 DEF Overlap
<1>8. Apart({u}, S)
  <2>1. \A x \in S : ~Overlap(r, x) /\ ~Overlap(s, x)
    BY Zenon DEF Good, Apart
  <2> QED
    BY <2>1, <1>1, <1>2 DEF Apart
<1>9. \A q \in Prover : q # p => Apart({u}, C[q]) /\ Apart(C[q], {u})
  <2>1. \A q \in Prover : q # p => \A x \in C[q] : ~Overlap(r, x) /\ ~Overlap(s, x)
    BY Zenon DEF Good, Apart
  <2> QED
    BY <2>1, <1>1, <1>2 DEF Apart
<1>10. NoOverlap(R2)
  BY <1>2, <1>5 DEF Good, NoOverlap
<1>11. Owns(R2, {u}, v)
  BY <1>2, <1>5 DEF Owns, Exists
<1>12. Owns(R2, S, v)
  <2>1. \A x \in S : ~Overlap(x, u)
    BY Zenon, <1>2, <1>8 DEF Apart
  <2> QED
    BY <2>1, <1>2, <1>5, <1>7 DEF Good, Owns, Exists
<1>13. \A q \in Prover : q # p => Owns(R2, C[q], v)
  <2>1. \A q \in Prover : q # p => \A x \in C[q] : ~Overlap(x, u)
    BY Zenon, <1>9 DEF Apart
  <2> QED
    BY <2>1, <1>2, <1>5, <1>7 DEF Good, Owns, Exists
<1>14. \A q \in Prover : Owns(R2, C2[q], v) /\ Apart(C2[q], S)
  BY Zenon, <1>8, <1>11, <1>13 DEF Good
<1>15. \A q, k \in Prover : q # k => Apart(C2[q], C2[k])
  BY ZenonT(60), <1>9 DEF Good
<1> QED
  BY Zenon, <1>10, <1>12, <1>14, <1>15 DEF Good

\* A proof goes from a prover to sendFinalProof.
LEMMA GoodMoves ==
  ASSUME NEW R, NEW C, NEW C2, NEW v \in Int, NEW p \in Prover, NEW S,
         Good(R, C, {}, v),
         \A q \in Prover : C[q] \subseteq Range2,
         C[p] = S, C2[p] = {}, \A q \in Prover : q # p => C2[q] = C[q]
  PROVE  Good(R, C2, S, v)
BY Zenon DEF Good, Owns, Apart

-----------------------------------------------------------------------------
(* Steps                                                                   *)

\* What a goroutine has in hand depends on where it is.
LEMMA ClaimedFacts ==
  ASSUME NEW g
  PROVE  /\ g.pc = "aggregating" => Claimed(g) = {g.range, g.second}
         /\ g.pc \in {"build", "release", "proving"} => Claimed(g) = {g.range}
         /\ g.pc \in {"loop", "sync", "lock"} /\ g.own => Claimed(g) = {g.range}
         /\ g.pc \in {"loop", "sync", "lock"} /\ ~g.own => Claimed(g) = {}
         /\ g.pc \in {"off", "aggregate", "generate"} => Claimed(g) = {}
BY Zenon DEF Claimed

\* A goroutine that starts over has nothing in hand.
LEMMA FreshFacts ==
  ASSUME TypeOK, NEW pc \in {"off", "loop", "aggregate", "generate"}
  PROVE  /\ Fresh(pc) \in Goroutine /\ Claimed(Fresh(pc)) = {}
         /\ Fresh(pc).pc = pc
         /\ GoroutineOK(Fresh(pc), verified)
<1>1. /\ Fresh(pc) \in Goroutine /\ Fresh(pc).pc = pc /\ ~Fresh(pc).own
      /\ Fresh(pc).last = 0
  BY AggregatorAssumption DEF Fresh, Goroutine, ProverPC
<1>2. Claimed(Fresh(pc)) = {}
  BY Zenon, <1>1, ClaimedFacts
<1> QED
  BY <1>1, <1>2, AggregatorAssumption DEF GoroutineOK, TypeOK

\* An event is counted.
LEMMA HappensFacts ==
  ASSUME TypeOK, NEW e \in Event, Happens(e)
  PROVE  /\ events' \in [Event -> Nat]
         /\ events'[e] > 0
         /\ \A f \in Event : events[f] <= events'[f]
BY DEF TypeOK, Happens, Event

\* A step of one prover, which is at g after it.
LEMMA ProverMoves ==
  ASSUME TypeOK, Control, NEW p \in Prover, NEW g \in Goroutine,
         prover[p].pc # "off", GoroutineOK(g, verified),
         prover' = [prover EXCEPT ![p] = g], UNCHANGED <<verified, sender>>
  PROVE  /\ prover' \in [Prover -> Goroutine]
         /\ Control'
         /\ sent' = sent
         /\ claims'[p] = Claimed(g) /\ claims[p] = Claimed(prover[p])
         /\ \A q \in Prover : q # p => claims'[q] = claims[q]
<1>1. prover \in [Prover -> Goroutine]
  BY Zenon DEF TypeOK, Goroutine
<1>2. ~sender.boot
  BY Zenon DEF Control, TypeOK
<1>3. prover'[p] = g /\ \A q \in Prover : q # p => prover'[q] = prover[q]
  BY Zenon, <1>1
<1>4. Control'
  BY Zenon, <1>2, <1>3 DEF Control
<1> QED
  BY Zenon, <1>1, <1>3, <1>4 DEF claims, sent

\* What the rows of the proofs in hand are made of.
LEMMA ClaimTypes ==
  ASSUME TypeOK, Control
  PROVE  /\ sent \subseteq Range2
         /\ \A p \in Prover : claims[p] \subseteq Range2 /\ claims[p] = Claimed(prover[p])
         /\ \A p \in Prover : prover[p] \in Goroutine
         /\ verified \in Int
BY DEF TypeOK, Control, GoroutineOK, claims, sent, Goroutine

\* The part of the invariant on rows and claims.
RowInv == /\ events["cleanup"] = 0 => Good(rows, claims, sent, verified)
          /\ LockedIsHeld

\* A step of one prover that keeps the rows and what it has in hand.
LEMMA KeepsClaims ==
  ASSUME IInv, NEW p \in Prover, NEW g \in Goroutine,
         prover[p].pc # "off", GoroutineOK(g, verified),
         prover' = [prover EXCEPT ![p] = g], UNCHANGED <<verified, sender, rows>>,
         Claimed(g) = Claimed(prover[p]),
         UNCHANGED events \/ Happens("error")
  PROVE  Control' /\ prover' \in [Prover -> Goroutine] /\ RowInv'
<1>0. TypeOK /\ Control
  BY Zenon DEF IInv
<1>1. /\ prover' \in [Prover -> Goroutine] /\ Control' /\ sent' = sent
      /\ \A q \in Prover : claims'[q] = claims[q]
  BY Zenon, <1>0, ProverMoves
<1>2. (\A e \in Event : events'[e] = 0) => \A e \in Event : events[e] = 0
  BY <1>0, HappensFacts DEF Event
<1>3. events'["cleanup"] = 0 => events["cleanup"] = 0
  BY <1>0, HappensFacts DEF Event, TypeOK
<1>4. events'["cleanup"] = 0 => Good(rows', claims', sent', verified')
  <2> SUFFICES ASSUME events'["cleanup"] = 0
               PROVE  Good(rows', claims', sent', verified')
    BY Zenon
  <2>1. Good(rows, claims, sent, verified)
    BY Zenon, <1>3 DEF IInv
  <2> QED
    BY <1>0, <1>1, <2>1, ClaimTypes, GoodShrinks
<1>5. LockedIsHeld'
  BY Zenon, <1>1, <1>2 DEF IInv, LockedIsHeld, Locked
<1> QED
  BY Zenon, <1>1, <1>4, <1>5 DEF RowInv

\* tryBuildFinalProof returned false: an own proof stays in hand.
LEMMA NotBuiltFacts ==
  ASSUME TypeOK, NEW p \in Prover, NotBuilt(p),
         prover[p].own => prover[p].range \in Range2
  PROVE  \E g \in Goroutine : /\ prover' = [prover EXCEPT ![p] = g]
                              /\ GoroutineOK(g, verified)
                              /\ Claimed(g) = IF prover[p].own THEN {prover[p].range} ELSE {}
<1>0. prover[p] \in Goroutine /\ verified \in Nat
  BY AggregatorAssumption DEF TypeOK, Goroutine
<1>1. CASE prover[p].own
  <2> DEFINE g == [prover[p] EXCEPT !.pc = "release", !.last = 0]
  <2>1. 0 \in 0 .. NBatch /\ "release" \in ProverPC
    BY AggregatorAssumption DEF ProverPC
  <2>2. /\ g \in Goroutine /\ g.pc = "release" /\ g.range = prover[p].range /\ g.last = 0
    BY Zenon, <1>0, <2>1 DEF Goroutine
  <2>3. prover' = [prover EXCEPT ![p] = g]
    BY Zenon, <1>0, <1>1 DEF NotBuilt, Put
  <2> HIDE DEF g
  <2>4. Claimed(g) = {prover[p].range}
    BY Zenon, <2>2, ClaimedFacts
  <2>5. GoroutineOK(g, verified)
    BY <1>0, <1>1, <2>2, <2>4 DEF GoroutineOK
  <2> QED
    BY Zenon, <1>1, <2>2, <2>3, <2>4, <2>5
<1>2. CASE ~prover[p].own
  <2>1. prover' = [prover EXCEPT ![p] = Fresh("aggregate")]
    BY Zenon, <1>0, <1>2 DEF NotBuilt, Put
  <2> QED
    BY Zenon, <1>2, <2>1, FreshFacts
<1> QED
  BY Zenon, <1>1, <1>2

\* A goroutine that has not yet handed over its own proof has it in hand.
LEMMA OwnFacts ==
  ASSUME Control, NEW p \in Prover, prover[p].pc \in {"loop", "sync", "lock", "build"}
  PROVE  prover[p].own => prover[p].range \in Range2 /\ Claimed(prover[p]) = {prover[p].range}
BY ClaimedFacts DEF Control, GoroutineOK

\* canVerifyProof keeps the invariant.
LEMMA CanVerifyStep ==
  ASSUME IInv, NEW p \in Prover, canVerifyProof(p)
  PROVE  IInv'
<1>0. TypeOK /\ Control /\ prover[p] \in Goroutine /\ GoroutineOK(prover[p], verified)
  BY Zenon, ClaimTypes DEF IInv, Control
<1>1. \E g \in Goroutine : /\ prover' = [prover EXCEPT ![p] = g]
                            /\ Claimed(g) = Claimed(prover[p])
                            /\ GoroutineOK(g, verified)
  <2>1. CASE Goto(p, "sync")
    <3> DEFINE g == [prover[p] EXCEPT !.pc = "sync"]
    <3>1. prover' = [prover EXCEPT ![p] = g]
      BY Zenon, <2>1 DEF Goto, Put
    <3>2. /\ g \in Goroutine /\ g.pc = "sync" /\ g.own = prover[p].own
          /\ g.range = prover[p].range /\ g.last = prover[p].last
      BY Zenon, <1>0 DEF Goroutine, ProverPC
    <3> HIDE DEF g
    <3>3. Claimed(g) = Claimed(prover[p])
      BY <1>0, <3>2, ClaimedFacts DEF canVerifyProof, Goroutine
    <3> QED
      BY Zenon, <1>0, <3>1, <3>2, <3>3 DEF GoroutineOK
  <2>2. CASE NotBuilt(p)
    BY Zenon, <1>0, <2>2, NotBuiltFacts, OwnFacts, ClaimedFacts DEF canVerifyProof
  <2> QED
    BY Zenon, <2>1, <2>2 DEF canVerifyProof
<1>2. Control' /\ prover' \in [Prover -> Goroutine] /\ RowInv'
  BY Zenon, <1>0, <1>1, KeepsClaims DEF canVerifyProof
<1>3. TypeOK'
  BY Zenon, <1>0, <1>2 DEF TypeOK, Goroutine, canVerifyProof
<1> QED
  BY Zenon, <1>2, <1>3 DEF IInv, RowInv

\* waitForSynchronizerToSyncUp keeps the invariant.
LEMMA SyncUpStep ==
  ASSUME IInv, NEW p \in Prover, waitForSynchronizerToSyncUp(p)
  PROVE  IInv'
<1>0. TypeOK /\ Control /\ prover[p] \in Goroutine /\ GoroutineOK(prover[p], verified)
  BY Zenon, ClaimTypes DEF IInv, Control
<1> DEFINE g == [prover[p] EXCEPT !.pc = "lock", !.last = verified]
<1>1. verified \in 0 .. NBatch /\ "lock" \in ProverPC
  BY Zenon, <1>0 DEF TypeOK, ProverPC
<1>2. /\ g \in Goroutine /\ g.pc = "lock" /\ g.own = prover[p].own
      /\ g.range = prover[p].range /\ g.last = verified
  BY Zenon, <1>0, <1>1 DEF Goroutine
<1>3. prover' = [prover EXCEPT ![p] = g]
  BY Zenon DEF waitForSynchronizerToSyncUp, Put
<1> HIDE DEF g
<1>4. Claimed(g) = Claimed(prover[p])
  BY <1>0, <1>2, ClaimedFacts DEF waitForSynchronizerToSyncUp, Goroutine
<1>5. GoroutineOK(g, verified)
  BY <1>0, <1>1, <1>2, <1>4 DEF GoroutineOK
<1>6. Control' /\ prover' \in [Prover -> Goroutine] /\ RowInv'
  BY ZenonT(60), <1>0, <1>2, <1>3, <1>4, <1>5, KeepsClaims DEF waitForSynchronizerToSyncUp
<1>7. TypeOK'
  BY Zenon, <1>0, <1>6 DEF TypeOK, Goroutine, waitForSynchronizerToSyncUp
<1> QED
  BY Zenon, <1>6, <1>7 DEF IInv, RowInv

\* getAndLockProofReadyToVerify keeps the invariant.
LEMMA LockReadyStep ==
  ASSUME IInv, NEW p \in Prover, getAndLockProofReadyToVerify(p)
  PROVE  IInv'
<1>0. TypeOK /\ Control /\ prover[p] \in Goroutine /\ GoroutineOK(prover[p], verified)
  BY Zenon, ClaimTypes DEF IInv, Control
<1>1. prover[p].pc = "lock" /\ ~prover[p].own /\ Claimed(prover[p]) = {}
  BY ZenonT(60), ClaimedFacts DEF getAndLockProofReadyToVerify
<1>2. CASE NotBuilt(p) /\ UNCHANGED rows
  <2>1. Control' /\ prover' \in [Prover -> Goroutine] /\ RowInv'
    BY ZenonT(60), <1>0, <1>1, <1>2, NotBuiltFacts, KeepsClaims DEF getAndLockProofReadyToVerify
  <2>2. TypeOK'
    BY Zenon, <1>0, <1>2, <2>1 DEF TypeOK, Goroutine, getAndLockProofReadyToVerify
  <2> QED
    BY Zenon, <2>1, <2>2 DEF IInv, RowInv
<1>3. ASSUME NEW r \in ReadyToVerify(prover[p].last),
             rows' = [rows EXCEPT ![r] = "locked"],
             Put(p, [prover[p] EXCEPT !.pc = "build", !.range = r])
      PROVE  IInv'
  <2> DEFINE g == [prover[p] EXCEPT !.pc = "build", !.range = r]
  <2>0. r \in Range2 /\ rows[r] = "ready"
    BY Zenon, <1>3 DEF ReadyToVerify
  <2>1. g \in Goroutine /\ g.pc = "build" /\ g.range = r /\ g.last = prover[p].last
    BY Zenon, <1>0, <2>0 DEF Goroutine, ProverPC
  <2>2. prover' = [prover EXCEPT ![p] = g]
    BY Zenon, <1>3 DEF Put
  <2> HIDE DEF g
  <2>3. Claimed(g) = {r}
    BY Zenon, <2>1, ClaimedFacts
  <2>4. GoroutineOK(g, verified)
    BY Zenon, <1>0, <2>0, <2>1, <2>3 DEF GoroutineOK
  <2>5. /\ prover' \in [Prover -> Goroutine] /\ Control' /\ sent' = sent
        /\ claims'[p] = {r} /\ claims[p] = {}
        /\ \A q \in Prover : q # p => claims'[q] = claims[q]
    BY Zenon, <1>0, <1>1, <2>1, <2>2, <2>3, <2>4, ProverMoves DEF getAndLockProofReadyToVerify
  <2>6. /\ rows' \in [Range2 -> RowState] /\ rows'[r] = "locked"
        /\ \A x \in Range2 \ {r} : rows'[x] = rows[x]
    BY Zenon, <1>0, <1>3, <2>0 DEF TypeOK, RowState
  <2>7. TypeOK'
    BY ZenonT(60), <1>0, <2>5, <2>6 DEF TypeOK, Goroutine, getAndLockProofReadyToVerify
  <2>8. events'["cleanup"] = 0 => Good(rows', claims', sent', verified')
    <3> SUFFICES ASSUME events["cleanup"] = 0
                 PROVE  Good(rows', claims', sent, verified)
      BY Zenon, <2>5 DEF getAndLockProofReadyToVerify
    <3>1. Good(rows, claims, sent, verified)
      BY Zenon DEF IInv
    <3> QED
      BY <1>0, <2>0, <2>5, <2>6, <3>1, ClaimTypes, GoodTakes
  <2>9. LockedIsHeld'
    BY Zenon, <2>5, <2>6 DEF IInv, LockedIsHeld, Locked, getAndLockProofReadyToVerify
  <2> QED
    BY Zenon, <2>5, <2>7, <2>8, <2>9 DEF IInv
<1> QED
  BY Zenon, <1>2, <1>3 DEF getAndLockProofReadyToVerify

\* validateEligibleFinalProof keeps the invariant: what it deletes is verified.
LEMMA ValidateStep ==
  ASSUME IInv, NEW p \in Prover, validateEligibleFinalProof(p)
  PROVE  IInv'
<1> DEFINE r == prover[p].range
<1>0. TypeOK /\ Control /\ prover[p] \in Goroutine /\ GoroutineOK(prover[p], verified)
  BY Zenon, ClaimTypes DEF IInv, Control
<1>1. prover[p].pc = "lock" /\ prover[p].own /\ Claimed(prover[p]) = {r} /\ r \in Range2
  BY Zenon, <1>0, OwnFacts DEF validateEligibleFinalProof
<1>2. \E g \in Goroutine : /\ prover' = [prover EXCEPT ![p] = g]
                            /\ Claimed(g) = Claimed(prover[p])
                            /\ GoroutineOK(g, verified)
  <2>1. CASE Goto(p, "build")
    <3> DEFINE g == [prover[p] EXCEPT !.pc = "build"]
    <3>1. prover' = [prover EXCEPT ![p] = g]
      BY Zenon, <2>1 DEF Goto, Put
    <3>2. g \in Goroutine /\ g.pc = "build" /\ g.range = r /\ g.last = prover[p].last
      BY Zenon, <1>0 DEF Goroutine, ProverPC
    <3> HIDE DEF g
    <3>3. Claimed(g) = Claimed(prover[p])
      BY Zenon, <1>1, <3>2, ClaimedFacts
    <3> QED
      BY Zenon, <1>0, <3>1, <3>2, <3>3 DEF GoroutineOK
  <2>2. CASE NotBuilt(p)
    BY Zenon, <1>0, <1>1, <2>2, NotBuiltFacts
  <2> QED
    BY Zenon, <2>1, <2>2 DEF validateEligibleFinalProof
<1>3. /\ prover' \in [Prover -> Goroutine] /\ Control' /\ sent' = sent
      /\ \A q \in Prover : claims'[q] = claims[q]
  <2>1. UNCHANGED <<verified, sender>>
    BY Zenon DEF validateEligibleFinalProof
  <2> QED
    <3>1. PICK g \in Goroutine : /\ prover' = [prover EXCEPT ![p] = g]
                                 /\ Claimed(g) = Claimed(prover[p])
                                 /\ GoroutineOK(g, verified)
      BY Zenon, <1>2
    <3>2. prover[p].pc # "off"
      BY Zenon, <1>1
    <3>3. /\ prover' \in [Prover -> Goroutine] /\ Control' /\ sent' = sent
          /\ claims'[p] = Claimed(g) /\ claims[p] = Claimed(prover[p])
          /\ \A q \in Prover : q # p => claims'[q] = claims[q]
      BY ZenonT(60), <1>0, <2>1, <3>1, <3>2, ProverMoves
    <3> QED
      BY Zenon, <3>1, <3>3
<1>4. /\ rows' \in [Range2 -> RowState]
      /\ \A x \in Range2 : rows'[x] = rows[x] \/ (rows'[x] = "none" /\ x[2] <= verified)
  <2>1. CASE r[2] < prover[p].last + 1
    <3>1. rows' = Deleted(r[1], r[2])
      BY Zenon, <2>1 DEF validateEligibleFinalProof
    <3>2. r[2] <= verified /\ verified \in Int
      BY <1>0, <1>1, <2>1, RangeFacts DEF GoroutineOK, Goroutine, TypeOK
    <3> QED
      BY <1>0, <1>1, <3>1, <3>2, RangeFacts DEF Deleted, Within, TypeOK, RowState
  <2>2. CASE ~(r[2] < prover[p].last + 1)
    BY Zenon, <1>0, <2>2 DEF validateEligibleFinalProof, TypeOK
  <2> QED
    BY Zenon, <2>1, <2>2
<1>5. TypeOK'
  BY ZenonT(60), <1>0, <1>3, <1>4 DEF TypeOK, Goroutine, validateEligibleFinalProof
<1>6. events'["cleanup"] = 0 => Good(rows', claims', sent', verified')
  <2> SUFFICES ASSUME events["cleanup"] = 0
               PROVE  Good(rows', claims', sent, verified)
    BY Zenon, <1>3 DEF validateEligibleFinalProof
  <2>1. Good(rows, claims, sent, verified)
    BY Zenon DEF IInv
  <2>2. \A x \in Range2 : Exists(rows, x) => Exists(rows', x) \/ x[2] <= verified
    BY Zenon, <1>4 DEF Exists
  <2> QED
    BY <1>0, <1>3, <1>4, <2>1, <2>2, ClaimTypes, GoodShrinks
<1>7. LockedIsHeld'
  BY ZenonT(60), <1>3, <1>4 DEF IInv, LockedIsHeld, Locked, validateEligibleFinalProof
<1> QED
  BY Zenon, <1>3, <1>5, <1>6, <1>7 DEF IInv

\* A prover gives up what it has in hand and starts over; the rows it had are
\* changed or deleted, and no others.
LEMMA DropStep ==
  ASSUME IInv, NEW p \in Prover, NEW pc \in {"loop", "aggregate", "generate"},
         prover[p].pc # "off", Put(p, Fresh(pc)), UNCHANGED <<verified, sender>>,
         \A x \in Range2 : \/ rows'[x] = rows[x]
                           \/ \E y \in Claimed(prover[p]) :
                                rows'[x] = "none" /\ Within(x, y[1], y[2])
                           \/ x \in Claimed(prover[p]) /\ Exists(rows, x) /\ rows'[x] = "ready",
         \/ Happens("error")
         \/ UNCHANGED events /\ \A x \in Claimed(prover[p]) : rows'[x] \in {"none", "ready"}
  PROVE  Control' /\ prover' \in [Prover -> Goroutine] /\ RowInv'
<1>0. TypeOK /\ Control
  BY Zenon DEF IInv
<1>1. /\ prover' \in [Prover -> Goroutine] /\ Control' /\ sent' = sent
      /\ claims'[p] = {} /\ claims[p] = Claimed(prover[p])
      /\ \A q \in Prover : q # p => claims'[q] = claims[q]
  BY ZenonT(60), <1>0, FreshFacts, ProverMoves DEF Put
<1>2. events'["cleanup"] = 0 => events["cleanup"] = 0
  BY <1>0, HappensFacts DEF Event, TypeOK
<1>3. events'["cleanup"] = 0 => Good(rows', claims', sent', verified')
  <2> SUFFICES ASSUME events'["cleanup"] = 0
               PROVE  Good(rows', claims', sent, verified)
    BY Zenon, <1>1
  <2>1. Good(rows, claims, sent, verified)
    BY Zenon, <1>2 DEF IInv
  <2>2. \A x, y \in Range2 : Within(x, y[1], y[2]) => Overlap(y, x) /\ Overlap(x, y)
    BY RangeFacts DEF Within, Overlap
  <2>3. \A x \in Range2 : Overlap(x, x)
    BY Zenon, RangeFacts DEF Overlap
  <2>4. \A y \in claims[p], x \in sent : ~Overlap(y, x)
    BY Zenon, <2>1 DEF Good, Apart
  <2>5. \A q \in Prover : q # p => \A y \in claims[p], x \in claims[q] : ~Overlap(y, x)
    BY Zenon, <2>1 DEF Good, Apart
  <2>6. sent \subseteq Range2 /\ \A q \in Prover : claims[q] \subseteq Range2
    BY ZenonT(60), <1>0, ClaimTypes
  <2>7. \A x \in sent : rows'[x] = rows[x]
    BY <1>1, <2>2, <2>3, <2>4, <2>6
  <2>8. \A q \in Prover : \A x \in claims'[q] : rows'[x] = rows[x]
    BY <1>1, <2>2, <2>3, <2>5, <2>6
  <2>9. \A x \in Range2 : \/ rows'[x] = rows[x]
                          \/ rows'[x] = "none"
                          \/ Exists(rows, x) /\ x \notin sent /\ \A q \in Prover : x \notin claims'[q]
    BY Zenon, <2>7, <2>8
  <2>10. \A q \in Prover : claims[q] \subseteq Range2 /\ claims'[q] \subseteq claims[q]
    BY Zenon, <1>1, <2>6
  <2>11. /\ \A x \in sent : Exists(rows, x) => Exists(rows', x)
         /\ \A q \in Prover : \A x \in claims'[q] : Exists(rows, x) => Exists(rows', x)
    BY Zenon, <2>7, <2>8 DEF Exists
  <2> QED
    BY <1>0, <2>1, <2>6, <2>9, <2>10, <2>11, ClaimTypes, GoodShrinks
<1>4. LockedIsHeld'
  <2>1. CASE Happens("error")
    BY <2>1, <1>0, HappensFacts DEF LockedIsHeld, Event
  <2>2. CASE UNCHANGED events /\ \A x \in Claimed(prover[p]) : rows'[x] \in {"none", "ready"}
    <3>1. \A x \in Locked' : x \in Locked /\ x \notin claims[p]
      BY Zenon, <1>1, <2>2 DEF Locked
    <3> QED
      BY Zenon, <1>1, <2>2, <3>1 DEF IInv, LockedIsHeld
  <2> QED
    BY Zenon, <2>1, <2>2
<1> QED
  BY Zenon, <1>1, <1>3, <1>4 DEF RowInv

\* buildFinalProof keeps the invariant: sendFinalProof has the proof now.
LEMMA BuildStep ==
  ASSUME IInv, NEW p \in Prover, buildFinalProof(p)
  PROVE  IInv'
<1> DEFINE r == prover[p].range
           pc == IF prover[p].own THEN "loop" ELSE "aggregate"
<1>0. TypeOK /\ Control /\ prover[p] \in Goroutine /\ GoroutineOK(prover[p], verified)
  BY Zenon, ClaimTypes DEF IInv, Control
<1>1. prover[p].pc = "build" /\ Claimed(prover[p]) = {r} /\ r \in Range2
  BY Zenon, <1>0, ClaimedFacts DEF buildFinalProof, GoroutineOK
<1>2. /\ Fresh(pc) \in Goroutine /\ Claimed(Fresh(pc)) = {} /\ GoroutineOK(Fresh(pc), verified)
      /\ Fresh(pc).pc # "off"
  BY Zenon, <1>0, FreshFacts
<1>3. prover' = [prover EXCEPT ![p] = Fresh(pc)]
  BY Zenon DEF buildFinalProof, Put
<1> HIDE DEF pc
<1>4. /\ sender.pc = "idle" /\ ~sender.boot
      /\ sender' \in [pc : {"idle", "settle", "pending", "syncing"}, range : Range2 \cup {NoRange},
                      boot : BOOLEAN]
      /\ sender'.pc = "settle" /\ sender'.range = r /\ ~sender'.boot
  BY Zenon, <1>0, <1>1 DEF buildFinalProof, Control, TypeOK
<1>5. sent = {} /\ sent' = {r}
  BY Zenon, <1>4 DEF sent
<1>6. prover \in [Prover -> Goroutine]
  BY Zenon, <1>0 DEF TypeOK, Goroutine
<1>7. /\ prover' \in [Prover -> Goroutine] /\ prover'[p] = Fresh(pc)
      /\ \A q \in Prover : q # p => prover'[q] = prover[q]
  BY Zenon, <1>2, <1>3, <1>6
<1>8. /\ claims'[p] = {} /\ claims[p] = {r}
      /\ \A q \in Prover : q # p => claims'[q] = claims[q]
  BY Zenon, <1>1, <1>2, <1>7 DEF claims
<1>9. Control'
  BY ZenonT(60), <1>0, <1>1, <1>2, <1>4, <1>7 DEF Control, buildFinalProof
<1>10. TypeOK'
  BY Zenon, <1>0, <1>4, <1>7 DEF TypeOK, Goroutine, buildFinalProof
<1>11. events'["cleanup"] = 0 => Good(rows', claims', sent', verified')
  <2> SUFFICES ASSUME events["cleanup"] = 0
               PROVE  Good(rows, claims', {r}, verified)
    BY Zenon, <1>5 DEF buildFinalProof
  <2>1. Good(rows, claims, {}, verified)
    BY Zenon, <1>5 DEF IInv
  <2> QED
    BY Zenon, <1>0, <1>8, <2>1, ClaimTypes, GoodMoves
<1>12. LockedIsHeld'
  BY Zenon, <1>5, <1>8 DEF IInv, LockedIsHeld, Locked, buildFinalProof
<1> QED
  BY Zenon, <1>9, <1>10, <1>11, <1>12 DEF IInv

\* An update of one row.
LEMMA UpdatedFacts ==
  ASSUME TypeOK, NEW r \in Range2, rows' = Updated(r, "ready")
  PROVE  /\ rows' \in [Range2 -> RowState]
         /\ \A x \in Range2 : \/ rows'[x] = rows[x] /\ x # r
                              \/ x = r /\ Exists(rows, x) /\ rows'[x] = "ready"
                              \/ x = r /\ rows'[x] = rows[x] /\ rows[x] = "none"
BY Zenon DEF TypeOK, Updated, RowState, Exists

\* A failing final proof keeps the invariant.
LEMMA FinalProofErrorStep ==
  ASSUME IInv, NEW p \in Prover, FinalProofError(p)
  PROVE  IInv'
<1> DEFINE r == prover[p].range
<1>0. TypeOK /\ Control /\ prover[p] \in Goroutine /\ GoroutineOK(prover[p], verified)
  BY Zenon, ClaimTypes DEF IInv, Control
<1>1. prover[p].pc = "build" /\ Claimed(prover[p]) = {r} /\ r \in Range2
  BY ZenonT(60), <1>0, ClaimedFacts DEF FinalProofError, GoroutineOK
<1>2. events' \in [Event -> Nat] /\ Happens("error")
  BY Zenon, <1>0, HappensFacts DEF FinalProofError, Event
<1>3. Control' /\ prover' \in [Prover -> Goroutine] /\ RowInv' /\ rows' \in [Range2 -> RowState]
  <2>1. CASE prover[p].own
    <3>1. UNCHANGED <<verified, sender, rows>> /\ NotBuilt(p)
      BY Zenon, <2>1 DEF FinalProofError
    <3>2. \E g \in Goroutine : /\ prover' = [prover EXCEPT ![p] = g]
                                /\ GoroutineOK(g, verified)
                                /\ Claimed(g) = Claimed(prover[p])
      BY Zenon, <1>0, <1>1, <2>1, <3>1, NotBuiltFacts
    <3>3. prover[p].pc # "off"
      BY ZenonT(60), <1>1
    <3> QED
      BY Zenon, <1>0, <1>2, <3>1, <3>2, <3>3, KeepsClaims DEF TypeOK
  <2>2. CASE ~prover[p].own
    <3>1. /\ UNCHANGED <<verified, sender>> /\ Put(p, Fresh("aggregate"))
          /\ rows' = Updated(r, "ready")
      BY Zenon, <2>2 DEF FinalProofError, NotBuilt
    <3>2. prover[p].pc # "off"
      BY Zenon, <1>1
    <3> QED
      BY <1>0, <1>1, <1>2, <3>1, <3>2, UpdatedFacts, DropStep
  <2> QED
    BY Zenon, <2>1, <2>2
<1>4. TypeOK'
  BY Zenon, <1>0, <1>2, <1>3 DEF TypeOK, Goroutine, FinalProofError
<1> QED
  BY Zenon, <1>3, <1>4 DEF IInv, RowInv

\* Storing and unlocking the own proof keeps the invariant.
LEMMA ReleaseStep ==
  ASSUME IInv, NEW p \in Prover, ReleaseProof(p)
  PROVE  IInv'
<1> DEFINE r == prover[p].range
<1>0. TypeOK /\ Control /\ prover[p] \in Goroutine /\ GoroutineOK(prover[p], verified)
  BY Zenon, ClaimTypes DEF IInv, Control
<1>1. prover[p].pc = "release" /\ Claimed(prover[p]) = {r} /\ r \in Range2
  BY ZenonT(60), <1>0, ClaimedFacts DEF ReleaseProof, GoroutineOK
<1>2. /\ UNCHANGED <<verified, sender, events>> /\ Put(p, Fresh("loop"))
      /\ rows' = Updated(r, "ready")
  BY Zenon DEF ReleaseProof
<1>3. prover[p].pc # "off"
  BY ZenonT(60), <1>1
<1>4. Control' /\ prover' \in [Prover -> Goroutine] /\ RowInv' /\ rows' \in [Range2 -> RowState]
  BY <1>0, <1>1, <1>2, <1>3, UpdatedFacts, DropStep
<1>5. TypeOK'
  BY Zenon, <1>0, <1>4 DEF TypeOK, Goroutine, ReleaseProof
<1> QED
  BY Zenon, <1>4, <1>5 DEF IInv, RowInv

\* getAndLockProofsToAggregate keeps the invariant.
LEMMA LockPairStep ==
  ASSUME IInv, NEW p \in Prover, getAndLockProofsToAggregate(p)
  PROVE  IInv'
<1>0. TypeOK /\ Control /\ prover[p] \in Goroutine /\ GoroutineOK(prover[p], verified)
  BY Zenon, ClaimTypes DEF IInv, Control
<1>1. prover[p].pc = "aggregate" /\ Claimed(prover[p]) = {}
  BY Zenon, ClaimedFacts DEF getAndLockProofsToAggregate
<1>2. CASE Goto(p, "generate") /\ UNCHANGED rows
  <2> DEFINE g == [prover[p] EXCEPT !.pc = "generate"]
  <2>1. prover' = [prover EXCEPT ![p] = g]
    BY Zenon, <1>2 DEF Goto, Put
  <2>2. g \in Goroutine /\ g.pc = "generate" /\ g.last = prover[p].last
    BY Zenon, <1>0 DEF Goroutine, ProverPC
  <2> HIDE DEF g
  <2>3. Claimed(g) = {}
    BY Zenon, <2>2, ClaimedFacts
  <2>4. GoroutineOK(g, verified) /\ prover[p].pc # "off"
    BY Zenon, <1>0, <1>1, <2>2, <2>3 DEF GoroutineOK
  <2>5. UNCHANGED <<verified, sender, rows, events>>
    BY Zenon, <1>2 DEF getAndLockProofsToAggregate
  <2>6. Control' /\ prover' \in [Prover -> Goroutine] /\ RowInv'
    BY Zenon, <1>0, <1>1, <2>1, <2>2, <2>3, <2>4, <2>5, KeepsClaims
  <2>7. TypeOK'
    BY ZenonT(60), <1>0, <2>5, <2>6 DEF TypeOK, Goroutine, getAndLockProofsToAggregate
  <2> QED
    BY Zenon, <2>6, <2>7 DEF IInv, RowInv
<1>3. ASSUME NEW r \in Range2, NEW s \in Range2, CanAggregate(r, s),
             rows' = [rows EXCEPT ![r] = "locked", ![s] = "locked"],
             Put(p, [prover[p] EXCEPT !.pc = "aggregating", !.range = r, !.second = s]),
             UNCHANGED <<ends, verified, verifiedL1, sender, txs, verifying, events>>
      PROVE  IInv'
  <2> DEFINE g == [prover[p] EXCEPT !.pc = "aggregating", !.range = r, !.second = s]
  <2>0. rows[r] = "ready" /\ rows[s] = "ready" /\ r[2] = s[1] - 1
    BY Zenon, <1>3 DEF CanAggregate
  <2>1. /\ g \in Goroutine /\ g.pc = "aggregating" /\ g.range = r /\ g.second = s
        /\ g.last = prover[p].last
    BY Zenon, <1>0 DEF Goroutine, ProverPC
  <2>2. prover' = [prover EXCEPT ![p] = g]
    BY Zenon, <1>3 DEF Put
  <2> HIDE DEF g
  <2>3. Claimed(g) = {r, s}
    BY Zenon, <2>1, ClaimedFacts
  <2>4. GoroutineOK(g, verified) /\ prover[p].pc # "off"
    BY Zenon, <1>0, <1>1, <2>0, <2>1, <2>3 DEF GoroutineOK
  <2>5. /\ prover' \in [Prover -> Goroutine] /\ Control' /\ sent' = sent
        /\ claims'[p] = {r, s} /\ claims[p] = {}
        /\ \A q \in Prover : q # p => claims'[q] = claims[q]
    BY ZenonT(60), <1>0, <1>1, <1>3, <2>1, <2>2, <2>3, <2>4, ProverMoves
  <2>6. /\ rows' \in [Range2 -> RowState]
        /\ \A x \in {r, s} : rows[x] = "ready" /\ rows'[x] = "locked"
        /\ \A x \in Range2 \ {r, s} : rows'[x] = rows[x]
    BY <1>0, <1>3, <2>0 DEF TypeOK, RowState
  <2>7. TypeOK'
    BY ZenonT(60), <1>0, <1>3, <2>5, <2>6 DEF TypeOK, Goroutine
  <2>8. events'["cleanup"] = 0 => Good(rows', claims', sent', verified')
    <3> SUFFICES ASSUME events["cleanup"] = 0
                 PROVE  Good(rows', claims', sent, verified)
      BY Zenon, <1>3, <2>5
    <3>1. Good(rows, claims, sent, verified)
      BY Zenon DEF IInv
    <3>2. {r, s} \subseteq Range2
      BY Zenon
    <3> QED
      BY <1>0, <2>5, <2>6, <3>1, <3>2, ClaimTypes, GoodTakes
  <2>9. LockedIsHeld'
    BY ZenonT(60), <1>3, <2>5, <2>6 DEF IInv, LockedIsHeld, Locked
  <2> QED
    BY Zenon, <2>5, <2>7, <2>8, <2>9 DEF IInv
<1> QED
  <2>1. CASE \E x \in Range2 \X Range2 :
               /\ CanAggregate(x[1], x[2])
               /\ rows' = [rows EXCEPT ![x[1]] = "locked", ![x[2]] = "locked"]
               /\ Put(p, [prover[p] EXCEPT !.pc = "aggregating", !.range = x[1], !.second = x[2]])
    BY ZenonT(60), <1>3, <2>1 DEF getAndLockProofsToAggregate
  <2> QED
    BY ZenonT(60), <1>2, <2>1 DEF getAndLockProofsToAggregate

\* tryAggregateProofs keeps the invariant.
LEMMA AggregateStep ==
  ASSUME IInv, NEW p \in Prover, tryAggregateProofs(p)
  PROVE  IInv'
<1> DEFINE r == prover[p].range
           s == prover[p].second
           u == Joined(r, s)
<1>0. TypeOK /\ Control /\ prover[p] \in Goroutine /\ GoroutineOK(prover[p], verified)
  BY Zenon, ClaimTypes DEF IInv, Control
<1>1. /\ prover[p].pc = "aggregating" /\ Claimed(prover[p]) = {r, s} /\ r \in Range2 /\ s \in Range2
      /\ r[2] = s[1] - 1
  BY <1>0, ClaimedFacts DEF tryAggregateProofs, GoroutineOK
<1>2. UNCHANGED <<ends, verified, verifiedL1, sender, txs, verifying>> /\ prover[p].pc # "off"
  BY Zenon, <1>1 DEF tryAggregateProofs
<1>3. u \in Range2 /\ u[1] = r[1] /\ u[2] = s[2]
  BY <1>1, AggregatorAssumption DEF Joined, Range2, Batch
<1>4. CASE /\ rows' = Aggregated(r, s)
           /\ Put(p, [Fresh("loop") EXCEPT !.own = TRUE, !.range = u])
           /\ UNCHANGED events
  <2> DEFINE f == Fresh("loop")
             g == [f EXCEPT !.own = TRUE, !.range = u]
  <2>1. prover' = [prover EXCEPT ![p] = g]
    BY Zenon, <1>4 DEF Put
  <2>2. /\ g \in Goroutine /\ g.pc = "loop" /\ g.own /\ g.range = u /\ g.last = 0
    <3>1. f \in Goroutine /\ f.pc = "loop" /\ f.last = 0
      BY Zenon, <1>0, FreshFacts DEF Fresh
    <3> HIDE DEF f, u
    <3> QED
      BY ZenonT(60), <1>3, <3>1 DEF Goroutine
  <2> HIDE DEF g
  <2>3. Claimed(g) = {u}
    BY ZenonT(60), <2>2, ClaimedFacts
  <2>4. GoroutineOK(g, verified)
    BY <1>0, <1>3, <2>2, <2>3, AggregatorAssumption DEF GoroutineOK, TypeOK
  <2>5. /\ prover' \in [Prover -> Goroutine] /\ Control' /\ sent' = sent
        /\ claims'[p] = {u} /\ claims[p] = {r, s}
        /\ \A q \in Prover : q # p => claims'[q] = claims[q]
    BY ZenonT(60), <1>0, <1>1, <1>2, <2>1, <2>2, <2>3, <2>4, ProverMoves
  <2>6. /\ rows' \in [Range2 -> RowState] /\ rows'[u] = "locked"
        /\ \A x \in Range2 : x # u => rows'[x] = IF Within(x, r[1], s[2]) THEN "none" ELSE rows[x]
    BY ZenonT(60), <1>0, <1>3, <1>4 DEF Aggregated, Deleted, TypeOK, RowState
  <2>7. TypeOK'
    BY <1>0, <1>2, <1>4, <2>5, <2>6 DEF TypeOK, Goroutine
  <2>8. events'["cleanup"] = 0 => Good(rows', claims', sent', verified')
    <3> SUFFICES ASSUME events["cleanup"] = 0
                 PROVE  Good(rows', claims', sent, verified)
      BY Zenon, <1>2, <1>4, <2>5
    <3>1. Good(rows, claims, sent, verified)
      BY Zenon DEF IInv
    <3>2. sent \subseteq Range2 /\ \A q \in Prover : claims[q] \subseteq Range2
      BY Zenon, <1>0, ClaimTypes
    <3>3. verified \in Int
      BY Zenon, <1>0, ClaimTypes
    <3>4. RowsJoined(rows, rows', r, s, u) /\ ClaimsJoined(claims, claims', p, r, s, u)
      BY Zenon, <2>5, <2>6 DEF RowsJoined, ClaimsJoined
    <3> HIDE DEF u, r, s
    <3> QED
      BY <1>1, <1>3, <3>1, <3>2, <3>3, <3>4, GoodJoins
  <2>9. LockedIsHeld'
    <3>1. \A x \in {r, s} : Within(x, r[1], s[2])
      BY <1>1, RangeFacts DEF Within
    <3>2. \A x \in Locked' : x = u \/ (x \in Locked /\ x \notin {r, s})
      BY Zenon, <1>1, <2>6, <3>1 DEF Locked
    <3> HIDE DEF u, r, s
    <3> QED
      BY Zenon, <1>4, <2>5, <3>2 DEF IInv, LockedIsHeld
  <2> QED
    BY Zenon, <2>5, <2>7, <2>8, <2>9 DEF IInv
<1>5. CASE /\ Happens("error")
           /\ rows' = [x \in Range2 |-> IF x \in {r, s} THEN Updated(x, "ready")[x] ELSE rows[x]]
           /\ Put(p, Fresh("generate"))
  <2>1. /\ rows' \in [Range2 -> RowState]
        /\ \A x \in Range2 : \/ rows'[x] = rows[x]
                             \/ x \in {r, s} /\ Exists(rows, x) /\ rows'[x] = "ready"
    BY ZenonT(60), <1>0, <1>1, <1>5 DEF Updated, Exists, TypeOK, RowState
  <2>2. Control' /\ prover' \in [Prover -> Goroutine] /\ RowInv'
    BY <1>1, <1>2, <1>5, <2>1, DropStep
  <2>3. events' \in [Event -> Nat]
    BY Zenon, <1>0, <1>5, HappensFacts DEF Event
  <2>4. TypeOK'
    BY Zenon, <1>0, <1>2, <2>1, <2>2, <2>3 DEF TypeOK, Goroutine
  <2> QED
    BY Zenon, <2>2, <2>4 DEF IInv, RowInv
<1> QED
  BY Zenon, <1>4, <1>5 DEF tryAggregateProofs

\* getAndLockBatchToProve keeps the invariant.
LEMMA LockBatchStep ==
  ASSUME IInv, NEW p \in Prover, getAndLockBatchToProve(p)
  PROVE  IInv'
<1>0. TypeOK /\ Control /\ prover[p] \in Goroutine /\ GoroutineOK(prover[p], verified)
  BY Zenon, ClaimTypes DEF IInv, Control
<1>1. prover[p].pc = "generate" /\ Claimed(prover[p]) = {} /\ prover[p].pc # "off"
  BY ZenonT(60), ClaimedFacts DEF getAndLockBatchToProve
<1>2. UNCHANGED <<ends, verified, verifiedL1, sender, txs, verifying, events>>
  BY ZenonT(60) DEF getAndLockBatchToProve
<1>3. CASE Put(p, Fresh("loop")) /\ UNCHANGED rows
  <2>1. Control' /\ prover' \in [Prover -> Goroutine] /\ RowInv'
    BY Zenon, <1>1, <1>2, <1>3, DropStep
  <2>2. TypeOK'
    BY Zenon, <1>0, <1>2, <1>3, <2>1 DEF TypeOK, Goroutine
  <2> QED
    BY Zenon, <2>1, <2>2 DEF IInv, RowInv
<1>4. ASSUME NEW n \in ToProve, rows' = [rows EXCEPT ![<<n, n>>] = "generating"],
             Put(p, [prover[p] EXCEPT !.pc = "proving", !.range = <<n, n>>])
      PROVE  IInv'
  <2> DEFINE r == <<n, n>>
             g == [prover[p] EXCEPT !.pc = "proving", !.range = r]
  <2>0. /\ r \in Range2 /\ r[1] = n /\ r[2] = n /\ n \in Int
        /\ verified < n /\ \A x \in Range2 : Exists(rows, x) => ~Covers(x, n)
    BY AggregatorAssumption DEF ToProve, Range2, Batch, Exists
  <2>1. prover' = [prover EXCEPT ![p] = g] /\ rows' = [rows EXCEPT ![r] = "generating"]
    BY Zenon, <1>4 DEF Put
  <2> HIDE DEF r
  <2>2. g \in Goroutine /\ g.pc = "proving" /\ g.range = r /\ g.last = prover[p].last
    BY ZenonT(60), <1>0, <2>0 DEF Goroutine, ProverPC
  <2> HIDE DEF g
  <2>3. Claimed(g) = {r}
    BY Zenon, <2>2, ClaimedFacts
  <2>4. GoroutineOK(g, verified)
    BY Zenon, <1>0, <2>0, <2>2, <2>3 DEF GoroutineOK
  <2>5. /\ prover' \in [Prover -> Goroutine] /\ Control' /\ sent' = sent
        /\ claims'[p] = {r} /\ claims[p] = {}
        /\ \A q \in Prover : q # p => claims'[q] = claims[q]
    BY ZenonT(60), <1>0, <1>1, <1>2, <2>1, <2>2, <2>3, <2>4, ProverMoves
  <2>6. /\ rows' \in [Range2 -> RowState] /\ rows'[r] = "generating"
        /\ \A x \in Range2 : x # r => rows'[x] = rows[x]
    BY Zenon, <1>0, <2>0, <2>1 DEF TypeOK, RowState
  <2>7. TypeOK'
    BY ZenonT(60), <1>0, <1>2, <2>5, <2>6 DEF TypeOK, Goroutine
  <2>8. events'["cleanup"] = 0 => Good(rows', claims', sent', verified')
    <3> SUFFICES ASSUME events["cleanup"] = 0
                 PROVE  Good(rows', claims', sent, verified)
      BY Zenon, <1>2, <2>5
    <3>1. Good(rows, claims, sent, verified)
      BY Zenon DEF IInv
    <3>2. sent \subseteq Range2 /\ \A q \in Prover : claims[q] \subseteq Range2
      BY Zenon, <1>0, ClaimTypes
    <3>3. verified \in Int
      BY Zenon, <1>0, ClaimTypes
    <3> QED
      BY <2>0, <2>5, <2>6, <3>1, <3>2, <3>3, GoodAdds
  <2>9. LockedIsHeld'
    BY Zenon, <1>2, <2>5, <2>6 DEF IInv, LockedIsHeld, Locked
  <2> QED
    BY Zenon, <2>5, <2>7, <2>8, <2>9 DEF IInv
<1> QED
  BY ZenonT(60), <1>3, <1>4 DEF getAndLockBatchToProve

\* tryGenerateBatchProof keeps the invariant.
LEMMA GenerateStep ==
  ASSUME IInv, NEW p \in Prover, tryGenerateBatchProof(p)
  PROVE  IInv'
<1> DEFINE r == prover[p].range
<1>0. TypeOK /\ Control /\ prover[p] \in Goroutine /\ GoroutineOK(prover[p], verified)
  BY Zenon, ClaimTypes DEF IInv, Control
<1>1. /\ prover[p].pc = "proving" /\ Claimed(prover[p]) = {r} /\ r \in Range2
      /\ prover[p].pc # "off"
  BY Zenon, <1>0, ClaimedFacts DEF tryGenerateBatchProof, GoroutineOK
<1>2. UNCHANGED <<ends, verified, verifiedL1, sender, txs, verifying>>
  BY Zenon DEF tryGenerateBatchProof
<1>3. CASE Put(p, [prover[p] EXCEPT !.pc = "loop", !.own = TRUE]) /\ UNCHANGED <<rows, events>>
  <2> DEFINE g == [prover[p] EXCEPT !.pc = "loop", !.own = TRUE]
  <2>1. prover' = [prover EXCEPT ![p] = g]
    BY Zenon, <1>3 DEF Put
  <2>2. g \in Goroutine /\ g.pc = "loop" /\ g.own /\ g.range = r /\ g.last = prover[p].last
    BY ZenonT(60), <1>0 DEF Goroutine, ProverPC
  <2> HIDE DEF g
  <2>3. Claimed(g) = {r}
    BY Zenon, <2>2, ClaimedFacts
  <2>4. GoroutineOK(g, verified)
    BY Zenon, <1>0, <1>1, <2>2, <2>3 DEF GoroutineOK
  <2>5. Control' /\ prover' \in [Prover -> Goroutine] /\ RowInv'
    BY ZenonT(60), <1>1, <1>2, <1>3, <2>1, <2>2, <2>3, <2>4, KeepsClaims
  <2>6. TypeOK'
    BY Zenon, <1>0, <1>2, <1>3, <2>5 DEF TypeOK, Goroutine
  <2> QED
    BY Zenon, <2>5, <2>6 DEF IInv, RowInv
<1>4. CASE Happens("error") /\ rows' = Deleted(r[1], r[2]) /\ Put(p, Fresh("loop"))
  <2>1. /\ rows' \in [Range2 -> RowState]
        /\ \A x \in Range2 : rows'[x] = rows[x] \/ (rows'[x] = "none" /\ Within(x, r[1], r[2]))
    BY Zenon, <1>0, <1>4 DEF Deleted, TypeOK, RowState
  <2>2. Control' /\ prover' \in [Prover -> Goroutine] /\ RowInv'
    BY ZenonT(60), <1>1, <1>2, <1>4, <2>1, DropStep
  <2>3. events' \in [Event -> Nat]
    BY Zenon, <1>0, <1>4, HappensFacts DEF Event
  <2>4. TypeOK'
    BY Zenon, <1>0, <1>2, <2>1, <2>2, <2>3 DEF TypeOK, Goroutine
  <2> QED
    BY Zenon, <2>2, <2>4 DEF IInv, RowInv
<1> QED
  BY Zenon, <1>3, <1>4 DEF tryGenerateBatchProof

SenderType == [pc : {"idle", "settle", "pending", "syncing"}, range : Range2 \cup {NoRange},
               boot : BOOLEAN]

\* settleDirect keeps the invariant.
LEMMA SettleStep ==
  ASSUME IInv, settleDirect
  PROVE  IInv'
<1> DEFINE r == sender.range
<1>0. TypeOK /\ Control /\ sender \in SenderType
  BY Zenon DEF IInv, TypeOK, SenderType
<1>1. sender.pc = "settle" /\ ~sender.boot /\ r \in Range2 /\ sent = {r}
  BY Zenon, <1>0 DEF settleDirect, Control, sent
<1>2. UNCHANGED <<ends, verified, verifiedL1, prover>> /\ claims' = claims
  BY Zenon DEF settleDirect, claims
<1>3. CASE /\ txs' = [txs EXCEPT ![r] = "sent"]
           /\ sender' = [sender EXCEPT !.pc = "pending"]
           /\ UNCHANGED <<rows, verifying, events>>
  <2>1. sender' \in SenderType /\ sender'.pc = "pending" /\ sender'.range = r /\ ~sender'.boot
    BY Zenon, <1>0, <1>1, <1>3 DEF SenderType
  <2>2. sent' = sent
    BY Zenon, <1>1, <2>1 DEF sent
  <2>3. Control'
    BY Zenon, <1>0, <1>1, <1>2, <2>1 DEF Control
  <2>4. TypeOK'
    BY Zenon, <1>0, <1>1, <1>2, <1>3, <2>1 DEF TypeOK, SenderType
  <2>5. RowInv'
    BY Zenon, <1>2, <1>3, <2>2 DEF IInv, RowInv, LockedIsHeld, Locked
  <2> QED
    BY Zenon, <2>3, <2>4, <2>5 DEF IInv, RowInv
<1>4. CASE /\ UNCHANGED events \/ Happens("error")
           /\ rows' = Updated(r, "ready")
           /\ sender' = Idle /\ verifying' = FALSE /\ UNCHANGED txs
  <2>1. sender' \in SenderType /\ sender'.pc = "idle" /\ ~sender'.boot
    BY Zenon, <1>4 DEF SenderType, Idle
  <2>2. sent' = {}
    BY Zenon, <2>1 DEF sent
  <2>3. Control'
    BY Zenon, <1>0, <1>1, <1>2, <2>1 DEF Control
  <2>4. /\ rows' \in [Range2 -> RowState]
        /\ \A x \in Range2 : \/ rows'[x] = rows[x] /\ x # r
                             \/ x = r /\ Exists(rows, x) /\ rows'[x] = "ready"
                             \/ x = r /\ rows'[x] = rows[x] /\ rows[x] = "none"
    BY ZenonT(60), <1>0, <1>1, <1>4, UpdatedFacts
  <2>5. events' \in [Event -> Nat] /\ (events'["cleanup"] = 0 => events["cleanup"] = 0)
    BY <1>0, <1>4, HappensFacts DEF Event, TypeOK
  <2>6. TypeOK'
    BY ZenonT(60), <1>0, <1>2, <1>4, <2>1, <2>4, <2>5 DEF TypeOK, SenderType
  <2>7. events'["cleanup"] = 0 => Good(rows', claims', sent', verified')
    <3> SUFFICES ASSUME events'["cleanup"] = 0
                 PROVE  Good(rows', claims, {}, verified)
      BY Zenon, <1>2, <2>2
    <3>1. Good(rows, claims, sent, verified)
      BY Zenon, <2>5 DEF IInv
    <3>2. sent \subseteq Range2 /\ \A q \in Prover : claims[q] \subseteq Range2
      BY Zenon, <1>0, ClaimTypes
    <3>3. Overlap(r, r)
      BY Zenon, <1>1, RangeFacts DEF Overlap
    <3>4. \A q \in Prover : r \notin claims[q]
      BY Zenon, <1>1, <3>1, <3>3 DEF Good, Apart
    <3>5. \A x \in Range2 : \/ rows'[x] = rows[x]
                            \/ rows'[x] = "none"
                            \/ Exists(rows, x) /\ x \notin {} /\ \A q \in Prover : x \notin claims[q]
      BY Zenon, <2>4, <3>4
    <3>6. \A q \in Prover : \A x \in claims[q] : Exists(rows, x) => Exists(rows', x)
      BY Zenon, <2>4, <3>2 DEF Exists
    <3>7. verified \in Int
      BY Zenon, <1>0, ClaimTypes
    <3> HIDE DEF r
    <3> QED
      BY <3>1, <3>2, <3>5, <3>6, <3>7, GoodShrinks
  <2>8. LockedIsHeld'
    <3>1. CASE Happens("error")
      BY <3>1, <1>0, HappensFacts DEF LockedIsHeld, Event
    <3>2. CASE UNCHANGED events
      <4>1. \A x \in Locked' : x \in Locked /\ x \notin sent
        BY Zenon, <1>1, <2>4 DEF Locked
      <4> QED
        BY Zenon, <1>2, <3>2, <4>1 DEF IInv, LockedIsHeld
    <3> QED
      BY Zenon, <1>4, <3>1, <3>2
  <2> QED
    BY Zenon, <2>3, <2>6, <2>7, <2>8 DEF IInv
<1> QED
  BY ZenonT(60), <1>3, <1>4 DEF settleDirect

\* An error of settleDirect that leaves the proof locked keeps the invariant.
LEMMA SettleErrorStep ==
  ASSUME IInv, SettleError
  PROVE  IInv'
<1>0. TypeOK /\ Control
  BY Zenon DEF IInv
<1>1. UNCHANGED <<ends, verified, verifiedL1, rows, prover, txs>> /\ claims' = claims
  BY Zenon DEF SettleError, claims
<1>2. /\ sender.pc = "settle" /\ ~sender.boot
      /\ sender' \in SenderType /\ sender'.pc = "idle" /\ ~sender'.boot /\ sent' = {}
  BY Zenon, <1>0 DEF SettleError, Control, SenderType, Idle, sent
<1>3. Control'
  BY ZenonT(60), <1>0, <1>1, <1>2 DEF Control
<1>4. /\ events' \in [Event -> Nat] /\ events'["error"] > 0
      /\ events'["cleanup"] = 0 => events["cleanup"] = 0
  BY <1>0, HappensFacts DEF SettleError, Event, TypeOK
<1>5. TypeOK'
  BY ZenonT(60), <1>0, <1>1, <1>2, <1>4 DEF TypeOK, SenderType, SettleError
<1>6. events'["cleanup"] = 0 => Good(rows', claims', sent', verified')
  <2> SUFFICES ASSUME events'["cleanup"] = 0
               PROVE  Good(rows, claims, {}, verified)
    BY Zenon, <1>1, <1>2
  <2>1. Good(rows, claims, sent, verified)
    BY Zenon, <1>4 DEF IInv
  <2> QED
    BY <1>0, <2>1, ClaimTypes, GoodShrinks
<1>7. LockedIsHeld'
  BY <1>4 DEF LockedIsHeld, Event
<1> QED
  BY Zenon, <1>3, <1>5, <1>6, <1>7 DEF IInv

\* ProcessPendingMonitoredTxs keeps the invariant.
LEMMA ProcessPendingStep ==
  ASSUME IInv, ProcessPendingMonitoredTxs
  PROVE  IInv'
<1>0. TypeOK /\ Control /\ sender \in SenderType
  BY Zenon DEF IInv, TypeOK, SenderType
<1>1. UNCHANGED <<ends, verified, verifiedL1, rows, prover, verifying, events>> /\ claims' = claims
  BY Zenon DEF ProcessPendingMonitoredTxs, claims
<1>2. sender.pc = "pending" /\ sender.range \in Range2
  BY Zenon, <1>0 DEF ProcessPendingMonitoredTxs, Control
<1>3. /\ sender' \in SenderType /\ sender'.pc = "syncing" /\ sender'.range = sender.range
      /\ sender'.boot = sender.boot
  BY Zenon, <1>0 DEF ProcessPendingMonitoredTxs, SenderType
<1>4. sent' = sent
  BY Zenon, <1>2, <1>3 DEF sent
<1>5. Control'
  BY Zenon, <1>0, <1>1, <1>2, <1>3 DEF Control
<1>6. TypeOK'
  BY ZenonT(60), <1>0, <1>1, <1>2, <1>3 DEF TypeOK, SenderType, ProcessPendingMonitoredTxs
<1>7. RowInv'
  BY Zenon, <1>1, <1>4 DEF IInv, RowInv, LockedIsHeld, Locked
<1> QED
  BY Zenon, <1>5, <1>6, <1>7 DEF IInv, RowInv

\* handleMonitoredTxResult keeps the invariant: what it deletes is verified, or
\* it runs at the start, when nobody has a proof in hand.
LEMMA HandleResultStep ==
  ASSUME IInv, handleMonitoredTxResult
  PROVE  IInv'
<1> DEFINE r == sender.range
<1>0. TypeOK /\ Control /\ sender \in SenderType
  BY Zenon DEF IInv, TypeOK, SenderType
<1>1. sender.pc = "syncing" /\ r \in Range2 /\ r[2] <= verified
  BY Zenon, <1>0, RangeFacts DEF handleMonitoredTxResult, Control, Synced, TypeOK
<1>2. UNCHANGED <<ends, verified, verifiedL1, txs, events>>
  BY Zenon DEF handleMonitoredTxResult
<1>3. sender' \in SenderType /\ sender'.pc = "idle" /\ ~sender'.boot /\ sent' = {}
  BY Zenon DEF handleMonitoredTxResult, SenderType, Idle, sent
<1>4. /\ prover' \in [Prover -> Goroutine]
      /\ \A q \in Prover : GoroutineOK(prover'[q], verified) /\ claims'[q] = claims[q]
  <2>1. CASE sender.boot
    <3>1. prover' = [q \in Prover |-> Fresh("loop")]
      BY Zenon, <2>1 DEF handleMonitoredTxResult
    <3>2. \A q \in Prover : prover[q].pc = "off" /\ Claimed(prover[q]) = {}
      BY Zenon, <1>0, <2>1, ClaimedFacts DEF Control
    <3> QED
      BY ZenonT(60), <1>0, <3>1, <3>2, FreshFacts DEF claims
  <2>2. CASE ~sender.boot
    BY Zenon, <1>0, <2>2, ClaimTypes DEF handleMonitoredTxResult, claims, Control, TypeOK, Goroutine
  <2> QED
    BY Zenon, <2>1, <2>2
<1>5. Control'
  BY Zenon, <1>0, <1>2, <1>3, <1>4 DEF Control
<1>6. /\ rows' \in [Range2 -> RowState]
      /\ \A x \in Range2 : \/ rows'[x] = rows[x] /\ ~(x[2] <= r[2])
                           \/ rows'[x] = "none" /\ (x[2] <= verified \/ sender.boot)
  <2>1. rows' = [x \in Range2 |-> IF x[2] <= r[2] \/ (sender.boot /\ x \in Locked)
                                  THEN "none" ELSE rows[x]]
    BY Zenon DEF handleMonitoredTxResult
  <2> HIDE DEF r
  <2> QED
    BY <1>0, <1>1, <2>1, RangeFacts DEF TypeOK, RowState
<1>7. TypeOK'
  BY ZenonT(60), <1>0, <1>2, <1>3, <1>4, <1>6 DEF TypeOK, SenderType, Goroutine, handleMonitoredTxResult
<1>8. events'["cleanup"] = 0 => Good(rows', claims', sent', verified')
  <2> SUFFICES ASSUME events["cleanup"] = 0
               PROVE  Good(rows', claims', {}, verified)
    BY Zenon, <1>2, <1>3
  <2>1. Good(rows, claims, sent, verified)
    BY Zenon DEF IInv
  <2>2. /\ sent \subseteq Range2
        /\ \A q \in Prover : claims[q] \subseteq Range2 /\ claims'[q] \subseteq claims[q]
    BY Zenon, <1>0, <1>4, ClaimTypes
  <2>3. \A x \in Range2 : rows'[x] = rows[x] \/ rows'[x] = "none"
    BY Zenon, <1>6
  <2>4. \A q \in Prover : \A x \in claims'[q] : ~sender.boot
    BY <1>0, <1>4, ClaimTypes, ClaimedFacts DEF Control
  <2>5. \A q \in Prover : \A x \in claims'[q] : Exists(rows, x) => Exists(rows', x) \/ x[2] <= verified
    BY Zenon, <1>6, <2>2, <2>4 DEF Exists
  <2>6. verified \in Int
    BY Zenon, <1>0, ClaimTypes
  <2> QED
    BY <2>1, <2>2, <2>3, <2>5, <2>6, GoodShrinks
<1>9. LockedIsHeld'
  <2>1. CASE sender.boot
    BY <1>0, <1>2, <2>1 DEF Control, LockedIsHeld, Event, TypeOK
  <2>2. CASE ~sender.boot
    <3>1. sent = {r}
      BY Zenon, <1>1, <2>2 DEF sent
    <3>2. \A x \in Locked' : x \in Locked /\ x # r
      BY <1>1, <1>6, RangeFacts DEF Locked
    <3> QED
      BY Zenon, <1>2, <1>4, <3>1, <3>2 DEF IInv, LockedIsHeld
  <2> QED
    BY Zenon, <2>1, <2>2
<1> QED
  BY Zenon, <1>5, <1>7, <1>8, <1>9 DEF IInv

\* cleanupLockedProofs keeps the invariant as long as it deletes no row in hand.
LEMMA CleanupStep ==
  ASSUME IInv, cleanupLockedProofs
  PROVE  IInv'
<1>0. TypeOK /\ Control
  BY Zenon DEF IInv
<1>1. PICK stale \in SUBSET Locked :
        /\ IF stale \cap Held = {} THEN UNCHANGED events ELSE Happens("cleanup")
        /\ rows' = [r \in Range2 |-> IF r \in stale THEN "none" ELSE rows[r]]
  BY Zenon DEF cleanupLockedProofs
<1>2. /\ UNCHANGED <<ends, verified, verifiedL1, prover, sender, txs, verifying>>
      /\ claims' = claims /\ sent' = sent /\ ~sender.boot
  BY Zenon, <1>0 DEF cleanupLockedProofs, claims, sent, TypeOK
<1>3. /\ rows' \in [Range2 -> RowState]
      /\ \A x \in Range2 : rows'[x] = IF x \in stale THEN "none" ELSE rows[x]
  BY Zenon, <1>0, <1>1 DEF TypeOK, RowState
<1>4. Control'
  BY Zenon, <1>0, <1>2 DEF Control
<1>5. CASE stale \cap Held = {} /\ UNCHANGED events
  <2>1. sent \subseteq Held /\ \A q \in Prover : claims[q] \subseteq Held
    <3>1. sent \subseteq Held
      BY Zenon, <1>0, ClaimTypes DEF sent, Held
    <3>2. ASSUME NEW q \in Prover PROVE claims[q] \subseteq Held
      <4>1. claims[q] \subseteq Range2 /\ claims[q] = Claimed(prover[q])
        BY Zenon, <1>0, ClaimTypes
      <4>2. Claimed(prover[q]) \subseteq {prover[q].range, prover[q].second}
        BY Zenon DEF Claimed
      <4> QED
        BY Zenon, <4>1, <4>2 DEF Held
    <3> QED
      BY Zenon, <3>1, <3>2
  <2>2. TypeOK'
    BY ZenonT(60), <1>0, <1>2, <1>3, <1>5 DEF TypeOK
  <2>3. events'["cleanup"] = 0 => Good(rows', claims', sent', verified')
    <3> SUFFICES ASSUME events["cleanup"] = 0
                 PROVE  Good(rows', claims, sent, verified)
      BY Zenon, <1>2, <1>5
    <3>1. Good(rows, claims, sent, verified)
      BY Zenon DEF IInv
    <3>2. sent \subseteq Range2 /\ \A q \in Prover : claims[q] \subseteq Range2
      BY Zenon, <1>0, ClaimTypes
    <3>3. /\ \A x \in sent : Exists(rows, x) => Exists(rows', x)
          /\ \A q \in Prover : \A x \in claims[q] : Exists(rows, x) => Exists(rows', x)
      BY Zenon, <1>3, <1>5, <2>1, <3>2 DEF Exists
    <3>4. verified \in Int
      BY Zenon, <1>0, ClaimTypes
    <3>5. \A x \in Range2 : rows'[x] = rows[x] \/ rows'[x] = "none"
      BY Zenon, <1>3
    <3> QED
      BY <3>1, <3>2, <3>3, <3>4, <3>5, GoodShrinks
  <2>4. LockedIsHeld'
    BY Zenon, <1>2, <1>3, <1>5 DEF IInv, LockedIsHeld, Locked
  <2> QED
    BY Zenon, <1>4, <2>2, <2>3, <2>4 DEF IInv
<1>6. CASE Happens("cleanup")
  <2>1. events' \in [Event -> Nat] /\ events'["cleanup"] > 0
    BY Zenon, <1>0, <1>6, HappensFacts DEF Event
  <2>2. TypeOK'
    BY Zenon, <1>0, <1>2, <1>3, <2>1 DEF TypeOK
  <2>3. LockedIsHeld'
    BY <2>1 DEF LockedIsHeld, Event
  <2> QED
    BY <1>4, <2>1, <2>2, <2>3 DEF IInv
<1> QED
  BY Zenon, <1>1, <1>5, <1>6

\* A restart keeps the invariant: nobody has a proof in hand after it.
LEMMA RestartStep ==
  ASSUME IInv, Restart
  PROVE  IInv'
<1>0. TypeOK /\ Control
  BY Zenon DEF IInv
<1>1. UNCHANGED <<ends, verified, verifiedL1, txs>> /\ verifying' = FALSE
  BY Zenon DEF Restart
<1>2. /\ events' \in [Event -> Nat] /\ events'["restart"] > 0
      /\ events'["cleanup"] = 0 => events["cleanup"] = 0
  BY <1>0, HappensFacts DEF Restart, Event, TypeOK
<1>3. PICK pc \in {"off", "loop"} :
        /\ prover' = [p \in Prover |-> Fresh(pc)]
        /\ rows' \in [Range2 -> RowState]
        /\ \A x \in Range2 : rows'[x] = rows[x] \/ rows'[x] = "none"
        /\ sender' \in SenderType /\ sender'.pc \in {"idle", "pending"}
        /\ sender'.pc = "idle" => ~sender'.boot
        /\ sender'.pc = "pending" => sender'.boot /\ sender'.range \in Range2 /\ pc = "off"
  <2>1. CASE Outstanding = {}
    <3>1. /\ rows' = [r \in Range2 |-> IF r \in Locked THEN "none" ELSE rows[r]]
          /\ prover' = [p \in Prover |-> Fresh("loop")]
          /\ sender' = Idle
      BY Zenon, <2>1 DEF Restart
    <3>2. sender' \in SenderType /\ sender'.pc = "idle" /\ ~sender'.boot
      BY Zenon, <3>1 DEF SenderType, Idle
    <3>3. rows' \in [Range2 -> RowState] /\ \A x \in Range2 : rows'[x] = rows[x] \/ rows'[x] = "none"
      BY Zenon, <1>0, <3>1 DEF TypeOK, RowState
    <3> QED
      BY Zenon, <3>1, <3>2, <3>3
  <2>2. CASE Outstanding # {}
    <3>1. /\ prover' = [p \in Prover |-> Fresh("off")] /\ UNCHANGED rows
          /\ \E r \in Outstanding : sender' = [pc |-> "pending", range |-> r, boot |-> TRUE]
      BY Zenon, <2>2 DEF Restart
    <3>2. sender' \in SenderType /\ sender'.pc = "pending" /\ sender'.boot /\ sender'.range \in Range2
      BY <3>1 DEF SenderType, Outstanding
    <3>3. rows' \in [Range2 -> RowState] /\ \A x \in Range2 : rows'[x] = rows[x] \/ rows'[x] = "none"
      BY Zenon, <1>0, <3>1 DEF TypeOK
    <3> QED
      BY Zenon, <3>1, <3>2, <3>3
  <2> QED
    BY Zenon, <2>1, <2>2
<1>4. /\ prover' \in [Prover -> Goroutine]
      /\ \A q \in Prover : GoroutineOK(prover'[q], verified) /\ claims'[q] = {} /\ prover'[q].pc = pc
  BY Zenon, <1>0, <1>3, FreshFacts DEF claims
<1>5. sent' = {}
  BY Zenon, <1>3 DEF sent
<1>6. Control'
  BY Zenon, <1>0, <1>1, <1>2, <1>3, <1>4 DEF Control
<1>7. TypeOK'
  BY ZenonT(60), <1>0, <1>1, <1>2, <1>3, <1>4 DEF TypeOK, SenderType, Goroutine
<1>8. events'["cleanup"] = 0 => Good(rows', claims', sent', verified')
  <2> SUFFICES ASSUME events'["cleanup"] = 0
               PROVE  Good(rows', claims', {}, verified)
    BY Zenon, <1>1, <1>5
  <2>1. Good(rows, claims, sent, verified)
    BY Zenon, <1>2 DEF IInv
  <2>2. /\ sent \subseteq Range2
        /\ \A q \in Prover : claims[q] \subseteq Range2 /\ claims'[q] \subseteq claims[q]
    BY Zenon, <1>0, <1>4, ClaimTypes
  <2>3. verified \in Int
    BY Zenon, <1>0, ClaimTypes
  <2> QED
    BY <1>3, <1>4, <2>1, <2>2, <2>3, GoodShrinks
<1>9. LockedIsHeld'
  BY <1>2 DEF LockedIsHeld, Event
<1> QED
  BY Zenon, <1>6, <1>7, <1>8, <1>9 DEF IInv

\* L1 and the synchronizer keep the invariant.
LEMMA EnvironmentStep ==
  ASSUME IInv, MineVerification \/ SyncSequence \/ SyncVerified
  PROVE  IInv'
<1>0. TypeOK /\ Control
  BY Zenon DEF IInv
<1>1. UNCHANGED <<rows, prover, sender, events>> /\ claims' = claims /\ sent' = sent
  BY Zenon DEF MineVerification, SyncSequence, SyncVerified, claims, sent
<1>2. TypeOK'
  <2>1. CASE MineVerification
    <3>1. PICK r \in Range2 : verifiedL1' = r[2] /\ txs' = [txs EXCEPT ![r] = "confirmed"]
      BY Zenon, <2>1 DEF MineVerification
    <3>2. r[2] \in 0 .. NBatch
      BY AggregatorAssumption DEF Range2, Batch
    <3> QED
      BY Zenon, <1>0, <1>1, <2>1, <3>1, <3>2 DEF MineVerification, TypeOK
  <2>2. CASE SyncSequence
    BY Zenon, <1>0, <1>1, <2>2 DEF SyncSequence, TypeOK
  <2>3. CASE SyncVerified
    BY Zenon, <1>0, <1>1, <2>3 DEF SyncVerified, TypeOK
  <2> QED
    BY Zenon, <2>1, <2>2, <2>3
<1>3. verified \in Int /\ verified' \in Int /\ verified <= verified'
  BY <1>0 DEF MineVerification, SyncSequence, SyncVerified, TypeOK
<1>4. Control'
  <2>1. \A p \in Prover : prover[p].last \in Int
    BY <1>0 DEF TypeOK
  <2>2. \A p \in Prover : GoroutineOK(prover[p], verified')
    BY <1>0, <1>3, <2>1 DEF Control, GoroutineOK
  <2> QED
    BY Zenon, <1>0, <1>1, <2>2 DEF Control
<1>5. events'["cleanup"] = 0 => Good(rows', claims', sent', verified')
  <2> SUFFICES ASSUME events["cleanup"] = 0
               PROVE  Good(rows, claims, sent, verified')
    BY Zenon, <1>1
  <2>1. Good(rows, claims, sent, verified)
    BY Zenon DEF IInv
  <2> QED
    BY Zenon, <1>0, <1>3, <2>1, ClaimTypes, GoodShrinks
<1>6. LockedIsHeld'
  BY Zenon, <1>1 DEF IInv, LockedIsHeld, Locked
<1> QED
  BY Zenon, <1>2, <1>4, <1>5, <1>6 DEF IInv

\* The invariant holds at the start.
LEMMA InitIInv == Init => IInv
<1> SUFFICES ASSUME Init PROVE IInv
  BY Zenon
<1>1. TypeOK
  <2>1. Fresh("loop") \in Goroutine
    BY AggregatorAssumption DEF Fresh, Goroutine, ProverPC
  <2>2. prover \in [Prover -> Goroutine]
    BY Zenon, <2>1 DEF Init
  <2>3. sender \in SenderType
    BY Zenon DEF Init, SenderType
  <2>4. 0 \in 0 .. NBatch
    BY AggregatorAssumption
  <2>5. /\ ends \subseteq Batch /\ rows \in [Range2 -> RowState] /\ verifying \in BOOLEAN
        /\ txs \in [Range2 -> {"none", "sent", "confirmed", "done"}]
        /\ events \in [Event -> Nat]
    BY ZenonT(60) DEF Init, RowState
  <2> QED
    BY Zenon, <2>2, <2>3, <2>4, <2>5 DEF Init, TypeOK, Goroutine, SenderType
<1>2. /\ \A p \in Prover : prover[p] = Fresh("loop") /\ claims[p] = {} /\ GoroutineOK(prover[p], verified)
      /\ sent = {}
  BY Zenon, <1>1, FreshFacts DEF Init, claims, sent
<1>3. Control
  BY Zenon, <1>2 DEF Control, Init
<1>4. Good(rows, claims, sent, verified)
  BY Zenon, <1>2 DEF Good, NoOverlap, Exists, Owns, Apart, Init
<1>5. LockedIsHeld
  BY Zenon DEF LockedIsHeld, Locked, Init
<1> QED
  BY Zenon, <1>1, <1>3, <1>4, <1>5 DEF IInv

\* Every step keeps the invariant.
LEMMA NextIInv == IInv /\ [Next]_vars => IInv'
<1> SUFFICES ASSUME IInv, [Next]_vars PROVE IInv'
  BY Zenon
<1>1. ASSUME NEW p \in Prover, Channel(p) PROVE IInv'
  BY ZenonT(60), <1>1, CanVerifyStep, SyncUpStep, LockReadyStep, ValidateStep, BuildStep, FinalProofErrorStep,
     LockPairStep, AggregateStep, LockBatchStep, GenerateStep, ReleaseStep DEF Channel
<1>2. CASE sendFinalProof
  BY Zenon, <1>2, SettleStep, SettleErrorStep, ProcessPendingStep, HandleResultStep DEF sendFinalProof
<1>3. CASE UNCHANGED vars
  <2>1. claims' = claims /\ sent' = sent
    BY Zenon, <1>3 DEF vars, claims, sent
  <2> QED
    BY ZenonT(60), <1>3, <2>1 DEF vars, IInv, TypeOK, Control, LockedIsHeld, Locked
<1> QED
  BY Zenon, <1>1, <1>2, <1>3, CleanupStep, RestartStep, EnvironmentStep DEF Next

-----------------------------------------------------------------------------
(* Theorems                                                                *)

\* The inductive invariant: whoever has a proof in hand has its row locked, its
\* batches are in no other row, and nobody else has them in hand.
THEOREM AggregatorInvariant == Spec => []IInv
BY InitIInv, NextIInv, PTL DEF Spec

\* Type correctness, for any number of provers, batches and events.
THEOREM AggregatorTypeCorrect == Spec => []TypeOK
BY AggregatorInvariant, PTL DEF IInv

\* The rows of state.proof never overlap, whatever provers fail and whenever the
\* aggregator restarts, until cleanupLockedProofs deletes a row in use.
THEOREM RowsNeverOverlap == Spec => []RowsDisjoint
<1>1. IInv => RowsDisjoint
  BY Zenon DEF IInv, RowsDisjoint, Disjoint, Good, NoOverlap, Exists
<1> QED
  BY <1>1, AggregatorInvariant, PTL

\* Every row stays, or its batches are verified or in a larger row.
RowsKept ==
  \A x \in Range2 : Exists(rows, x) =>
    \/ Exists(rows', x)
    \/ x[2] <= verified'
    \/ \E y \in Range2 : Exists(rows', y) /\ Within(x, y[1], y[2])

\* Without errors, cleanups and restarts every step keeps the rows.
LEMMA NextKeepsRows ==
  ASSUME IInv, Next, \A e \in Event : events'[e] = 0
  PROVE  RowsKept
<1>0. TypeOK /\ Control
  BY Zenon DEF IInv
<1>1. \A e \in Event : ~Happens(e)
  BY <1>0, HappensFacts
<1>2. ASSUME UNCHANGED rows PROVE RowsKept
  BY Zenon, <1>2 DEF RowsKept, Exists
<1>3. ASSUME NEW p \in Prover, Channel(p) PROVE RowsKept
  <2>1. CASE getAndLockProofReadyToVerify(p)
    BY ZenonT(60), <1>0, <2>1 DEF getAndLockProofReadyToVerify, ReadyToVerify, RowsKept, Exists, TypeOK
  <2>2. CASE validateEligibleFinalProof(p)
    <3>1. prover[p].range \in Range2 /\ prover[p].last <= verified
      BY ZenonT(60), <1>0, <2>2, OwnFacts DEF validateEligibleFinalProof, Control, GoroutineOK
    <3>2. prover[p].last \in Int /\ verified \in Int /\ verified' = verified
      BY <1>0, <2>2 DEF TypeOK, validateEligibleFinalProof
    <3> QED
      BY <2>2, <3>1, <3>2, RangeFacts DEF validateEligibleFinalProof, Deleted, Within, RowsKept, Exists
  <2>3. CASE getAndLockProofsToAggregate(p)
    BY ZenonT(60), <1>0, <2>3 DEF getAndLockProofsToAggregate, RowsKept, Exists, TypeOK
  <2>4. CASE tryAggregateProofs(p)
    <3> DEFINE r == prover[p].range
               s == prover[p].second
    <3>1. rows' = Aggregated(r, s)
      BY Zenon, <1>1, <2>4 DEF tryAggregateProofs, Event
    <3>2. r \in Range2 /\ s \in Range2 /\ r[2] = s[1] - 1
      BY <1>0, <2>4, ClaimedFacts DEF tryAggregateProofs, Control, GoroutineOK
    <3>3. Joined(r, s) \in Range2 /\ Joined(r, s)[1] = r[1] /\ Joined(r, s)[2] = s[2]
      BY <3>2, AggregatorAssumption DEF Joined, Range2, Batch
    <3> HIDE DEF r, s
    <3>4. /\ rows'[Joined(r, s)] = "locked"
          /\ \A x \in Range2 : Within(x, r[1], s[2]) \/ x = Joined(r, s) \/ rows'[x] = rows[x]
      BY Zenon, <3>1, <3>3 DEF Aggregated, Deleted
    <3> QED
      BY Zenon, <3>3, <3>4 DEF RowsKept, Exists
  <2>5. CASE getAndLockBatchToProve(p)
    BY ZenonT(60), <1>0, <2>5 DEF getAndLockBatchToProve, RowsKept, Exists, TypeOK
  <2>6. CASE ReleaseProof(p)
    BY Zenon, <1>0, <2>6 DEF ReleaseProof, Updated, RowsKept, Exists, TypeOK
  <2>7. CASE tryGenerateBatchProof(p)
    BY Zenon, <1>1, <1>2, <2>7 DEF tryGenerateBatchProof, Event
  <2>8. CASE FinalProofError(p)
    BY Zenon, <1>1, <2>8 DEF FinalProofError, Event
  <2> QED
    BY ZenonT(60), <1>2, <1>3, <2>1, <2>2, <2>3, <2>4, <2>5, <2>6, <2>7, <2>8
    DEF Channel, canVerifyProof, waitForSynchronizerToSyncUp, buildFinalProof
<1>4. CASE settleDirect
  BY Zenon, <1>0, <1>4 DEF settleDirect, Updated, RowsKept, Exists, TypeOK
<1>5. CASE SettleError \/ ProcessPendingMonitoredTxs
  BY ZenonT(60), <1>2, <1>5 DEF SettleError, ProcessPendingMonitoredTxs
<1>6. CASE handleMonitoredTxResult
  <2>0. events'["restart"] = 0 /\ events' = events
    BY Zenon, <1>6 DEF Event, handleMonitoredTxResult
  <2>1. ~sender.boot
    BY <1>0, <2>0 DEF Control
  <2>2. sender.range \in Range2 /\ sender.range[2] <= verified /\ verified' = verified
    BY Zenon, <1>0, <1>6, RangeFacts DEF handleMonitoredTxResult, Control, Synced, TypeOK
  <2> QED
    BY <1>0, <1>6, <2>1, <2>2, RangeFacts DEF handleMonitoredTxResult, RowsKept, Exists, TypeOK
<1>7. CASE cleanupLockedProofs
  <2>1. PICK stale \in SUBSET Locked :
          /\ stale \cap Held = {} /\ stale # {} /\ UNCHANGED events
    BY Zenon, <1>1, <1>7 DEF cleanupLockedProofs, Event
  <2>2. \A x \in stale : x \in sent \/ \E p \in Prover : x \in claims[p]
    BY Zenon, <2>1 DEF IInv, LockedIsHeld
  <2>3. \A x \in stale : x \in Range2 /\ x \in Held
    <3>1. \A p \in Prover : claims[p] \subseteq {prover[p].range, prover[p].second}
      BY ZenonT(60), <1>0, ClaimTypes DEF Claimed
    <3>2. sent \subseteq {sender.range}
      BY Zenon DEF sent
    <3> QED
      BY Zenon, <2>1, <2>2, <3>1, <3>2 DEF Held, Locked
  <2> QED
    BY Zenon, <2>1, <2>3
<1>8. CASE Restart
  BY Zenon, <1>1, <1>8 DEF Restart, Event
<1>9. CASE MineVerification \/ SyncSequence \/ SyncVerified
  BY Zenon, <1>2, <1>9 DEF MineVerification, SyncSequence, SyncVerified
<1> QED
  BY Zenon, <1>3, <1>4, <1>5, <1>6, <1>7, <1>8, <1>9 DEF Next, sendFinalProof

\* Without errors no proved batch has to be proved again before it is verified
\* (GetVirtualBatchToProve finds it covered).
THEOREM ProvedBatchesStayProved == Spec => ProvedStaysProved
<1>1. IInv /\ [Next]_vars => [(\A e \in Event : events'[e] = 0) =>
        \A n \in Batch : Covered(n) => Covered(n)' \/ n <= verified']_vars
  <2> SUFFICES ASSUME IInv, Next, \A e \in Event : events'[e] = 0,
                      NEW n \in Batch, Covered(n)
               PROVE  Covered(n)' \/ n <= verified'
    BY Zenon DEF vars
  <2>1. RowsKept
    BY Zenon, NextKeepsRows
  <2>2. PICK x \in Range2 : Exists(rows, x) /\ Covers(x, n)
    BY ZenonT(60) DEF Covered, Exists
  <2>3. n \in Int /\ verified' \in Int
    BY NextIInv, ClaimTypes, AggregatorAssumption DEF IInv, Batch, TypeOK
  <2>4. CASE Exists(rows', x)
    BY Zenon, <2>2, <2>4 DEF Covered, Exists
  <2>5. CASE x[2] <= verified'
    BY <2>2, <2>3, <2>5, RangeFacts DEF Covers
  <2>6. ASSUME NEW y \in Range2, Exists(rows', y), Within(x, y[1], y[2]) PROVE Covered(n)'
    BY <2>2, <2>3, <2>6, RangeFacts DEF Covered, Exists, Covers, Within
  <2> QED
    BY Zenon, <2>1, <2>2, <2>4, <2>5, <2>6 DEF RowsKept
<1> QED
  BY <1>1, AggregatorInvariant, PTL DEF Spec, ProvedStaysProved

-----------------------------------------------------------------------------
(* Verifications                                                           *)

\* Batch n has been verified on L1 by the proof that sendFinalProof, at pc, has
\* in hand or had before: nobody else has a proof of it.
Passed(R, C, S, pc, v, n) ==
  /\ \A x \in Range2 : Exists(R, x) /\ Covers(x, n) => x \in S /\ pc # "settle"
  /\ \A q \in Prover : \A x \in C[q] : ~Covers(x, n)
  /\ n <= v \/ (pc # "settle" /\ \E x \in S : Covers(x, n))

\* The contract accepts the proofs that are made final; a prover that is about
\* to choose one has the last verified batch, or finds none.
Needed ==
  /\ \A p \in Prover : prover[p].pc = "build" => Verifiable(prover[p].range)
  /\ sender.pc = "settle" => Verifiable(sender.range)
  /\ \A p \in Prover : prover[p].pc = "lock" /\ prover[p].last < verifiedL1 =>
       Passed(rows, claims, sent, sender.pc, verified, prover[p].last + 1)

VInv ==
  /\ verified <= verifiedL1
  /\ \A r \in Outstanding : sender.pc = "pending" /\ sender.range = r
  /\ \A r \in Range2 : txs[r] \in {"confirmed", "done"} => r[2] <= verifiedL1
  /\ events["cleanup"] = 0 => Needed

\* Nobody gets a proof of batch n.
NoNew(n) ==
  /\ \A x \in Range2 : Exists(rows', x) /\ ~Exists(rows, x) => ~Covers(x, n)
  /\ \A q \in Prover : \A x \in claims'[q] : x \in claims[q] \/ ~Covers(x, n)

\* A step of one prover that leaves sendFinalProof alone.
LEMMA ProverVerifies ==
  ASSUME IInv, VInv, IInv', NEW p \in Prover,
         \A q \in Prover : q # p => prover'[q] = prover[q],
         UNCHANGED <<verified, verifiedL1, sender, txs>>,
         UNCHANGED events \/ Happens("error"),
         events["cleanup"] = 0 /\ prover'[p].pc = "build" => Verifiable(prover'[p].range),
         prover'[p].pc = "lock" => verifiedL1 <= prover'[p].last,
         \A n \in Int : events["cleanup"] = 0 /\ Passed(rows, claims, sent, sender.pc, verified, n)
                          => NoNew(n)
  PROVE  VInv'
<1>1. events'["cleanup"] = 0 => events["cleanup"] = 0
  BY HappensFacts DEF Event, IInv, TypeOK
<1>2. sent' = sent /\ Outstanding' = Outstanding
  BY Zenon DEF sent, Outstanding
<1>3. ASSUME events["cleanup"] = 0
      PROVE  Needed'
  <2>1. Needed
    BY Zenon, <1>3 DEF VInv
  <2>2. \A q \in Prover : prover'[q].pc = "build" => Verifiable(prover'[q].range)
    BY Zenon, <1>3, <2>1 DEF Needed
  <2>3. sender'.pc = "settle" => Verifiable(sender'.range)
    BY Zenon, <2>1 DEF Needed
  <2>4. ASSUME NEW q \in Prover, prover'[q].pc = "lock", prover'[q].last < verifiedL1'
        PROVE  Passed(rows', claims', sent', sender'.pc, verified', prover'[q].last + 1)
    <3>1. prover'[q].last \in Int /\ verifiedL1 \in Int
      BY DEF IInv, TypeOK
    <3>2. q # p
      BY <1>3, <2>4, <3>1
    <3> DEFINE n == prover'[q].last + 1
    <3>3. n \in Int
      BY <3>1
    <3>4. Passed(rows, claims, sent, sender.pc, verified, n)
      BY Zenon, <2>1, <2>4, <3>2 DEF Needed
    <3> HIDE DEF n
    <3>5. NoNew(n)
      BY Zenon, <1>3, <3>3, <3>4
    <3>6. Passed(rows', claims', sent', sender'.pc, verified', n)
      BY Zenon, <1>2, <3>4, <3>5 DEF Passed, NoNew
    <3> QED
      BY Zenon, <3>6 DEF n
  <2> QED
    BY Zenon, <2>2, <2>3, <2>4 DEF Needed, Verifiable
<1> QED
  BY Zenon, <1>1, <1>2, <1>3 DEF VInv

\* One that takes no proof.
LEMMA ProverLeaves ==
  ASSUME IInv, VInv, IInv', NEW p \in Prover,
         \A q \in Prover : q # p => prover'[q] = prover[q],
         UNCHANGED <<verified, verifiedL1, sender, txs>>,
         UNCHANGED events \/ Happens("error"),
         prover'[p].pc \notin {"build", "lock"}, claims'[p] \subseteq claims[p],
         \A x \in Range2 : Exists(rows', x) => Exists(rows, x)
  PROVE  VInv'
<1>1. \A q \in Prover : q # p => claims'[q] = claims[q]
  BY Zenon DEF claims
<1>2. \A n \in Int : NoNew(n)
  BY Zenon, <1>1 DEF NoNew
<1>3. prover'[p].pc # "build" /\ prover'[p].pc # "lock"
  BY Zenon
<1> QED
  BY Zenon, <1>2, <1>3, ProverVerifies

\* A free row is of no batch that has passed.
LEMMA FreeNotPassed ==
  ASSUME IInv, events["cleanup"] = 0, NEW n, NEW pc, NEW r \in Range2, rows[r] = "ready",
         Passed(rows, claims, sent, pc, verified, n)
  PROVE  ~Covers(r, n)
<1>1. Owns(rows, sent, verified)
  BY Zenon DEF IInv, Good
<1>2. Exists(rows, r)
  BY Zenon DEF Exists
<1> QED
  BY Zenon, <1>1, <1>2 DEF Passed, Owns

\* tryBuildFinalProof returned false.
LEMMA NotBuiltLeaves ==
  ASSUME IInv, NEW p \in Prover, NotBuilt(p), prover[p].pc \in {"loop", "lock", "build"}
  PROVE  /\ \A q \in Prover : q # p => prover'[q] = prover[q]
         /\ prover'[p].pc \notin {"build", "lock"}
         /\ claims'[p] \subseteq claims[p]
<1>0. TypeOK /\ Control /\ prover[p] \in Goroutine
  BY Zenon, ClaimTypes DEF IInv
<1>1. prover \in [Prover -> Goroutine]
  BY Zenon, <1>0 DEF TypeOK, Goroutine
<1>2. claims'[p] = Claimed(prover'[p]) /\ claims[p] = Claimed(prover[p])
  BY Zenon DEF claims
<1>3. CASE prover[p].own
  <2> DEFINE g == [prover[p] EXCEPT !.pc = "release", !.last = 0]
  <2>1. prover' = [prover EXCEPT ![p] = g]
    BY Zenon, <1>3 DEF NotBuilt, Put
  <2>2. g.pc = "release" /\ g.range = prover[p].range
    BY Zenon, <1>0 DEF Goroutine
  <2> HIDE DEF g
  <2>3. Claimed(g) = {prover[p].range} /\ Claimed(prover[p]) = {prover[p].range}
    BY Zenon, <1>0, <1>3, <2>2, ClaimedFacts, OwnFacts
  <2> QED
    BY Zenon, <1>1, <1>2, <2>1, <2>2, <2>3
<1>4. CASE ~prover[p].own
  <2>1. prover' = [prover EXCEPT ![p] = Fresh("aggregate")]
    BY Zenon, <1>0, <1>4 DEF NotBuilt, Put
  <2>2. Claimed(Fresh("aggregate")) = {} /\ Fresh("aggregate").pc = "aggregate"
    BY Zenon, <1>0, FreshFacts
  <2> QED
    BY Zenon, <1>1, <1>2, <2>1, <2>2
<1> QED
  BY Zenon, <1>3, <1>4

\* The prover is at g after the step.
LEMMA MovesTo ==
  ASSUME IInv, NEW p \in Prover, NEW g, prover' = [prover EXCEPT ![p] = g]
  PROVE  /\ \A q \in Prover : q # p => prover'[q] = prover[q]
         /\ prover'[p] = g
         /\ claims'[p] = Claimed(g) /\ claims[p] = Claimed(prover[p])
         /\ \A q \in Prover : q # p => claims'[q] = claims[q]
<1>1. prover \in [Prover -> Goroutine]
  BY Zenon DEF IInv, TypeOK, Goroutine
<1> QED
  BY Zenon, <1>1 DEF claims

\* A prover at "lock" that has a proof of the batch after its last one to choose
\* from has the last verified batch of the contract.
LEMMA LastIsVerified ==
  ASSUME IInv, VInv, events["cleanup"] = 0, NEW p \in Prover, prover[p].pc = "lock",
         ~Passed(rows, claims, sent, sender.pc, verified, prover[p].last + 1)
  PROVE  prover[p].last = verifiedL1
<1>1. ~(prover[p].last < verifiedL1)
  BY Zenon DEF VInv, Needed
<1>2. prover[p].last <= verified /\ verified <= verifiedL1
  BY Zenon DEF IInv, Control, GoroutineOK, VInv
<1>3. prover[p].last \in Int /\ verified \in Int /\ verifiedL1 \in Int
  BY DEF IInv, TypeOK
<1> QED
  BY <1>1, <1>2, <1>3

\* canVerifyProof: the prover goes on, or tries something else.
LEMMA CanVerifyVerifies ==
  ASSUME IInv, VInv, IInv', NEW p \in Prover, canVerifyProof(p)
  PROVE  VInv'
<1>0. /\ prover[p].pc = "loop"
      /\ UNCHANGED <<verified, verifiedL1, rows, sender, txs, events>>
  BY Zenon DEF canVerifyProof
<1>1. CASE Goto(p, "sync")
  <2> DEFINE g == [prover[p] EXCEPT !.pc = "sync"]
  <2>1. prover' = [prover EXCEPT ![p] = g]
    BY Zenon, <1>1 DEF Goto, Put
  <2>2. g.pc = "sync" /\ g.own = prover[p].own /\ g.range = prover[p].range
    BY Zenon, ClaimTypes DEF IInv, Goroutine
  <2> HIDE DEF g
  <2>3. g.pc \notin {"build", "lock"}
    BY <2>2
  <2>4. Claimed(g) = Claimed(prover[p])
    BY Zenon, <1>0, <2>2, ClaimedFacts
  <2>5. /\ prover'[p] = g /\ claims'[p] = Claimed(g) /\ claims[p] = Claimed(prover[p])
        /\ \A q \in Prover : q # p => prover'[q] = prover[q] /\ claims'[q] = claims[q]
    BY Zenon, <2>1, MovesTo
  <2>6. \A x \in Range2 : Exists(rows', x) => Exists(rows, x)
    BY Zenon, <1>0
  <2> QED
    BY Zenon, <1>0, <2>3, <2>4, <2>5, <2>6, ProverLeaves
<1>2. CASE NotBuilt(p)
  BY Zenon, <1>0, <1>2, NotBuiltLeaves, ProverLeaves
<1> QED
  BY Zenon, <1>1, <1>2 DEF canVerifyProof

\* isSynced compares the state with the contract.
LEMMA SyncUpVerifies ==
  ASSUME IInv, VInv, IInv', NEW p \in Prover, waitForSynchronizerToSyncUp(p)
  PROVE  VInv'
<1> DEFINE g == [prover[p] EXCEPT !.pc = "lock", !.last = verified]
<1>0. /\ prover[p].pc = "sync" /\ Synced(0) /\ prover' = [prover EXCEPT ![p] = g]
      /\ UNCHANGED <<verified, verifiedL1, rows, sender, txs, events>>
  BY Zenon DEF waitForSynchronizerToSyncUp, Put
<1>1. g.pc = "lock" /\ g.own = prover[p].own /\ g.range = prover[p].range /\ g.last = verified
  BY Zenon, ClaimTypes DEF IInv, Goroutine
<1> HIDE DEF g
<1>2. verifiedL1 <= g.last
  BY <1>0, <1>1 DEF Synced, IInv, TypeOK
<1>3. Claimed(g) = Claimed(prover[p])
  BY Zenon, <1>0, <1>1, ClaimedFacts
<1>4. /\ prover'[p] = g /\ claims'[p] = Claimed(g) /\ claims[p] = Claimed(prover[p])
      /\ \A q \in Prover : q # p => prover'[q] = prover[q] /\ claims'[q] = claims[q]
  BY Zenon, <1>0, MovesTo
<1>5. \A n \in Int : NoNew(n)
  BY Zenon, <1>0, <1>3, <1>4 DEF NoNew
<1>6. g.pc # "build"
  BY <1>1
<1> QED
  BY Zenon, <1>0, <1>2, <1>4, <1>5, <1>6, ProverVerifies

\* The row that getAndLockProofReadyToVerify finds starts at the batch after the
\* last one verified on the contract.
LEMMA LockReadyVerifies ==
  ASSUME IInv, VInv, IInv', NEW p \in Prover, getAndLockProofReadyToVerify(p)
  PROVE  VInv'
<1>0. prover[p].pc = "lock" /\ UNCHANGED <<verified, verifiedL1, sender, txs, events>>
  BY Zenon DEF getAndLockProofReadyToVerify
<1>1. CASE NotBuilt(p) /\ UNCHANGED rows
  BY Zenon, <1>0, <1>1, NotBuiltLeaves, ProverLeaves
<1>2. ASSUME NEW r \in ReadyToVerify(prover[p].last), rows' = [rows EXCEPT ![r] = "locked"],
             Put(p, [prover[p] EXCEPT !.pc = "build", !.range = r])
      PROVE  VInv'
  <2> DEFINE g == [prover[p] EXCEPT !.pc = "build", !.range = r]
  <2>1. r \in Range2 /\ rows[r] = "ready" /\ r[1] = prover[p].last + 1
    BY Zenon, <1>2 DEF ReadyToVerify
  <2>2. prover' = [prover EXCEPT ![p] = g]
    BY Zenon, <1>2 DEF Put
  <2>3. g.pc = "build" /\ g.range = r
    BY Zenon, ClaimTypes DEF IInv, Goroutine
  <2> HIDE DEF g
  <2>4. Claimed(g) = {r}
    BY Zenon, <2>3, ClaimedFacts
  <2>5. \A x \in Range2 : Exists(rows', x) => Exists(rows, x)
    BY Zenon, <1>2, <2>1 DEF Exists, IInv, TypeOK
  <2>6. ASSUME NEW n \in Int, events["cleanup"] = 0,
               Passed(rows, claims, sent, sender.pc, verified, n)
        PROVE  NoNew(n)
    <3>1. ~Covers(r, n)
      BY Zenon, <2>1, <2>6, FreeNotPassed
    <3>2. /\ prover'[p] = g /\ claims'[p] = Claimed(g) /\ claims[p] = Claimed(prover[p])
          /\ \A q \in Prover : q # p => prover'[q] = prover[q] /\ claims'[q] = claims[q]
      BY Zenon, <2>2, MovesTo
    <3> QED
      BY Zenon, <2>4, <2>5, <3>1, <3>2 DEF NoNew
  <2>7. ASSUME events["cleanup"] = 0
        PROVE  Verifiable(r)
    <3>1. Covers(r, prover[p].last + 1)
      BY <2>1, RangeFacts DEF Covers
    <3>2. prover[p].last = verifiedL1
      BY Zenon, <1>0, <2>1, <2>7, <3>1, FreeNotPassed, LastIsVerified
    <3>3. verifiedL1 \in Int
      BY DEF IInv, TypeOK
    <3> QED
      BY <2>1, <3>2, <3>3, RangeFacts DEF Verifiable
  <2>8. g.pc # "lock"
    BY <2>3
  <2> QED
    BY Zenon, <1>0, <2>2, <2>3, <2>6, <2>7, <2>8, MovesTo, ProverVerifies
<1> QED
  BY Zenon, <1>1, <1>2 DEF getAndLockProofReadyToVerify

\* So does the own proof that validateEligibleFinalProof lets through.
LEMMA ValidateVerifies ==
  ASSUME IInv, VInv, IInv', NEW p \in Prover, validateEligibleFinalProof(p)
  PROVE  VInv'
<1> DEFINE r == prover[p].range
<1>0. /\ prover[p].pc = "lock" /\ prover[p].own
      /\ UNCHANGED <<verified, verifiedL1, sender, txs, events>>
  BY Zenon DEF validateEligibleFinalProof
<1>1. \A x \in Range2 : Exists(rows', x) => Exists(rows, x)
  BY Zenon DEF validateEligibleFinalProof, Deleted, Exists, IInv, TypeOK
<1>2. CASE NotBuilt(p)
  BY Zenon, <1>0, <1>1, <1>2, NotBuiltLeaves, ProverLeaves
<1>3. CASE Covers(r, prover[p].last + 1) /\ Goto(p, "build")
  <2> DEFINE g == [prover[p] EXCEPT !.pc = "build"]
  <2>1. prover' = [prover EXCEPT ![p] = g]
    BY Zenon, <1>3 DEF Goto, Put
  <2>2. g.pc = "build" /\ g.range = r
    BY Zenon, ClaimTypes DEF IInv, Goroutine
  <2> HIDE DEF g
  <2>3. r \in Range2 /\ Claimed(prover[p]) = {r} /\ Claimed(g) = {r}
    BY Zenon, <1>0, <2>2, ClaimedFacts, OwnFacts DEF IInv
  <2>4. \A n \in Int : NoNew(n)
    <3>1. /\ prover'[p] = g /\ claims'[p] = Claimed(g) /\ claims[p] = Claimed(prover[p])
          /\ \A q \in Prover : q # p => prover'[q] = prover[q] /\ claims'[q] = claims[q]
      BY Zenon, <2>1, MovesTo
    <3> QED
      BY Zenon, <1>1, <2>3, <3>1 DEF NoNew
  <2>5. ASSUME events["cleanup"] = 0
        PROVE  Verifiable(r)
    <3>1. r \in claims[p]
      BY Zenon, <2>1, <2>3, MovesTo
    <3> HIDE DEF r
    <3>2. ~Passed(rows, claims, sent, sender.pc, verified, prover[p].last + 1)
      BY Zenon, <1>3, <3>1 DEF Passed
    <3>3. prover[p].last = verifiedL1
      BY Zenon, <1>0, <2>5, <3>2, LastIsVerified
    <3>4. verifiedL1 \in Int
      BY DEF IInv, TypeOK
    <3> QED
      BY <1>3, <2>3, <3>3, <3>4, RangeFacts DEF Verifiable, Covers
  <2>6. g.pc # "lock"
    BY <2>2
  <2> QED
    BY Zenon, <1>0, <2>1, <2>2, <2>4, <2>5, <2>6, MovesTo, ProverVerifies
<1> QED
  BY Zenon, <1>2, <1>3 DEF validateEligibleFinalProof

\* The prover starts over.
LEMMA FreshVerifies ==
  ASSUME IInv, VInv, IInv', NEW p \in Prover, NEW pc \in {"loop", "generate"},
         Put(p, Fresh(pc)), UNCHANGED <<verified, verifiedL1, sender, txs>>,
         UNCHANGED events \/ Happens("error"),
         \A x \in Range2 : Exists(rows', x) => Exists(rows, x)
  PROVE  VInv'
<1> DEFINE g == Fresh(pc)
<1>1. prover' = [prover EXCEPT ![p] = g]
  BY Zenon DEF Put
<1>2. g.pc \notin {"build", "lock"}
  BY DEF Fresh
<1>3. Claimed(g) = {}
  BY Zenon, FreshFacts DEF IInv
<1> HIDE DEF g
<1>4. /\ prover'[p] = g /\ claims'[p] = Claimed(g) /\ claims[p] = Claimed(prover[p])
      /\ \A q \in Prover : q # p => prover'[q] = prover[q] /\ claims'[q] = claims[q]
  BY Zenon, <1>1, MovesTo
<1> QED
  BY Zenon, <1>2, <1>3, <1>4, ProverLeaves

\* The proof in hand is given back.
LEMMA ErrorOrReleaseVerifies ==
  ASSUME IInv, VInv, IInv', NEW p \in Prover, FinalProofError(p) \/ ReleaseProof(p)
  PROVE  VInv'
<1>1. UNCHANGED <<verified, verifiedL1, sender, txs>>
  BY Zenon DEF FinalProofError, ReleaseProof
<1>2. \A x \in Range2 : Exists(rows', x) => Exists(rows, x)
  BY Zenon DEF FinalProofError, ReleaseProof, Updated, Exists, IInv, TypeOK
<1>3. CASE FinalProofError(p)
  BY Zenon, <1>1, <1>2, <1>3, NotBuiltLeaves, ProverLeaves DEF FinalProofError
<1>4. CASE ReleaseProof(p)
  BY Zenon, <1>1, <1>2, <1>4, FreshVerifies DEF ReleaseProof
<1> QED
  BY Zenon, <1>3, <1>4

\* Free rows are locked: none is of a batch that has passed.
LEMMA LockPairVerifies ==
  ASSUME IInv, VInv, IInv', NEW p \in Prover, getAndLockProofsToAggregate(p)
  PROVE  VInv'
<1>0. prover[p].pc = "aggregate" /\ UNCHANGED <<verified, verifiedL1, sender, txs, events>>
  BY Zenon DEF getAndLockProofsToAggregate
<1>1. CASE Goto(p, "generate") /\ UNCHANGED rows
  <2> DEFINE g == [prover[p] EXCEPT !.pc = "generate"]
  <2>1. prover' = [prover EXCEPT ![p] = g]
    BY Zenon, <1>1 DEF Goto, Put
  <2>2. g.pc = "generate"
    BY Zenon, ClaimTypes DEF IInv, Goroutine
  <2> HIDE DEF g
  <2>3. g.pc \notin {"build", "lock"}
    BY <2>2
  <2>4. Claimed(g) = {}
    BY Zenon, <2>2, ClaimedFacts
  <2>5. /\ prover'[p] = g /\ claims'[p] = Claimed(g) /\ claims[p] = Claimed(prover[p])
        /\ \A q \in Prover : q # p => prover'[q] = prover[q] /\ claims'[q] = claims[q]
    BY Zenon, <2>1, MovesTo
  <2>6. \A x \in Range2 : Exists(rows', x) => Exists(rows, x)
    BY Zenon, <1>1
  <2> QED
    BY Zenon, <1>0, <2>3, <2>4, <2>5, <2>6, ProverLeaves
<1>2. ASSUME NEW r \in Range2, NEW s \in Range2, CanAggregate(r, s),
             rows' = [rows EXCEPT ![r] = "locked", ![s] = "locked"],
             Put(p, [prover[p] EXCEPT !.pc = "aggregating", !.range = r, !.second = s])
      PROVE  VInv'
  <2> DEFINE g == [prover[p] EXCEPT !.pc = "aggregating", !.range = r, !.second = s]
  <2>1. rows[r] = "ready" /\ rows[s] = "ready"
    BY Zenon, <1>2 DEF CanAggregate
  <2>2. prover' = [prover EXCEPT ![p] = g]
    BY Zenon, <1>2 DEF Put
  <2>3. g.pc = "aggregating" /\ g.range = r /\ g.second = s
    BY Zenon, ClaimTypes DEF IInv, Goroutine
  <2> HIDE DEF g
  <2>4. Claimed(g) = {r, s}
    BY Zenon, <2>3, ClaimedFacts
  <2>5. \A x \in Range2 : Exists(rows', x) => Exists(rows, x)
    BY Zenon, <1>2, <2>1 DEF Exists, IInv, TypeOK
  <2>6. /\ prover'[p] = g /\ claims'[p] = Claimed(g) /\ claims[p] = Claimed(prover[p])
        /\ \A q \in Prover : q # p => prover'[q] = prover[q] /\ claims'[q] = claims[q]
    BY Zenon, <2>2, MovesTo
  <2>7. ASSUME NEW n \in Int, events["cleanup"] = 0,
               Passed(rows, claims, sent, sender.pc, verified, n)
        PROVE  NoNew(n)
    <3>1. ~Covers(r, n) /\ ~Covers(s, n)
      BY Zenon, <2>1, <2>7, FreeNotPassed
    <3> QED
      BY Zenon, <2>4, <2>5, <2>6, <3>1 DEF NoNew
  <2>8. g.pc # "lock" /\ g.pc # "build"
    BY <2>3
  <2> QED
    BY Zenon, <1>0, <2>6, <2>7, <2>8, ProverVerifies
<1>3. CASE ~(Goto(p, "generate") /\ UNCHANGED rows)
  <2>1. PICK x \in Range2 \X Range2 :
          /\ CanAggregate(x[1], x[2])
          /\ rows' = [rows EXCEPT ![x[1]] = "locked", ![x[2]] = "locked"]
          /\ Put(p, [prover[p] EXCEPT !.pc = "aggregating", !.range = x[1], !.second = x[2]])
    BY ZenonT(60), <1>3 DEF getAndLockProofsToAggregate
  <2>2. x[1] \in Range2 /\ x[2] \in Range2
    BY Zenon, <2>1
  <2> QED
    BY Zenon, <1>2, <2>1, <2>2
<1> QED
  BY Zenon, <1>1, <1>3

\* The aggregated proof is of the batches of the two in hand.
LEMMA AggregateVerifies ==
  ASSUME IInv, VInv, IInv', NEW p \in Prover, tryAggregateProofs(p)
  PROVE  VInv'
<1> DEFINE r == prover[p].range
           s == prover[p].second
           u == Joined(r, s)
<1>1. /\ Claimed(prover[p]) = {r, s} /\ r \in Range2 /\ s \in Range2
      /\ r[2] = s[1] - 1
  <2>1. GoroutineOK(prover[p], verified)
    BY Zenon DEF IInv, Control
  <2> QED
    BY <2>1, ClaimedFacts DEF tryAggregateProofs, GoroutineOK
<1>2. UNCHANGED <<verified, verifiedL1, sender, txs>>
  BY Zenon DEF tryAggregateProofs
<1>3. u \in Range2 /\ u[1] = r[1] /\ u[2] = s[2]
  BY <1>1, AggregatorAssumption DEF Joined, Range2, Batch
<1>4. CASE /\ rows' = Aggregated(r, s)
           /\ Put(p, [Fresh("loop") EXCEPT !.own = TRUE, !.range = u])
           /\ UNCHANGED events
  <2> DEFINE f == Fresh("loop")
             g == [f EXCEPT !.own = TRUE, !.range = u]
  <2>1. prover' = [prover EXCEPT ![p] = g]
    BY Zenon, <1>4 DEF Put
  <2>2. g.pc = "loop" /\ g.own /\ g.range = u
    <3>1. f \in Goroutine /\ f.pc = "loop"
      BY Zenon, FreshFacts DEF IInv
    <3> HIDE DEF f, u
    <3> QED
      BY Zenon, <3>1 DEF Goroutine
  <2> HIDE DEF g
  <2>3. Claimed(g) = {u}
    BY Zenon, <2>2, ClaimedFacts
  <2>4. /\ prover'[p] = g /\ claims'[p] = Claimed(g) /\ claims[p] = Claimed(prover[p])
        /\ \A q \in Prover : q # p => prover'[q] = prover[q] /\ claims'[q] = claims[q]
    BY Zenon, <2>1, MovesTo
  <2>5. \A x \in Range2 : x # u /\ Exists(rows', x) => Exists(rows, x)
    <3> HIDE DEF u
    <3> QED
      BY Zenon, <1>4 DEF Aggregated, Deleted, Exists, IInv, TypeOK, u
  <2>6. ASSUME NEW n \in Int, Passed(rows, claims, sent, sender.pc, verified, n)
        PROVE  NoNew(n)
    <3>1. ~Covers(r, n) /\ ~Covers(s, n)
      <4>1. r \in claims[p] /\ s \in claims[p]
        BY Zenon, <1>1, <2>4
      <4> HIDE DEF r, s
      <4> QED
        BY Zenon, <2>6, <4>1 DEF Passed
    <3>2. ~Covers(u, n)
      BY <1>1, <1>3, <3>1, RangeFacts DEF Covers
    <3> HIDE DEF u
    <3> QED
      BY Zenon, <2>3, <2>4, <2>5, <3>2 DEF NoNew
  <2>7. g.pc # "lock" /\ g.pc # "build"
    BY <2>2
  <2> QED
    BY Zenon, <1>2, <1>4, <2>4, <2>6, <2>7, ProverVerifies
<1>5. CASE /\ Happens("error") /\ Put(p, Fresh("generate"))
           /\ rows' = [x \in Range2 |-> IF x \in {r, s} THEN Updated(x, "ready")[x] ELSE rows[x]]
  <2>1. \A x \in Range2 : Exists(rows', x) => Exists(rows, x)
    BY Zenon, <1>5 DEF Updated, Exists
  <2> QED
    BY Zenon, <1>2, <1>5, <2>1, FreshVerifies
<1> QED
  BY Zenon, <1>4, <1>5 DEF tryAggregateProofs

\* The batch to prove is in no row and not verified: it has not passed.
LEMMA LockBatchVerifies ==
  ASSUME IInv, VInv, IInv', NEW p \in Prover, getAndLockBatchToProve(p)
  PROVE  VInv'
<1>0. UNCHANGED <<verified, verifiedL1, sender, txs, events>>
  BY Zenon DEF getAndLockBatchToProve
<1>1. CASE Put(p, Fresh("loop")) /\ UNCHANGED rows
  BY Zenon, <1>0, <1>1, FreshVerifies
<1>2. ASSUME NEW b \in ToProve, rows' = [rows EXCEPT ![<<b, b>>] = "generating"],
             Put(p, [prover[p] EXCEPT !.pc = "proving", !.range = <<b, b>>])
      PROVE  VInv'
  <2> DEFINE r == <<b, b>>
             g == [prover[p] EXCEPT !.pc = "proving", !.range = r]
  <2>1. prover' = [prover EXCEPT ![p] = g]
    BY Zenon, <1>2 DEF Put
  <2>2. g.pc = "proving" /\ g.range = r
    BY Zenon, ClaimTypes DEF IInv, Goroutine
  <2> HIDE DEF g
  <2>3. Claimed(g) = {r}
    BY Zenon, <2>2, ClaimedFacts
  <2>4. /\ prover'[p] = g /\ claims'[p] = Claimed(g) /\ claims[p] = Claimed(prover[p])
        /\ \A q \in Prover : q # p => prover'[q] = prover[q] /\ claims'[q] = claims[q]
    BY Zenon, <2>1, MovesTo
  <2>5. b \in Int /\ verified < b /\ \A x \in Range2 : Exists(rows, x) => ~Covers(x, b)
    BY <1>2, AggregatorAssumption DEF ToProve, Batch, Exists
  <2>6. \A x \in Range2 : x # r /\ Exists(rows', x) => Exists(rows, x)
    BY Zenon, <1>2 DEF Exists, IInv, TypeOK
  <2>7. ASSUME NEW n \in Int, events["cleanup"] = 0,
               Passed(rows, claims, sent, sender.pc, verified, n)
        PROVE  NoNew(n)
    <3>1. verified \in Int /\ sent \subseteq Range2
      BY Zenon, ClaimTypes DEF IInv
    <3>2. Owns(rows, sent, verified)
      BY Zenon, <2>7 DEF IInv, Good
    <3>3. n # b
      <4>1. ASSUME n = b
            PROVE  FALSE
        <5>1. ~(n <= verified)
          BY <2>5, <3>1, <4>1
        <5>2. PICK x \in sent : Covers(x, n)
          BY Zenon, <2>7, <5>1 DEF Passed
        <5>3. Exists(rows, x) \/ x[2] <= verified
          BY Zenon, <3>2 DEF Owns
        <5>4. ~(x[2] <= verified)
          BY <3>1, <5>1, <5>2, RangeFacts DEF Covers
        <5> QED
          BY Zenon, <2>5, <3>1, <4>1, <5>2, <5>3, <5>4
      <4> QED
        BY Zenon, <4>1
    <3>4. ~Covers(r, n)
      BY <2>5, <3>3 DEF Covers
    <3> HIDE DEF r
    <3> QED
      BY Zenon, <2>3, <2>4, <2>6, <3>4 DEF NoNew
  <2>8. g.pc # "lock" /\ g.pc # "build"
    BY <2>2
  <2> QED
    BY Zenon, <1>0, <2>4, <2>7, <2>8, ProverVerifies
<1> QED
  BY Zenon, <1>1, <1>2 DEF getAndLockBatchToProve

\* The proof of the batch is made, or its row deleted.
LEMMA GenerateVerifies ==
  ASSUME IInv, VInv, IInv', NEW p \in Prover, tryGenerateBatchProof(p)
  PROVE  VInv'
<1>0. prover[p].pc = "proving" /\ UNCHANGED <<verified, verifiedL1, sender, txs>>
  BY Zenon DEF tryGenerateBatchProof
<1>1. \A x \in Range2 : Exists(rows', x) => Exists(rows, x)
  BY Zenon DEF tryGenerateBatchProof, Deleted, Exists
<1>2. CASE Happens("error") /\ Put(p, Fresh("loop"))
  BY Zenon, <1>0, <1>1, <1>2, FreshVerifies
<1>3. CASE UNCHANGED events /\ Put(p, [prover[p] EXCEPT !.pc = "loop", !.own = TRUE])
  <2> DEFINE g == [prover[p] EXCEPT !.pc = "loop", !.own = TRUE]
  <2>1. prover' = [prover EXCEPT ![p] = g]
    BY Zenon, <1>3 DEF Put
  <2>2. g.pc = "loop" /\ g.own /\ g.range = prover[p].range
    BY Zenon, ClaimTypes DEF IInv, Goroutine
  <2> HIDE DEF g
  <2>3. g.pc \notin {"build", "lock"}
    BY <2>2
  <2>4. Claimed(g) = Claimed(prover[p])
    BY Zenon, <1>0, <2>2, ClaimedFacts
  <2>5. /\ prover'[p] = g /\ claims'[p] = Claimed(g) /\ claims[p] = Claimed(prover[p])
        /\ \A q \in Prover : q # p => prover'[q] = prover[q] /\ claims'[q] = claims[q]
    BY Zenon, <2>1, MovesTo
  <2> QED
    BY Zenon, <1>0, <1>1, <1>3, <2>3, <2>4, <2>5, ProverLeaves
<1> QED
  BY Zenon, <1>2, <1>3 DEF tryGenerateBatchProof

\* The transactions of VInv.
TxsOK == /\ \A r \in Outstanding : sender.pc = "pending" /\ sender.range = r
         /\ \A r \in Range2 : txs[r] \in {"confirmed", "done"} => r[2] <= verifiedL1

\* A step that keeps the provers and ends with no proof to settle.
LEMMA SenderVerifies ==
  ASSUME IInv, VInv, TxsOK', UNCHANGED <<prover, verified, verifiedL1>>,
         events'["cleanup"] = 0 => events["cleanup"] = 0,
         sender'.pc # "settle",
         \A n \in Int : events["cleanup"] = 0 /\ Passed(rows, claims, sent, sender.pc, verified, n)
                          => Passed(rows', claims, sent', sender'.pc, verified, n)
  PROVE  VInv'
<1>1. claims' = claims
  BY Zenon DEF claims
<1>2. ASSUME events["cleanup"] = 0
      PROVE  Needed'
  <2>1. Needed
    BY Zenon, <1>2 DEF VInv
  <2>2. \A q \in Prover : prover[q].last + 1 \in Int
    BY DEF IInv, TypeOK
  <2>3. ASSUME NEW q \in Prover, prover[q].pc = "lock", prover[q].last < verifiedL1
        PROVE  Passed(rows', claims, sent', sender'.pc, verified, prover[q].last + 1)
    BY Zenon, <1>2, <2>1, <2>2, <2>3 DEF Needed
  <2> QED
    BY Zenon, <1>1, <2>1, <2>3 DEF Needed, Verifiable
<1> QED
  BY Zenon, <1>2 DEF VInv, TxsOK

\* When a proof is to be settled, the batches that have passed are verified and
\* in no row.
LEMMA SettledPasses ==
  ASSUME NEW R, NEW R2, NEW C, NEW S, NEW S2, NEW pc, NEW v, NEW n,
         Passed(R, C, S, "settle", v, n), \A x \in Range2 : Exists(R2, x) => Exists(R, x)
  PROVE  Passed(R2, C, S2, pc, v, n)
BY Zenon DEF Passed

\* The final proof goes to sendFinalProof, which is idle: no tx is outstanding.
LEMMA BuildVerifies ==
  ASSUME IInv, VInv, NEW p \in Prover, buildFinalProof(p)
  PROVE  VInv'
<1> DEFINE pc == IF prover[p].own THEN "loop" ELSE "aggregate"
<1>0. TypeOK /\ Control
  BY Zenon DEF IInv
<1>1. /\ prover[p].pc = "build" /\ sender.pc = "idle"
      /\ UNCHANGED <<verified, verifiedL1, rows, txs, events>>
  BY Zenon DEF buildFinalProof
<1>2. sender'.pc = "settle" /\ sender'.range = prover[p].range
  BY Zenon, <1>0 DEF buildFinalProof, TypeOK
<1>3. Fresh(pc).pc = pc /\ Claimed(Fresh(pc)) = {}
  BY Zenon, <1>0, FreshFacts
<1>4. pc # "lock" /\ pc # "build"
  BY DEF pc
<1>5. prover' = [prover EXCEPT ![p] = Fresh(pc)]
  BY Zenon DEF buildFinalProof, Put
<1> HIDE DEF pc
<1>6. /\ prover'[p] = Fresh(pc) /\ claims'[p] = {}
      /\ \A q \in Prover : q # p => prover'[q] = prover[q] /\ claims'[q] = claims[q]
  BY Zenon, <1>3, <1>5, MovesTo
<1>7. sent = {} /\ Outstanding = {} /\ Outstanding' = Outstanding
  <2>1. sent = {}
    BY Zenon, <1>1 DEF sent
  <2>2. sender.pc # "pending"
    BY <1>1
  <2>3. Outstanding = {}
    BY Zenon, <2>2 DEF VInv
  <2> QED
    BY Zenon, <1>1, <2>1, <2>3 DEF Outstanding
<1>8. ASSUME events["cleanup"] = 0
      PROVE  Needed'
  <2>1. Needed
    BY Zenon, <1>8 DEF VInv
  <2>2. \A q \in Prover : prover'[q].pc = "build" => Verifiable(prover'[q].range)
    BY Zenon, <1>3, <1>4, <1>6, <2>1 DEF Needed
  <2>3. Verifiable(sender'.range)
    BY Zenon, <1>1, <1>2, <2>1 DEF Needed
  <2>4. ASSUME NEW q \in Prover, prover'[q].pc = "lock", prover'[q].last < verifiedL1
        PROVE  Passed(rows, claims', sent', "settle", verified, prover'[q].last + 1)
    <3>1. q # p
      BY Zenon, <1>3, <1>4, <1>6, <2>4
    <3> DEFINE n == prover'[q].last + 1
    <3>2. Passed(rows, claims, {}, sender.pc, verified, n)
      BY Zenon, <1>6, <1>7, <2>1, <2>4, <3>1 DEF Needed
    <3> HIDE DEF n
    <3>3. Passed(rows, claims', sent', "settle", verified, n)
      BY Zenon, <1>6, <3>2 DEF Passed
    <3> QED
      BY Zenon, <3>3 DEF n
  <2> QED
    BY Zenon, <1>1, <1>2, <2>2, <2>3, <2>4 DEF Needed, Verifiable
<1> QED
  BY Zenon, <1>1, <1>7, <1>8 DEF VInv

\* The proof is sent, or unlocked, or the settlement fails.
LEMMA SettleVerifies ==
  ASSUME IInv, VInv, settleDirect \/ SettleError
  PROVE  VInv'
<1> DEFINE r == sender.range
<1>0. TypeOK /\ Control
  BY Zenon DEF IInv
<1>1. /\ sender.pc = "settle" /\ r \in Range2
      /\ UNCHANGED <<prover, verified, verifiedL1>>
  <2>1. sender.pc = "settle" /\ UNCHANGED <<prover, verified, verifiedL1>>
    BY Zenon DEF settleDirect, SettleError
  <2>2. sender.pc # "idle"
    BY <2>1
  <2> QED
    BY Zenon, <1>0, <2>1, <2>2 DEF Control
<1>2. Outstanding = {}
  <2>1. sender.pc # "pending"
    BY <1>1
  <2> QED
    BY Zenon, <2>1 DEF VInv
<1>3. events'["cleanup"] = 0 => events["cleanup"] = 0
  <2>1. UNCHANGED events \/ Happens("error")
    BY Zenon DEF settleDirect, SettleError
  <2> QED
    BY <1>0, <2>1, HappensFacts DEF Event, TypeOK
<1>4. \A x \in Range2 : Exists(rows', x) => Exists(rows, x)
  <2>1. UNCHANGED rows \/ rows' = Updated(r, "ready")
    BY Zenon DEF settleDirect, SettleError
  <2> HIDE DEF r
  <2> QED
    BY Zenon, <1>0, <2>1 DEF Updated, Exists, TypeOK
<1>5. TxsOK' /\ sender'.pc # "settle"
  <2>1. CASE txs' = [txs EXCEPT ![r] = "sent"] /\ sender' = [sender EXCEPT !.pc = "pending"]
    <3>1. sender'.pc = "pending" /\ sender'.range = r
      BY Zenon, <1>0, <2>1 DEF TypeOK
    <3>2. txs'[r] = "sent" /\ \A x \in Range2 : x # r => txs'[x] = txs[x]
      BY Zenon, <1>0, <1>1, <2>1 DEF TypeOK
    <3>3. \A x \in Outstanding' : x = r
      BY Zenon, <1>2, <3>2 DEF Outstanding
    <3>4. \A x \in Range2 : txs'[x] \in {"confirmed", "done"} => x # r
      BY <3>2
    <3>5. \A x \in Range2 : txs'[x] \in {"confirmed", "done"} => x[2] <= verifiedL1
      BY Zenon, <3>2, <3>4 DEF VInv
    <3>6. sender'.pc # "settle"
      BY <3>1
    <3> QED
      BY Zenon, <1>1, <3>1, <3>3, <3>5, <3>6 DEF TxsOK
  <2>2. CASE sender' = Idle /\ UNCHANGED txs
    <3>1. sender'.pc # "settle" /\ Outstanding' = Outstanding
      BY <2>2 DEF Idle, Outstanding
    <3> QED
      BY Zenon, <1>1, <1>2, <2>2, <3>1 DEF TxsOK, VInv
  <2> QED
    BY Zenon, <2>1, <2>2 DEF settleDirect, SettleError
<1>6. \A n \in Int : Passed(rows, claims, sent, "settle", verified, n)
                     => Passed(rows', claims, sent', sender'.pc, verified, n)
  BY Zenon, <1>4, SettledPasses
<1> QED
  BY Zenon, <1>1, <1>3, <1>5, <1>6, SenderVerifies

\* The tx is done: none is outstanding.
LEMMA ProcessPendingVerifies ==
  ASSUME IInv, VInv, ProcessPendingMonitoredTxs
  PROVE  VInv'
<1> DEFINE r == sender.range
<1>0. TypeOK /\ Control
  BY Zenon DEF IInv
<1>1. /\ sender.pc = "pending" /\ txs[r] = "confirmed" /\ txs' = [txs EXCEPT ![r] = "done"]
      /\ UNCHANGED <<prover, rows, verified, verifiedL1, events>>
  BY Zenon DEF ProcessPendingMonitoredTxs
<1>2. r \in Range2
  <2>1. sender.pc # "idle"
    BY <1>1
  <2> QED
    BY Zenon, <1>0, <2>1 DEF Control
<1>3. sender'.pc = "syncing" /\ sender'.range = r /\ sender'.boot = sender.boot
  BY Zenon, <1>0 DEF ProcessPendingMonitoredTxs, TypeOK
<1>4. sender.pc \notin {"idle", "settle"} /\ sender'.pc \notin {"idle", "settle"}
  BY <1>1, <1>3
<1>5. sent' = sent
  BY Zenon, <1>3, <1>4 DEF sent
<1>6. txs'[r] = "done" /\ \A x \in Range2 : x # r => txs'[x] = txs[x]
  BY Zenon, <1>0, <1>1, <1>2 DEF TypeOK
<1>7. \A x \in Outstanding' : x # r
  BY <1>6 DEF Outstanding
<1>8. Outstanding' = {}
  <2>1. \A x \in Outstanding' : x \in Outstanding
    BY Zenon, <1>6, <1>7 DEF Outstanding
  <2> QED
    BY Zenon, <1>7, <2>1 DEF VInv
<1>9. \A x \in Range2 : txs'[x] \in {"confirmed", "done"} => x[2] <= verifiedL1
  BY Zenon, <1>1, <1>2, <1>6 DEF VInv
<1>10. TxsOK'
  BY Zenon, <1>1, <1>8, <1>9 DEF TxsOK
<1>11. \A n \in Int : Passed(rows, claims, sent, sender.pc, verified, n)
                      => Passed(rows', claims, sent', sender'.pc, verified, n)
  BY Zenon, <1>1, <1>4, <1>5 DEF Passed
<1> QED
  BY Zenon, <1>1, <1>4, <1>10, <1>11, SenderVerifies

\* Provers that start over need nothing.
LEMMA AllFreshVerifies ==
  ASSUME IInv, VInv, TxsOK', UNCHANGED <<verified, verifiedL1>>, sender'.pc # "settle",
         NEW pc \in {"off", "loop"}, prover' = [q \in Prover |-> Fresh(pc)]
  PROVE  VInv'
<1>1. \A q \in Prover : prover'[q].pc = pc
  BY Zenon, FreshFacts DEF IInv
<1>2. \A q \in Prover : prover'[q].pc # "build" /\ prover'[q].pc # "lock"
  BY <1>1
<1>3. Needed'
  BY Zenon, <1>2 DEF Needed
<1> QED
  BY Zenon, <1>3 DEF VInv, TxsOK

\* The batches of the tx are verified, and their rows deleted.
LEMMA HandleResultVerifies ==
  ASSUME IInv, VInv, handleMonitoredTxResult
  PROVE  VInv'
<1> DEFINE r == sender.range
<1>0. TypeOK /\ Control
  BY Zenon DEF IInv
<1>1. sender.pc = "syncing" /\ UNCHANGED <<verified, verifiedL1, txs, events>> /\ sender' = Idle
  BY Zenon DEF handleMonitoredTxResult
<1>2. sender.pc \notin {"idle", "pending"} /\ sender'.pc # "settle"
  BY <1>1 DEF Idle
<1>3. r \in Range2 /\ r[2] <= verified
  <2>1. r \in Range2
    BY Zenon, <1>0, <1>2 DEF Control
  <2> QED
    BY <1>0, <2>1, RangeFacts DEF handleMonitoredTxResult, Synced, TypeOK
<1>4. TxsOK'
  <2>1. Outstanding' = {}
    BY Zenon, <1>1, <1>2 DEF VInv, Outstanding
  <2> QED
    BY Zenon, <1>1, <2>1 DEF TxsOK, VInv
<1>5. CASE sender.boot
  <2>1. prover' = [q \in Prover |-> Fresh("loop")]
    BY Zenon, <1>5 DEF handleMonitoredTxResult
  <2> QED
    BY Zenon, <1>1, <1>2, <1>4, <2>1, AllFreshVerifies
<1>6. CASE ~sender.boot
  <2>1. UNCHANGED prover /\ sent = {r}
    BY Zenon, <1>2, <1>6 DEF handleMonitoredTxResult, sent
  <2>2. \A x \in Range2 : rows'[x] = "none" \/ (rows'[x] = rows[x] /\ ~(x[2] <= r[2]))
    BY Zenon, <1>6 DEF handleMonitoredTxResult
  <2>3. ASSUME NEW n \in Int, Passed(rows, claims, sent, sender.pc, verified, n)
        PROVE  Passed(rows', claims, sent', sender'.pc, verified, n)
    <3>1. n <= verified
      <4>1. n <= verified \/ Covers(r, n)
        BY Zenon, <2>1, <2>3 DEF Passed
      <4> HIDE DEF r
      <4> QED
        BY <1>0, <1>3, <4>1, RangeFacts DEF Covers, TypeOK
    <3>2. \A x \in Range2 : Exists(rows', x) => Exists(rows, x) /\ x # r
      <4>1. r[2] <= r[2]
        BY <1>3, RangeFacts
      <4> HIDE DEF r
      <4> QED
        BY Zenon, <2>2, <4>1 DEF Exists
    <3> QED
      BY Zenon, <2>1, <2>3, <3>1, <3>2 DEF Passed
  <2> QED
    BY Zenon, <1>1, <1>2, <1>4, <2>1, <2>3, SenderVerifies
<1> QED
  BY Zenon, <1>5, <1>6

\* Rows are deleted.
LEMMA CleanupVerifies ==
  ASSUME IInv, VInv, cleanupLockedProofs
  PROVE  VInv'
<1>1. UNCHANGED <<verified, verifiedL1, prover, sender, txs>>
  BY Zenon DEF cleanupLockedProofs
<1>2. \A x \in Range2 : Exists(rows', x) => Exists(rows, x)
  BY Zenon DEF cleanupLockedProofs, Exists
<1>3. events'["cleanup"] = 0 => events["cleanup"] = 0
  <2>1. UNCHANGED events \/ Happens("cleanup")
    BY Zenon DEF cleanupLockedProofs
  <2> QED
    BY <2>1, HappensFacts DEF Event, IInv, TypeOK
<1>4. sent' = sent /\ claims' = claims /\ Outstanding' = Outstanding
  BY Zenon, <1>1 DEF sent, claims, Outstanding
<1>5. ASSUME events["cleanup"] = 0
      PROVE  Needed'
  <2>1. \A n : Passed(rows, claims, sent, sender.pc, verified, n)
                 => Passed(rows', claims', sent', sender'.pc, verified', n)
    BY Zenon, <1>1, <1>2, <1>4 DEF Passed
  <2> QED
    BY Zenon, <1>1, <1>5, <2>1 DEF VInv, Needed, Verifiable
<1> QED
  BY Zenon, <1>1, <1>3, <1>4, <1>5 DEF VInv

\* The tx that is outstanding is waited for.
LEMMA RestartVerifies ==
  ASSUME IInv, VInv, Restart
  PROVE  VInv'
<1>1. UNCHANGED <<verified, verifiedL1, txs>> /\ Outstanding' = Outstanding
  BY Zenon DEF Restart, Outstanding
<1>2. CASE Outstanding = {}
  <2>1. prover' = [p \in Prover |-> Fresh("loop")] /\ sender' = Idle
    BY Zenon, <1>2 DEF Restart
  <2>2. sender'.pc # "settle"
    BY <2>1 DEF Idle
  <2>3. TxsOK'
    BY Zenon, <1>1, <1>2 DEF TxsOK, VInv
  <2> QED
    BY Zenon, <1>1, <2>1, <2>2, <2>3, AllFreshVerifies
<1>3. CASE Outstanding # {}
  <2>1. PICK r \in Outstanding : sender' = [pc |-> "pending", range |-> r, boot |-> TRUE]
    BY Zenon, <1>3 DEF Restart
  <2>2. prover' = [p \in Prover |-> Fresh("off")]
    BY Zenon, <1>3 DEF Restart
  <2>3. sender'.pc = "pending" /\ sender'.range = r
    BY Zenon, <2>1
  <2>4. sender'.pc # "settle"
    BY <2>3
  <2>5. \A x \in Outstanding : x = r
    BY Zenon DEF VInv
  <2>6. TxsOK'
    BY Zenon, <1>1, <2>3, <2>5 DEF TxsOK, VInv
  <2> QED
    BY Zenon, <1>1, <2>2, <2>4, <2>6, AllFreshVerifies
<1> QED
  BY Zenon, <1>2, <1>3

\* The contract verifies the proof that is pending: no prover has made a proof of
\* these batches final, and one that is about to choose finds none.
LEMMA MineVerifies ==
  ASSUME IInv, VInv, MineVerification
  PROVE  VInv'
<1>0. TypeOK /\ Control
  BY Zenon DEF IInv
<1>1. PICK r \in Range2 : /\ txs[r] = "sent" /\ Verifiable(r)
                          /\ verifiedL1' = r[2] /\ txs' = [txs EXCEPT ![r] = "confirmed"]
  BY Zenon DEF MineVerification
<1>2. /\ UNCHANGED <<verified, rows, prover, sender, events>>
      /\ claims' = claims /\ sent' = sent
  BY Zenon DEF MineVerification, claims, sent
<1>3. sender.pc = "pending" /\ sender.range = r
  <2>1. r \in Outstanding
    BY Zenon, <1>1 DEF Outstanding
  <2> QED
    BY Zenon, <2>1 DEF VInv
<1>4. verified \in Int /\ verifiedL1 \in Int /\ r[1] \in Int /\ r[2] \in Int
  BY <1>0, RangeFacts DEF TypeOK
<1>5. verifiedL1 < r[2] /\ r[1] - 1 <= verifiedL1
  BY Zenon, <1>1 DEF Verifiable
<1>6. txs'[r] = "confirmed" /\ \A x \in Range2 : x # r => txs'[x] = txs[x]
  BY Zenon, <1>0, <1>1 DEF TypeOK
<1>7. \A x \in Outstanding' : sender'.pc = "pending" /\ sender'.range = x
  <2>1. \A x \in Outstanding' : x = r \/ x \in Outstanding
    BY Zenon, <1>6 DEF Outstanding
  <2> QED
    BY Zenon, <1>2, <1>3, <2>1 DEF VInv
<1>8. \A x \in Range2 : txs'[x] \in {"confirmed", "done"} => x[2] <= verifiedL1'
  <2>1. ASSUME NEW x \in Range2, x # r, txs'[x] \in {"confirmed", "done"}
        PROVE  x[2] <= verifiedL1
    BY Zenon, <1>6, <2>1 DEF VInv
  <2> QED
    BY <1>1, <1>4, <1>5, <2>1, RangeFacts
<1>9. verified' <= verifiedL1'
  <2>1. verified <= verifiedL1
    BY Zenon DEF VInv
  <2> QED
    BY <1>1, <1>2, <1>4, <1>5, <2>1
<1>10. ASSUME events["cleanup"] = 0
       PROVE  Needed'
  <2>1. CASE sender.boot
    <3>1. \A q \in Prover : prover[q].pc = "off"
      BY Zenon, <1>0, <2>1 DEF Control
    <3>2. \A q \in Prover : prover[q].pc # "build" /\ prover[q].pc # "lock"
      BY <3>1
    <3>3. sender.pc # "settle"
      BY <1>3
    <3> QED
      BY Zenon, <1>2, <3>2, <3>3 DEF Needed
  <2>2. CASE ~sender.boot
    <3>1. sender.pc # "idle" /\ sender.pc # "settle"
      BY <1>3
    <3>2. sent = {r}
      BY Zenon, <1>3, <2>2, <3>1 DEF sent
    <3>3. Good(rows, claims, sent, verified) /\ Needed
      BY Zenon, <1>10 DEF IInv, VInv
    <3>4. \A q \in Prover : \A x \in claims[q] : x \in Range2 /\ ~Overlap(x, r)
      BY Zenon, <1>0, <3>2, <3>3, ClaimTypes DEF Good, Apart
    <3>5. ASSUME NEW q \in Prover, prover[q].pc = "build"
          PROVE  FALSE
      <4>1. prover[q].range \in claims[q]
        <5>1. claims[q] = Claimed(prover[q])
          BY Zenon, <1>0, ClaimTypes
        <5>2. Claimed(prover[q]) = {prover[q].range}
          BY Zenon, <3>5, ClaimedFacts
        <5> QED
          BY Zenon, <5>1, <5>2
      <4>2. Verifiable(prover[q].range)
        BY Zenon, <3>3, <3>5 DEF Needed
      <4> DEFINE x == prover[q].range
      <4>3. x \in Range2 /\ ~Overlap(x, r) /\ Verifiable(x)
        BY Zenon, <3>4, <4>1, <4>2
      <4> HIDE DEF x
      <4> QED
        BY <1>4, <1>5, <4>3, RangeFacts DEF Verifiable, Overlap
    <3>6. ASSUME NEW q \in Prover, prover[q].pc = "lock", prover[q].last < verifiedL1'
          PROVE  Passed(rows, claims, sent, sender.pc, verified, prover[q].last + 1)
      <4>1. CASE prover[q].last < verifiedL1
        BY Zenon, <3>3, <3>6, <4>1 DEF Needed
      <4>2. CASE ~(prover[q].last < verifiedL1)
        <5> DEFINE n == prover[q].last + 1
        <5>1. prover[q].last \in Int
          BY <1>0 DEF TypeOK
        <5>2. n \in Int /\ Covers(r, n)
          BY <1>1, <1>4, <1>5, <3>6, <4>2, <5>1 DEF Covers
        <5> HIDE DEF n
        <5>3. \A x \in Range2 : Covers(x, n) => Overlap(x, r) /\ Overlap(r, x)
          BY <1>4, <5>2, RangeFacts DEF Covers, Overlap
        <5>4. \A x \in Range2 : Exists(rows, x) /\ Covers(x, n) => x \in sent
          BY Zenon, <3>2, <3>3, <5>3 DEF Good, Owns
        <5>5. \A k \in Prover : \A x \in claims[k] : ~Covers(x, n)
          BY Zenon, <3>4, <5>3
        <5>6. Passed(rows, claims, sent, sender.pc, verified, n)
          BY Zenon, <3>1, <3>2, <5>2, <5>4, <5>5 DEF Passed
        <5> QED
          BY Zenon, <5>6 DEF n
      <4> QED
        BY Zenon, <4>1, <4>2
    <3> QED
      BY Zenon, <1>2, <3>1, <3>5, <3>6 DEF Needed
  <2> QED
    BY Zenon, <1>0, <2>1, <2>2 DEF TypeOK
<1> QED
  BY Zenon, <1>2, <1>7, <1>8, <1>9, <1>10 DEF VInv

\* The synchronizer only brings the state up to the contract.
LEMMA SyncVerifies ==
  ASSUME IInv, VInv, SyncSequence \/ SyncVerified \/ UNCHANGED vars
  PROVE  VInv'
<1>1. /\ UNCHANGED <<verifiedL1, rows, prover, sender, txs, events>>
      /\ claims' = claims /\ sent' = sent /\ Outstanding' = Outstanding
  BY Zenon DEF SyncSequence, SyncVerified, vars, claims, sent, Outstanding
<1>2. verified' <= verifiedL1 /\ verified <= verified' /\ verified \in Int /\ verified' \in Int
  BY DEF IInv, VInv, TypeOK, SyncSequence, SyncVerified, vars
<1>3. \A n \in Int : Passed(rows, claims, sent, sender.pc, verified, n)
                     => Passed(rows', claims', sent', sender'.pc, verified', n)
  <2>1. \A n \in Int : n <= verified => n <= verified'
    BY <1>2
  <2> QED
    BY Zenon, <1>1, <2>1 DEF Passed
<1>4. \A q \in Prover : prover[q].last + 1 \in Int
  BY DEF IInv, TypeOK
<1>5. Needed => Needed'
  BY Zenon, <1>1, <1>3, <1>4 DEF Needed, Verifiable
<1> QED
  BY Zenon, <1>1, <1>2, <1>5 DEF VInv

\* No proof is final at the start.
LEMMA InitVInv == Init => VInv
<1> SUFFICES ASSUME Init PROVE VInv
  BY Zenon
<1>1. verified <= verifiedL1
  BY DEF Init
<1>2. \A r \in Range2 : txs[r] \notin {"sent", "confirmed", "done"}
  BY DEF Init
<1>3. Outstanding = {}
  BY Zenon, <1>2 DEF Outstanding
<1>4. Needed
  <2>1. \A p \in Prover : prover[p].pc = "loop"
    BY DEF Init, Fresh
  <2>2. sender.pc # "settle"
    BY DEF Init
  <2>3. \A p \in Prover : prover[p].pc # "build" /\ prover[p].pc # "lock"
    BY <2>1
  <2> QED
    BY Zenon, <2>2, <2>3 DEF Needed
<1> QED
  BY Zenon, <1>1, <1>2, <1>3, <1>4 DEF VInv

\* Every step keeps it.
LEMMA NextVInv == IInv /\ VInv /\ IInv' /\ [Next]_vars => VInv'
<1> SUFFICES ASSUME IInv, VInv, IInv', [Next]_vars PROVE VInv'
  BY Zenon
<1>1. ASSUME NEW p \in Prover, Channel(p) PROVE VInv'
  BY ZenonT(60), <1>1, CanVerifyVerifies, SyncUpVerifies, LockReadyVerifies, ValidateVerifies,
     BuildVerifies, ErrorOrReleaseVerifies, LockPairVerifies, AggregateVerifies,
     LockBatchVerifies, GenerateVerifies DEF Channel
<1>2. CASE sendFinalProof
  BY Zenon, <1>2, SettleVerifies, ProcessPendingVerifies, HandleResultVerifies DEF sendFinalProof
<1> QED
  BY Zenon, <1>1, <1>2, CleanupVerifies, RestartVerifies, MineVerifies, SyncVerifies DEF Next

\* A final proof that reaches sendFinalProof is one the contract accepts and that
\* has not been sent before, whatever verification or restart came between the
\* prover's choice (getAndLockProofReadyToVerify, validateEligibleFinalProof) and
\* settleDirect, until cleanupLockedProofs deletes a row in use.
THEOREM VerificationsAreNeeded == Spec => []VerificationNeeded
<1>1. IInv /\ VInv => VerificationNeeded
  <2> SUFFICES ASSUME IInv, VInv, events["cleanup"] = 0, sender.pc = "settle"
               PROVE  Verifiable(sender.range) /\ txs[sender.range] = "none"
    BY Zenon DEF VerificationNeeded
  <2> DEFINE r == sender.range
  <2>1. sender.pc # "idle" /\ sender.pc # "pending"
    OBVIOUS
  <2>2. r \in Range2 /\ Verifiable(r)
    BY Zenon, <2>1 DEF IInv, Control, VInv, Needed
  <2>3. r \notin Outstanding
    BY Zenon, <2>1 DEF VInv
  <2>4. ~(r[2] <= verifiedL1)
    <3> HIDE DEF r
    <3> QED
      BY <2>2, RangeFacts DEF Verifiable, IInv, TypeOK
  <2>5. txs[r] \notin {"sent", "confirmed", "done"}
    BY Zenon, <2>2, <2>3, <2>4 DEF VInv, Outstanding
  <2>6. txs[r] \in {"none", "sent", "confirmed", "done"}
    BY Zenon, <2>2 DEF IInv, TypeOK
  <2> QED
    BY Zenon, <2>2, <2>5, <2>6
<1>2. Spec => []VInv
  BY InitVInv, NextVInv, AggregatorInvariant, PTL DEF Spec
<1> QED
  BY <1>1, <1>2, AggregatorInvariant, PTL

=============================================================================
