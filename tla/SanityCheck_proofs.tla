------------------------- MODULE SanityCheck_proofs -------------------------
(***************************************************************************)
(* A batch that is closed and checked has been executed again with all of  *)
(* its blocks, for any number of batches, blocks and restarts, until a     *)
(* transaction of storeL2Block is rolled back.                             *)
(***************************************************************************)
EXTENDS SanityCheck, TLAPS

\* A leaf may take the SMT solver up to 30 seconds.
USE SMTT(30)

\* The batches before the sip batch are closed, the later ones do not exist.
Shape == \A n \in Batch : /\ n < sip => ~batch[n].wip
                          /\ n = sip => batch[n].wip /\ ~batch[n].checked
                          /\ n > sip => batch[n] = Absent

\* A check is of a closed batch, or of the sip batch, whose blocks the open
\* transaction that closes it keeps as they are.
ChecksOfClosed ==
  \A c \in checks : /\ \/ c.num < sip
                       \/ c.num = sip /\ storer.pc = "open" /\ storer.closing
                    /\ c.read \in {-1, batch[c.num].blocks}

Verified == \A n \in Batch : batch[n].checked => verified[n] = batch[n].blocks

\* An open transaction was begun with room for what it adds.
Room == storer.pc = "open" => IF storer.closing THEN sip < NBatch ELSE batch[sip].blocks < NBlock

IInv == TypeOK /\ Room /\ (rollbacks = 0 => Shape /\ ChecksOfClosed /\ Verified)

\* The invariant holds at the start.
LEMMA InitIInv == Init => IInv
BY SanityAssumption DEF Init, IInv, TypeOK, Shape, ChecksOfClosed, Verified, Batch, Absent, Room

\* Storing a block of the sip batch keeps the invariant.
LEMMA BeginStoreStep == ASSUME IInv, BeginStore PROVE IInv'
BY DEF IInv, TypeOK, BeginStore, Shape, ChecksOfClosed, Verified, Room

\* Starting to close the sip batch keeps the invariant.
LEMMA BeginCloseStep == ASSUME IInv, BeginCloseSIPBatch PROVE IInv'
<1>1. TypeOK' /\ Room'
  BY SanityAssumption DEF IInv, TypeOK, BeginCloseSIPBatch, Room
<1>2. ASSUME rollbacks = 0 PROVE Shape' /\ Verified'
  BY <1>2 DEF IInv, BeginCloseSIPBatch, Shape, Verified
<1>3. ASSUME rollbacks = 0 PROVE ChecksOfClosed'
  <2> SUFFICES ASSUME NEW c \in checks' PROVE /\ c.num < sip \/ c.num = sip
                                              /\ c.read \in {-1, batch[c.num].blocks}
    BY DEF ChecksOfClosed, BeginCloseSIPBatch
  <2>1. CASE c \in checks
    BY <1>3, <2>1 DEF IInv, ChecksOfClosed
  <2>2. CASE c = [num |-> sip, read |-> -1]
    BY <2>2
  <2> QED
    BY <2>1, <2>2 DEF BeginCloseSIPBatch
<1> QED
  BY <1>1, <1>2, <1>3 DEF IInv, BeginCloseSIPBatch

\* A commit keeps the invariant.
LEMMA CommitStep == ASSUME IInv, Commit PROVE IInv'
<1>0. TypeOK /\ sip \in Batch /\ sip \in Int
  BY SanityAssumption DEF IInv, TypeOK, Batch
<1>1. CASE storer.closing
  <2>1. /\ sip' = sip + 1 /\ sip < NBatch /\ storer' = [pc |-> "idle", closing |-> FALSE]
        /\ UNCHANGED <<verified, checks, rollbacks, restarts>>
    BY <1>1 DEF Commit, IInv, Room
  <2>2. sip + 1 \in Batch
    BY <1>0, <2>1, SanityAssumption DEF Batch
  <2>3. /\ batch' \in [Batch -> [wip : BOOLEAN, checked : BOOLEAN, blocks : 0 .. NBlock]]
        /\ ~batch'[sip].wip /\ batch'[sip].checked = batch[sip].checked
        /\ batch'[sip].blocks = batch[sip].blocks
        /\ batch'[sip + 1] = [wip |-> TRUE, checked |-> FALSE, blocks |-> 1]
        /\ \A n \in Batch \ {sip, sip + 1} : batch'[n] = batch[n]
    <3> DEFINE closed == [batch[sip] EXCEPT !.wip = FALSE]
               new == [wip |-> TRUE, checked |-> FALSE, blocks |-> 1]
    <3>1. /\ closed \in [wip : BOOLEAN, checked : BOOLEAN, blocks : 0 .. NBlock]
          /\ ~closed.wip /\ closed.checked = batch[sip].checked /\ closed.blocks = batch[sip].blocks
      BY Zenon, <1>0 DEF TypeOK
    <3>2. new \in [wip : BOOLEAN, checked : BOOLEAN, blocks : 0 .. NBlock]
      BY SanityAssumption
    <3>3. batch' = [batch EXCEPT ![sip] = closed, ![sip + 1] = new] /\ sip # sip + 1
      BY <1>0, <1>1 DEF Commit
    <3>4. batch \in [Batch -> [wip : BOOLEAN, checked : BOOLEAN, blocks : 0 .. NBlock]]
      BY <1>0 DEF TypeOK
    <3> HIDE DEF closed, new
    <3>5. batch'[sip] = closed /\ batch'[sip + 1] = new
      BY <1>0, <2>2, <3>3, <3>4
    <3>6. batch' \in [Batch -> [wip : BOOLEAN, checked : BOOLEAN, blocks : 0 .. NBlock]]
      BY <1>0, <2>2, <3>1, <3>2, <3>3, <3>4
    <3>7. \A n \in Batch \ {sip, sip + 1} : batch'[n] = batch[n]
      BY <3>3, <3>4
    <3> QED
      BY <3>1, <3>5, <3>6, <3>7 DEF new
  <2>4. TypeOK' /\ Room'
    BY <1>0, <2>1, <2>2, <2>3 DEF TypeOK, Room
  <2>6. \A n \in Batch : n \in Int
    BY DEF Batch
  <2>7. ASSUME rollbacks = 0 PROVE Shape'
    BY <1>0, <2>1, <2>2, <2>3, <2>6, <2>7 DEF IInv, Shape
  <2>8. ASSUME rollbacks = 0 PROVE ChecksOfClosed'
    <3>0. \A c \in checks : c.num \in Batch /\ c.num \in Int
      BY Zenon, <1>0, <2>6 DEF TypeOK
    <3>1. \A c \in checks : c.num \in Batch /\ c.num <= sip
      BY <1>0, <2>8, <3>0 DEF IInv, ChecksOfClosed
    <3>2. \A c \in checks : batch'[c.num].blocks = batch[c.num].blocks /\ c.num < sip + 1
      BY <1>0, <2>3, <3>0, <3>1
    <3> QED
      BY <2>1, <2>8, <3>2 DEF IInv, ChecksOfClosed
  <2>9. ASSUME rollbacks = 0 PROVE Verified'
    BY <1>0, <2>1, <2>3, <2>6, <2>9 DEF IInv, Verified
  <2> QED
    BY <2>1, <2>4, <2>7, <2>8, <2>9 DEF IInv
<1>2. CASE ~storer.closing
  <2>1. /\ batch' = [batch EXCEPT ![sip].blocks = @ + 1] /\ batch[sip].blocks < NBlock
        /\ storer' = [pc |-> "idle", closing |-> FALSE]
        /\ UNCHANGED <<sip, verified, checks, rollbacks, restarts>>
    BY <1>2 DEF Commit, IInv, Room
  <2>2. /\ batch' \in [Batch -> [wip : BOOLEAN, checked : BOOLEAN, blocks : 0 .. NBlock]]
        /\ batch'[sip].wip = batch[sip].wip /\ batch'[sip].checked = batch[sip].checked
        /\ \A n \in Batch \ {sip} : batch'[n] = batch[n]
    BY <1>0, <2>1, SanityAssumption DEF TypeOK
  <2>3. TypeOK' /\ Room'
    BY <1>0, <2>1, <2>2 DEF TypeOK, Room
  <2>4. ASSUME rollbacks = 0 PROVE Shape' /\ Verified'
    BY <1>0, <2>1, <2>2, <2>4 DEF IInv, Shape, Verified
  <2>5. ASSUME rollbacks = 0 PROVE ChecksOfClosed'
    <3>1. \A c \in checks : c.num \in Batch \ {sip} /\ c.num < sip
      BY <1>0, <1>2, <2>5 DEF IInv, ChecksOfClosed, TypeOK
    <3> QED
      BY <2>1, <2>2, <2>5, <3>1 DEF IInv, ChecksOfClosed
  <2> QED
    BY <2>1, <2>3, <2>4, <2>5 DEF IInv
<1> QED
  BY <1>1, <1>2

\* A rollback is counted.
LEMMA RollbackStep == ASSUME IInv, Rollback PROVE IInv'
BY SanityAssumption DEF IInv, Rollback, TypeOK, Room

\* Reading the batch to check keeps the invariant.
LEMMA CheckReadStep == ASSUME IInv, CheckRead PROVE IInv'
<1>0. TypeOK
  BY DEF IInv
<1>1. PICK c \in checks : checks' = (checks \ {c}) \cup {[c EXCEPT !.read = batch[c.num].blocks]}
  BY DEF CheckRead
<1> DEFINE d == [c EXCEPT !.read = batch[c.num].blocks]
<1>2. /\ d \in [num : Batch, read : -1 .. NBlock] /\ d.num = c.num
      /\ d.read = batch[c.num].blocks
  BY <1>0, SanityAssumption DEF TypeOK
<1> HIDE DEF d
<1>3. TypeOK' /\ Room'
  BY <1>0, <1>1, <1>2 DEF CheckRead, TypeOK, IInv, Room, d
<1>4. ASSUME rollbacks = 0 PROVE ChecksOfClosed'
  <2>1. \A e \in checks' : e \in checks \/ e = d
    BY <1>1 DEF d
  <2> QED
    BY <1>2, <1>4, <2>1 DEF CheckRead, IInv, ChecksOfClosed
<1> QED
  BY <1>3, <1>4 DEF IInv, CheckRead, Shape, Verified

\* Setting a batch as checked keeps the invariant: its row is not locked, so the
\* transaction that closed it is over.
LEMMA CheckedStep == ASSUME IInv, UpdateBatchAsChecked PROVE IInv'
<1>0. TypeOK
  BY DEF IInv
<1>1. PICK c \in checks : /\ c.read # -1 /\ ~Locked(c.num)
                          /\ checks' = checks \ {c}
                          /\ batch' = [batch EXCEPT ![c.num].checked = TRUE]
                          /\ verified' = [verified EXCEPT ![c.num] = c.read]
  BY Zenon DEF UpdateBatchAsChecked, readable
<1>2. c.num \in Batch /\ c.read \in 0 .. NBlock
  BY <1>0, <1>1, SanityAssumption DEF TypeOK
<1>3. /\ batch' \in [Batch -> [wip : BOOLEAN, checked : BOOLEAN, blocks : 0 .. NBlock]]
      /\ batch'[c.num].wip = batch[c.num].wip /\ batch'[c.num].blocks = batch[c.num].blocks
      /\ \A n \in Batch \ {c.num} : batch'[n] = batch[n]
      /\ verified' \in [Batch -> 0 .. NBlock] /\ verified'[c.num] = c.read
      /\ \A n \in Batch \ {c.num} : verified'[n] = verified[n]
  BY ZenonT(60), <1>0, <1>1, <1>2 DEF TypeOK
<1>4. /\ UNCHANGED <<storer, sip, rollbacks, restarts>>
      /\ \A n \in Batch : batch'[n].blocks = batch[n].blocks
  BY <1>3 DEF UpdateBatchAsChecked
<1>5. TypeOK' /\ Room'
  BY <1>0, <1>1, <1>3, <1>4 DEF TypeOK, IInv, Room
<1>6. ASSUME rollbacks = 0 PROVE Shape' /\ ChecksOfClosed' /\ Verified'
  <2>1. c.num < sip /\ c.read = batch[c.num].blocks /\ c.num \in Int /\ sip \in Int
    BY <1>0, <1>1, <1>2, <1>6 DEF IInv, ChecksOfClosed, Locked, TypeOK, Batch
  <2>2. Shape'
    BY <1>3, <1>4, <1>6, <2>1 DEF IInv, Shape
  <2>3. ChecksOfClosed'
    BY <1>0, <1>1, <1>4, <1>6 DEF IInv, ChecksOfClosed, TypeOK
  <2>4. Verified'
    BY <1>3, <1>4, <1>6, <2>1 DEF IInv, Verified
  <2> QED
    BY <2>2, <2>3, <2>4
<1> QED
  BY <1>4, <1>5, <1>6 DEF IInv

\* A restart keeps the invariant: it checks closed batches only.
LEMMA RestartStep == ASSUME IInv, Restart PROVE IInv'
<1>0. TypeOK /\ \A n \in checkedAtStart : n \in Batch /\ ~batch[n].wip /\ batch[n].blocks > 0
  BY DEF IInv, checkedAtStart, pendingToCheck
<1>1. PICK S : S = checkedAtStart
  OBVIOUS
<1>2. /\ batch' = [n \in Batch |-> IF n \in S THEN [batch[n] EXCEPT !.checked = TRUE] ELSE batch[n]]
      /\ verified' = [n \in Batch |-> IF n \in S THEN batch[n].blocks ELSE verified[n]]
  BY <1>1 DEF Restart
<1>3. /\ storer' \in [pc : {"idle", "failed"}, closing : BOOLEAN] /\ checks' = {}
      /\ restarts' \in 0 .. MaxRestarts /\ UNCHANGED <<sip, rollbacks>>
  BY <1>0, SanityAssumption DEF Restart, TypeOK
<1>4. /\ batch' \in [Batch -> [wip : BOOLEAN, checked : BOOLEAN, blocks : 0 .. NBlock]]
      /\ verified' \in [Batch -> 0 .. NBlock]
  BY Zenon, <1>0, <1>2 DEF TypeOK
<1>5. TypeOK' /\ Room'
  BY <1>0, <1>3, <1>4 DEF TypeOK, Room
<1>6. ASSUME rollbacks = 0 PROVE Shape' /\ ChecksOfClosed' /\ Verified'
  <2>1. Shape /\ Verified
    BY <1>6 DEF IInv
  <2>2. ASSUME NEW n \in Batch
        PROVE  /\ n < sip => ~batch'[n].wip
               /\ n = sip => batch'[n].wip /\ ~batch'[n].checked
               /\ n > sip => batch'[n] = Absent
               /\ batch'[n].checked => verified'[n] = batch'[n].blocks
    <3>0. n \in Int /\ sip \in Int /\ batch[n] \in [wip : BOOLEAN, checked : BOOLEAN, blocks : 0 .. NBlock]
      BY <1>0 DEF TypeOK, Batch
    <3>1. CASE n \in S
      <4>1. batch'[n] = [batch[n] EXCEPT !.checked = TRUE] /\ verified'[n] = batch[n].blocks
        BY <1>2, <3>1
      <4>2. ~batch[n].wip /\ batch[n].blocks > 0
        BY <1>0, <1>1, <3>1
      <4>3. ~(n = sip) /\ ~(n > sip)
        BY <2>1, <4>2 DEF Shape, Absent
      <4> QED
        BY <3>0, <4>1, <4>2, <4>3
    <3>2. CASE n \notin S
      <4>1. batch'[n] = batch[n] /\ verified'[n] = verified[n]
        BY <1>2, <3>2
      <4> QED
        BY <2>1, <4>1 DEF Shape, Verified
    <3> QED
      BY <3>1, <3>2
  <2> QED
    BY <1>3, <2>2 DEF Shape, ChecksOfClosed, Verified
<1> QED
  BY <1>3, <1>5, <1>6 DEF IInv

\* The inductive invariant: a check that goes on is of a closed batch, or of the
\* sip batch inside the transaction that closes it.
THEOREM SanityInvariant == Spec => []IInv
<1>1. IInv /\ [Next]_vars => IInv'
  <2>1. ASSUME IInv, UNCHANGED vars PROVE IInv'
    BY <2>1 DEF vars, IInv, TypeOK, Room, Shape, ChecksOfClosed, Verified
  <2> QED
    BY <2>1, BeginStoreStep, BeginCloseStep, CommitStep, RollbackStep, CheckReadStep, CheckedStep,
       RestartStep DEF Next
<1> QED
  BY <1>1, InitIInv, PTL DEF Spec

\* Type correctness, for any number of batches, blocks, rollbacks and restarts and
\* in both modes of the check.
THEOREM SanityTypeCorrect == Spec => []TypeOK
BY SanityInvariant, PTL DEF IInv

\* What the sequence sender takes as closed and checked has been executed with all
\* of its blocks, as long as no transaction has been rolled back.
THEOREM CheckedIsVerified == Spec => []CheckedMeansVerifiedUntilRollback
<1>1. IInv => CheckedMeansVerifiedUntilRollback
  BY DEF IInv, Verified, CheckedMeansVerifiedUntilRollback, CheckedMeansVerified
<1> QED
  BY <1>1, SanityInvariant, PTL
=============================================================================
