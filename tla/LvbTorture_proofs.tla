-------------------------- MODULE LvbTorture_proofs --------------------------
(***************************************************************************)
(* Proofs about LvbTorture for every number of ranks and of iterations.    *)
(* IInv says where the ranks are relative to each other (Lockstep), which  *)
(* lock level each of them holds, and that the LVB is the number of        *)
(* iterations written so far; from it the value every rank reads follows.  *)
(***************************************************************************)
EXTENDS LvbTorture, TLAPS

\* Zenon is the prover of a leaf that names none.
USE Zenon

USE ProcsAssumption, IterAssumption, LeftOverAssumption, SignalsAssumption

\* The writer of every iteration is a rank.
LEMMA WriterIsRank ==
    ASSUME NEW i \in Nat
    PROVE  Writer(i) \in Ranks
BY SMT DEF Writer, Ranks

\* The program starts in the invariant: nobody has entered a barrier.
LEMMA InitIInv == LvbInit => IInv
<1> SUFFICES ASSUME LvbInit PROVE IInv
  OBVIOUS
<1>1. LvbTypeOK
  <2>1. lvb \in [be64 : Nat]
    <3>1. PICK v \in LeftOver : lvb = [be64 |-> v]
      BY DEF LvbInit, cpu_to_be64
    <3> QED BY <3>1
  <2>2. l_pc \in [Ranks -> LvbPcs] /\ held \in [Ranks -> Levels]
    BY DEF LvbInit, LvbPcs, Levels
  <2>3. iter \in [Ranks -> 0 .. max_iter] /\ epoch \in [Ranks -> Nat]
    BY SMT DEF LvbInit
  <2> QED BY <2>1, <2>2, <2>3 DEF LvbInit, LvbTypeOK
<1>2. Lockstep
  BY SMT DEF LvbInit, Lockstep, EpochInv, StepInv, Waiting, BeforePrep, BeforeFirst, BeforeSecond
<1>3. RoleInv /\ HeldInv /\ Exclusive
  BY DEF LvbInit, RoleInv, HeldInv, Exclusive, LocksEx, LocksPr, BeforeSecond
<1> QED
  BY <1>1, <1>2, <1>3 DEF LvbInit, IInv, LvbInv

\* No rank is more than one barrier ahead of another.
LEMMA EpochsClose ==
    ASSUME LvbTypeOK, StepInv, NEW r \in Ranks, NEW q \in Ranks
    PROVE  /\ epoch[q] <= epoch[r] + 1
           /\ l_pc[r] \notin Waiting => epoch[q] >= epoch[r]
BY SMT DEF LvbTypeOK, StepInv

\* What a rank finds in the LVB when it compares it is what it expects.
LEMMA CheckSucceeds ==
    ASSUME IInv, cleared, NEW r \in Ranks, l_pc[r] = "check"
    PROVE  be64_to_cpu(lvb) = Expected(r)
<1> DEFINE i == iter[r]
<1>1. i \in Nat /\ i < max_iter /\ epoch[r] = 2 + 2 * i
  BY SMT DEF IInv, LvbTypeOK, Lockstep, EpochInv, RoleInv, BeforeSecond
<1>2. \A q \in Ranks : epoch[q] >= 2 + 2 * i /\ epoch[q] <= 3 + 2 * i
  BY <1>1, EpochsClose, SMT DEF IInv, Lockstep, Waiting, LvbTypeOK
<1>3. be64_to_cpu(lvb) \in Nat
  BY DEF IInv, LvbTypeOK, be64_to_cpu
<1>4. CASE IsWriter(r)
  <2>1. ~Written(i)
    BY <1>1, <1>4, SMT DEF Written, IsWriter
  <2>2. be64_to_cpu(lvb) <= i
    BY <1>1, <2>1, SMT DEF IInv, LvbInv
  <2>3. ASSUME i # 0 PROVE be64_to_cpu(lvb) >= i
    <3>1. i - 1 \in 0 .. max_iter /\ Writer(i - 1) \in Ranks
      BY <1>1, <2>3, WriterIsRank, SMT
    <3>2. Written(i - 1)
      BY <1>1, <1>2, <3>1, SMT DEF Written, IInv, LvbTypeOK
    <3> QED BY <1>1, <3>1, <3>2, SMT DEF IInv, LvbInv
  <2> QED BY <1>1, <1>3, <1>4, <2>2, <2>3, SMT DEF Expected
<1>5. CASE ~IsWriter(r)
  <2> DEFINE w == Writer(i)
  <2>1. w \in Ranks /\ w # r
    BY <1>1, <1>5, WriterIsRank DEF IsWriter
  <2>2. held[w] # "EX"
    <3>1. held[r] = "PR"
      BY <1>5 DEF IInv, HeldInv, LocksPr
    <3> QED BY <2>1, <3>1 DEF IInv, Exclusive
  <2>3. Written(i)
    <3>1. CASE epoch[w] >= 3 + 2 * i
      BY <3>1 DEF Written
    <3>2. CASE epoch[w] = 2 + 2 * i
      <4>1. l_pc[w] \in BeforeSecond /\ iter[w] = i
        BY <1>1, <2>1, <3>2, SMT DEF IInv, LvbTypeOK, Lockstep, EpochInv, LvbPcs, BeforePrep, BeforeFirst, BeforeSecond
      <4>2. IsWriter(w)
        BY <4>1 DEF IsWriter
      <4>3. l_pc[w] \in {"unlock", "u_barrier"}
        BY <2>1, <2>2, <4>1, <4>2 DEF IInv, HeldInv, LocksEx, RoleInv, BeforeSecond
      <4> QED BY <3>2, <4>3 DEF Written
    <3> QED BY <1>1, <1>2, <2>1, <3>1, <3>2, SMT DEF IInv, LvbTypeOK
  <2>4. ~Written(i + 1)
    BY <1>1, <1>2, WriterIsRank, SMT DEF Written, IInv, LvbTypeOK
  <2> QED BY <1>1, <1>3, <1>5, <2>3, <2>4, SMT DEF IInv, LvbInv, Expected
<1> QED BY <1>4, <1>5

\* Every step of a rank keeps the types.
LEMMA StepTypeOK ==
    ASSUME IInv, NEW r \in Ranks, Step(r)
    PROVE  LvbTypeOK'
<1>1. CASE ClearLock(r)
  BY <1>1 DEF ClearLock, LvbGoto, IInv, LvbTypeOK, RoleInv, BeforeSecond, LvbPcs, Levels, Arrive, cpu_to_be64
<1>2. CASE ClearWrite(r)
  <2>1. l_pc' \in [Ranks -> LvbPcs] /\ lvb' \in [be64 : Nat]
    BY <1>2, SMT DEF ClearWrite, LvbGoto, IInv, LvbTypeOK, LvbPcs, cpu_to_be64
  <2>2. cleared' \in BOOLEAN
    BY <1>2 DEF ClearWrite, IInv, LvbTypeOK
  <2> QED BY <1>2, <2>1, <2>2 DEF ClearWrite, IInv, LvbTypeOK
<1>3. CASE ClearUnlock(r)
  BY <1>3 DEF ClearUnlock, LvbGoto, IInv, LvbTypeOK, RoleInv, BeforeSecond, LvbPcs, Levels, Arrive, cpu_to_be64
<1>4. CASE PrepBarrier(r)
  BY <1>4, SMT DEF PrepBarrier, LvbGoto, IInv, LvbTypeOK, RoleInv, BeforeSecond, LvbPcs, Levels, Arrive, cpu_to_be64
<1>5. CASE PrepLeave(r)
  BY <1>5 DEF PrepLeave, LvbGoto, IInv, LvbTypeOK, RoleInv, BeforeSecond, LvbPcs, Levels, Arrive, cpu_to_be64
<1>6. CASE LoopTop(r)
  BY <1>6, SMT DEF LoopTop, LvbGoto, IInv, LvbTypeOK, RoleInv, BeforeSecond, LvbPcs, Levels, Arrive, cpu_to_be64
<1>7. CASE FirstBarrier(r)
  BY <1>7, SMT DEF FirstBarrier, LvbGoto, IInv, LvbTypeOK, RoleInv, BeforeSecond, LvbPcs, Levels, Arrive, cpu_to_be64
<1>8. CASE FirstLeave(r)
  BY <1>8 DEF FirstLeave, LvbGoto, IInv, LvbTypeOK, RoleInv, BeforeSecond, LvbPcs, Levels, Arrive, cpu_to_be64
<1>9. CASE ReaderLock(r)
  BY <1>9 DEF ReaderLock, LvbGoto, IInv, LvbTypeOK, RoleInv, BeforeSecond, LvbPcs, Levels, Arrive, cpu_to_be64
<1>10. CASE WriterLock(r)
  BY <1>10 DEF WriterLock, LvbGoto, IInv, LvbTypeOK, RoleInv, BeforeSecond, LvbPcs, Levels, Arrive, cpu_to_be64
<1>11. CASE CheckLvb(r)
  BY <1>11 DEF CheckLvb, LvbGoto, IInv, LvbTypeOK, RoleInv, BeforeSecond, LvbPcs, Levels, Arrive, cpu_to_be64
<1>12. CASE WriteLvb(r)
  BY <1>12, SMT DEF WriteLvb, LvbGoto, IInv, LvbTypeOK, RoleInv, BeforeSecond, LvbPcs, Levels, Arrive, cpu_to_be64
<1>13. CASE Unlock(r)
  BY <1>13 DEF Unlock, LvbGoto, IInv, LvbTypeOK, RoleInv, BeforeSecond, LvbPcs, Levels, Arrive, cpu_to_be64
<1>14. CASE SecondBarrier(r)
  BY <1>14, SMT DEF SecondBarrier, LvbGoto, IInv, LvbTypeOK, RoleInv, BeforeSecond, LvbPcs, Levels, Arrive, cpu_to_be64
<1>15. CASE SecondLeave(r)
  BY <1>15, SMT DEF SecondLeave, LvbGoto, IInv, LvbTypeOK, RoleInv, BeforeSecond, LvbPcs, Levels, Arrive, cpu_to_be64
<1>16. CASE Destroy(r)
  BY <1>16 DEF Destroy, LvbGoto, IInv, LvbTypeOK, RoleInv, BeforeSecond, LvbPcs, Levels, Arrive, cpu_to_be64
<1> QED
  BY <1>1, <1>2, <1>3, <1>4, <1>5, <1>6, <1>7, <1>8, <1>9, <1>10, <1>11, <1>12, <1>13, <1>14, <1>15, <1>16 DEF Step

\* Every step keeps the barrier count that belongs to the place a rank is at.
LEMMA StepEpochInv ==
    ASSUME IInv, NEW r \in Ranks, Step(r)
    PROVE  EpochInv'
<1>1. CASE ClearLock(r)
  BY <1>1 DEF ClearLock, LvbGoto, IInv, LvbTypeOK, Lockstep, EpochInv, Arrive, BeforePrep, BeforeFirst, BeforeSecond
<1>2. CASE ClearWrite(r)
  BY <1>2 DEF ClearWrite, LvbGoto, IInv, LvbTypeOK, Lockstep, EpochInv, Arrive, BeforePrep, BeforeFirst, BeforeSecond
<1>3. CASE ClearUnlock(r)
  BY <1>3 DEF ClearUnlock, LvbGoto, IInv, LvbTypeOK, Lockstep, EpochInv, Arrive, BeforePrep, BeforeFirst, BeforeSecond
<1>4. CASE PrepBarrier(r)
  BY <1>4, SMT DEF PrepBarrier, LvbGoto, IInv, LvbTypeOK, Lockstep, EpochInv, Arrive, BeforePrep, BeforeFirst, BeforeSecond
<1>5. CASE PrepLeave(r)
  BY <1>5, SMT DEF PrepLeave, LvbGoto, IInv, LvbTypeOK, Lockstep, EpochInv, Arrive, BeforePrep, BeforeFirst, BeforeSecond
<1>6. CASE LoopTop(r)
  BY <1>6, SMT DEF LoopTop, LvbGoto, IInv, LvbTypeOK, Lockstep, EpochInv, Arrive, BeforePrep, BeforeFirst, BeforeSecond
<1>7. CASE FirstBarrier(r)
  BY <1>7, SMT DEF FirstBarrier, LvbGoto, IInv, LvbTypeOK, Lockstep, EpochInv, Arrive, BeforePrep, BeforeFirst, BeforeSecond
<1>8. CASE FirstLeave(r)
  BY <1>8, SMT DEF FirstLeave, LvbGoto, IInv, LvbTypeOK, Lockstep, EpochInv, Arrive, BeforePrep, BeforeFirst, BeforeSecond
<1>9. CASE ReaderLock(r)
  BY <1>9, SMT DEF ReaderLock, LvbGoto, IInv, LvbTypeOK, Lockstep, EpochInv, Arrive, BeforePrep, BeforeFirst, BeforeSecond
<1>10. CASE WriterLock(r)
  BY <1>10, SMT DEF WriterLock, LvbGoto, IInv, LvbTypeOK, Lockstep, EpochInv, Arrive, BeforePrep, BeforeFirst, BeforeSecond
<1>11. CASE CheckLvb(r)
  BY <1>11, SMT DEF CheckLvb, LvbGoto, IInv, LvbTypeOK, Lockstep, EpochInv, Arrive, BeforePrep, BeforeFirst, BeforeSecond
<1>12. CASE WriteLvb(r)
  BY <1>12, SMT DEF WriteLvb, LvbGoto, IInv, LvbTypeOK, Lockstep, EpochInv, Arrive, BeforePrep, BeforeFirst, BeforeSecond
<1>13. CASE Unlock(r)
  BY <1>13 DEF Unlock, LvbGoto, IInv, LvbTypeOK, Lockstep, EpochInv, Arrive, BeforePrep, BeforeFirst, BeforeSecond
<1>14. CASE SecondBarrier(r)
  BY <1>14, SMT DEF SecondBarrier, LvbGoto, IInv, LvbTypeOK, Lockstep, EpochInv, Arrive, BeforePrep, BeforeFirst, BeforeSecond
<1>15. CASE SecondLeave(r)
  BY <1>15, SMT DEF SecondLeave, LvbGoto, IInv, LvbTypeOK, Lockstep, EpochInv, Arrive, BeforePrep, BeforeFirst, BeforeSecond
<1>16. CASE Destroy(r)
  BY <1>16 DEF Destroy, LvbGoto, IInv, LvbTypeOK, Lockstep, EpochInv, Arrive, BeforePrep, BeforeFirst, BeforeSecond
<1> QED
  BY <1>1, <1>2, <1>3, <1>4, <1>5, <1>6, <1>7, <1>8, <1>9, <1>10, <1>11, <1>12, <1>13, <1>14, <1>15, <1>16 DEF Step

\* Every step keeps the ranks within one barrier of each other.
LEMMA StepStepInv ==
    ASSUME IInv, NEW r \in Ranks, Step(r)
    PROVE  StepInv'
<1>1. CASE ClearLock(r)
  BY <1>1 DEF ClearLock, LvbGoto, IInv, LvbTypeOK, Lockstep, StepInv, Arrive, MayLeave, Waiting
<1>2. CASE ClearWrite(r)
  BY <1>2 DEF ClearWrite, LvbGoto, IInv, LvbTypeOK, Lockstep, StepInv, Arrive, MayLeave, Waiting
<1>3. CASE ClearUnlock(r)
  BY <1>3 DEF ClearUnlock, LvbGoto, IInv, LvbTypeOK, Lockstep, StepInv, Arrive, MayLeave, Waiting
<1>4. CASE PrepBarrier(r)
  BY <1>4, SMT DEF PrepBarrier, LvbGoto, IInv, LvbTypeOK, Lockstep, StepInv, Arrive, MayLeave, Waiting
<1>5. CASE PrepLeave(r)
  BY <1>5 DEF PrepLeave, LvbGoto, IInv, LvbTypeOK, Lockstep, StepInv, Arrive, MayLeave, Waiting
<1>6. CASE LoopTop(r)
  BY <1>6, SMT DEF LoopTop, LvbGoto, IInv, LvbTypeOK, Lockstep, StepInv, Arrive, MayLeave, Waiting
<1>7. CASE FirstBarrier(r)
  BY <1>7, SMT DEF FirstBarrier, LvbGoto, IInv, LvbTypeOK, Lockstep, StepInv, Arrive, MayLeave, Waiting
<1>8. CASE FirstLeave(r)
  BY <1>8 DEF FirstLeave, LvbGoto, IInv, LvbTypeOK, Lockstep, StepInv, Arrive, MayLeave, Waiting
<1>9. CASE ReaderLock(r)
  BY <1>9 DEF ReaderLock, LvbGoto, IInv, LvbTypeOK, Lockstep, StepInv, Arrive, MayLeave, Waiting
<1>10. CASE WriterLock(r)
  BY <1>10 DEF WriterLock, LvbGoto, IInv, LvbTypeOK, Lockstep, StepInv, Arrive, MayLeave, Waiting
<1>11. CASE CheckLvb(r)
  BY <1>11, SMT DEF CheckLvb, LvbGoto, IInv, LvbTypeOK, Lockstep, StepInv, Arrive, MayLeave, Waiting
<1>12. CASE WriteLvb(r)
  BY <1>12 DEF WriteLvb, LvbGoto, IInv, LvbTypeOK, Lockstep, StepInv, Arrive, MayLeave, Waiting
<1>13. CASE Unlock(r)
  BY <1>13 DEF Unlock, LvbGoto, IInv, LvbTypeOK, Lockstep, StepInv, Arrive, MayLeave, Waiting
<1>14. CASE SecondBarrier(r)
  BY <1>14, SMT DEF SecondBarrier, LvbGoto, IInv, LvbTypeOK, Lockstep, StepInv, Arrive, MayLeave, Waiting
<1>15. CASE SecondLeave(r)
  BY <1>15 DEF SecondLeave, LvbGoto, IInv, LvbTypeOK, Lockstep, StepInv, Arrive, MayLeave, Waiting
<1>16. CASE Destroy(r)
  BY <1>16 DEF Destroy, LvbGoto, IInv, LvbTypeOK, Lockstep, StepInv, Arrive, MayLeave, Waiting
<1> QED
  BY <1>1, <1>2, <1>3, <1>4, <1>5, <1>6, <1>7, <1>8, <1>9, <1>10, <1>11, <1>12, <1>13, <1>14, <1>15, <1>16 DEF Step

\* Every step keeps writers and readers on their own paths.
LEMMA StepRoleInv ==
    ASSUME IInv, NEW r \in Ranks, Step(r)
    PROVE  RoleInv'
<1>1. CASE ClearLock(r)
  BY <1>1 DEF ClearLock, LvbGoto, IInv, LvbTypeOK, RoleInv, IsWriter, BeforeSecond
<1>2. CASE ClearWrite(r)
  BY <1>2 DEF ClearWrite, LvbGoto, IInv, LvbTypeOK, RoleInv, IsWriter, BeforeSecond
<1>3. CASE ClearUnlock(r)
  BY <1>3 DEF ClearUnlock, LvbGoto, IInv, LvbTypeOK, RoleInv, IsWriter, BeforeSecond
<1>4. CASE PrepBarrier(r)
  BY <1>4 DEF PrepBarrier, LvbGoto, IInv, LvbTypeOK, RoleInv, IsWriter, BeforeSecond
<1>5. CASE PrepLeave(r)
  BY <1>5 DEF PrepLeave, LvbGoto, IInv, LvbTypeOK, RoleInv, IsWriter, BeforeSecond
<1>6. CASE LoopTop(r)
  BY <1>6, SMT DEF LoopTop, LvbGoto, IInv, LvbTypeOK, RoleInv, IsWriter, BeforeSecond
<1>7. CASE FirstBarrier(r)
  BY <1>7 DEF FirstBarrier, LvbGoto, IInv, LvbTypeOK, RoleInv, IsWriter, BeforeSecond
<1>8. CASE FirstLeave(r)
  BY <1>8 DEF FirstLeave, LvbGoto, IInv, LvbTypeOK, RoleInv, IsWriter, BeforeSecond
<1>9. CASE ReaderLock(r)
  BY <1>9 DEF ReaderLock, LvbGoto, IInv, LvbTypeOK, RoleInv, IsWriter, BeforeSecond
<1>10. CASE WriterLock(r)
  BY <1>10 DEF WriterLock, LvbGoto, IInv, LvbTypeOK, RoleInv, IsWriter, BeforeSecond
<1>11. CASE CheckLvb(r)
  BY <1>11, SMT DEF CheckLvb, LvbGoto, IInv, LvbTypeOK, RoleInv, IsWriter, BeforeSecond
<1>12. CASE WriteLvb(r)
  BY <1>12 DEF WriteLvb, LvbGoto, IInv, LvbTypeOK, RoleInv, IsWriter, BeforeSecond
<1>13. CASE Unlock(r)
  BY <1>13 DEF Unlock, LvbGoto, IInv, LvbTypeOK, RoleInv, IsWriter, BeforeSecond
<1>14. CASE SecondBarrier(r)
  BY <1>14 DEF SecondBarrier, LvbGoto, IInv, LvbTypeOK, RoleInv, IsWriter, BeforeSecond
<1>15. CASE SecondLeave(r)
  BY <1>15 DEF SecondLeave, LvbGoto, IInv, LvbTypeOK, RoleInv, IsWriter, BeforeSecond
<1>16. CASE Destroy(r)
  BY <1>16 DEF Destroy, LvbGoto, IInv, LvbTypeOK, RoleInv, IsWriter, BeforeSecond
<1> QED
  BY <1>1, <1>2, <1>3, <1>4, <1>5, <1>6, <1>7, <1>8, <1>9, <1>10, <1>11, <1>12, <1>13, <1>14, <1>15, <1>16 DEF Step

\* Every step changes the lock level together with the place.
LEMMA StepHeldInv ==
    ASSUME IInv, NEW r \in Ranks, Step(r)
    PROVE  HeldInv'
<1>1. CASE ClearLock(r)
  BY <1>1 DEF ClearLock, LvbGoto, IInv, LvbTypeOK, RoleInv, HeldInv, LocksEx, LocksPr, IsWriter, Levels
<1>2. CASE ClearWrite(r)
  BY <1>2 DEF ClearWrite, LvbGoto, IInv, LvbTypeOK, RoleInv, HeldInv, LocksEx, LocksPr, IsWriter, Levels
<1>3. CASE ClearUnlock(r)
  BY <1>3, SMT DEF ClearUnlock, LvbGoto, IInv, LvbTypeOK, RoleInv, HeldInv, LocksEx, LocksPr, IsWriter, Levels
<1>4. CASE PrepBarrier(r)
  BY <1>4 DEF PrepBarrier, LvbGoto, IInv, LvbTypeOK, RoleInv, HeldInv, LocksEx, LocksPr, IsWriter, Levels
<1>5. CASE PrepLeave(r)
  BY <1>5 DEF PrepLeave, LvbGoto, IInv, LvbTypeOK, RoleInv, HeldInv, LocksEx, LocksPr, IsWriter, Levels
<1>6. CASE LoopTop(r)
  BY <1>6, SMT DEF LoopTop, LvbGoto, IInv, LvbTypeOK, RoleInv, HeldInv, LocksEx, LocksPr, IsWriter, Levels
<1>7. CASE FirstBarrier(r)
  BY <1>7 DEF FirstBarrier, LvbGoto, IInv, LvbTypeOK, RoleInv, HeldInv, LocksEx, LocksPr, IsWriter, Levels
<1>8. CASE FirstLeave(r)
  BY <1>8 DEF FirstLeave, LvbGoto, IInv, LvbTypeOK, RoleInv, HeldInv, LocksEx, LocksPr, IsWriter, Levels
<1>9. CASE ReaderLock(r)
  BY <1>9, SMT DEF ReaderLock, LvbGoto, IInv, LvbTypeOK, RoleInv, HeldInv, LocksEx, LocksPr, IsWriter, Levels
<1>10. CASE WriterLock(r)
  BY <1>10 DEF WriterLock, LvbGoto, IInv, LvbTypeOK, RoleInv, HeldInv, LocksEx, LocksPr, IsWriter, Levels
<1>11. CASE CheckLvb(r)
  BY <1>11, SMT DEF CheckLvb, LvbGoto, IInv, LvbTypeOK, RoleInv, HeldInv, LocksEx, LocksPr, IsWriter, Levels
<1>12. CASE WriteLvb(r)
  BY <1>12 DEF WriteLvb, LvbGoto, IInv, LvbTypeOK, RoleInv, HeldInv, LocksEx, LocksPr, IsWriter, Levels
<1>13. CASE Unlock(r)
  BY <1>13 DEF Unlock, LvbGoto, IInv, LvbTypeOK, RoleInv, HeldInv, LocksEx, LocksPr, IsWriter, Levels
<1>14. CASE SecondBarrier(r)
  BY <1>14 DEF SecondBarrier, LvbGoto, IInv, LvbTypeOK, RoleInv, HeldInv, LocksEx, LocksPr, IsWriter, Levels
<1>15. CASE SecondLeave(r)
  BY <1>15, SMT DEF SecondLeave, LvbGoto, IInv, LvbTypeOK, RoleInv, HeldInv, LocksEx, LocksPr, IsWriter, Levels
<1>16. CASE Destroy(r)
  BY <1>16 DEF Destroy, LvbGoto, IInv, LvbTypeOK, RoleInv, HeldInv, LocksEx, LocksPr, IsWriter, Levels
<1> QED
  BY <1>1, <1>2, <1>3, <1>4, <1>5, <1>6, <1>7, <1>8, <1>9, <1>10, <1>11, <1>12, <1>13, <1>14, <1>15, <1>16 DEF Step

\* A lock is only granted when it is compatible with the locks held.
LEMMA StepExclusive ==
    ASSUME IInv, NEW r \in Ranks, Step(r)
    PROVE  Exclusive'
<1>1. CASE ClearLock(r)
  BY <1>1 DEF ClearLock, LvbGoto, IInv, LvbTypeOK, Exclusive, Grantable, Levels
<1>2. CASE ClearWrite(r)
  BY <1>2 DEF ClearWrite, LvbGoto, IInv, LvbTypeOK, Exclusive, Grantable, Levels
<1>3. CASE ClearUnlock(r)
  BY <1>3 DEF ClearUnlock, LvbGoto, IInv, LvbTypeOK, Exclusive, Grantable, Levels
<1>4. CASE PrepBarrier(r)
  BY <1>4 DEF PrepBarrier, LvbGoto, IInv, LvbTypeOK, Exclusive, Grantable, Levels
<1>5. CASE PrepLeave(r)
  BY <1>5 DEF PrepLeave, LvbGoto, IInv, LvbTypeOK, Exclusive, Grantable, Levels
<1>6. CASE LoopTop(r)
  BY <1>6 DEF LoopTop, LvbGoto, IInv, LvbTypeOK, Exclusive, Grantable, Levels
<1>7. CASE FirstBarrier(r)
  BY <1>7 DEF FirstBarrier, LvbGoto, IInv, LvbTypeOK, Exclusive, Grantable, Levels
<1>8. CASE FirstLeave(r)
  BY <1>8 DEF FirstLeave, LvbGoto, IInv, LvbTypeOK, Exclusive, Grantable, Levels
<1>9. CASE ReaderLock(r)
  BY <1>9 DEF ReaderLock, LvbGoto, IInv, LvbTypeOK, Exclusive, Grantable, Levels
<1>10. CASE WriterLock(r)
  BY <1>10 DEF WriterLock, LvbGoto, IInv, LvbTypeOK, Exclusive, Grantable, Levels
<1>11. CASE CheckLvb(r)
  BY <1>11 DEF CheckLvb, LvbGoto, IInv, LvbTypeOK, Exclusive, Grantable, Levels
<1>12. CASE WriteLvb(r)
  BY <1>12 DEF WriteLvb, LvbGoto, IInv, LvbTypeOK, Exclusive, Grantable, Levels
<1>13. CASE Unlock(r)
  BY <1>13 DEF Unlock, LvbGoto, IInv, LvbTypeOK, Exclusive, Grantable, Levels
<1>14. CASE SecondBarrier(r)
  BY <1>14 DEF SecondBarrier, LvbGoto, IInv, LvbTypeOK, Exclusive, Grantable, Levels
<1>15. CASE SecondLeave(r)
  BY <1>15 DEF SecondLeave, LvbGoto, IInv, LvbTypeOK, Exclusive, Grantable, Levels
<1>16. CASE Destroy(r)
  BY <1>16 DEF Destroy, LvbGoto, IInv, LvbTypeOK, Exclusive, Grantable, Levels
<1> QED
  BY <1>1, <1>2, <1>3, <1>4, <1>5, <1>6, <1>7, <1>8, <1>9, <1>10, <1>11, <1>12, <1>13, <1>14, <1>15, <1>16 DEF Step

\* Every step keeps the LVB equal to the number of iterations written.  Only
\* ClearWrite and WriteLvb change the LVB; only WriteLvb makes an iteration
\* written.
LEMMA StepLvbInv ==
    ASSUME IInv, NEW r \in Ranks, Step(r)
    PROVE  LvbInv'
<1> DEFINE Same == lvb' = lvb /\ cleared' = cleared
                     /\ \A i \in 0 .. max_iter : Written(i)' = Written(i)
<1>0. \A i \in 0 .. max_iter : Writer(i) \in Ranks
  BY WriterIsRank, SMT
<1>a. Same => LvbInv'
  BY DEF IInv, LvbInv
<1>1. CASE ClearLock(r)
  BY <1>0, <1>a, <1>1 DEF ClearLock, LvbGoto, IInv, LvbTypeOK, Lockstep, EpochInv, RoleInv, IsWriter, Written, Arrive, BeforePrep, BeforeFirst, BeforeSecond
<1>2. CASE ClearWrite(r)
  <2>1. epoch' = epoch /\ epoch[r] = 0
    BY <1>2 DEF ClearWrite, IInv, Lockstep, EpochInv, BeforePrep
  <2>2. \A q \in Ranks : epoch[q] <= 1
    BY <2>1, EpochsClose, SMT DEF IInv, Lockstep, LvbTypeOK
  <2>3. \A i \in 0 .. max_iter : ~Written(i) /\ ~Written(i)'
    BY <1>0, <2>1, <2>2, SMT DEF Written, IInv, LvbTypeOK
  <2>4. lvb' = [be64 |-> 0] \/ (lvb' = lvb /\ cleared' = cleared)
    BY <1>2 DEF ClearWrite, cpu_to_be64
  <2>5. CASE lvb' = [be64 |-> 0]
    <3>1. \A i \in 0 .. max_iter : be64_to_cpu(lvb)' <= i
      BY <2>5, SMT DEF be64_to_cpu
    <3> QED BY <2>3, <3>1 DEF LvbInv
  <2>6. CASE lvb' = lvb /\ cleared' = cleared
    BY <2>3, <2>6, <1>a DEF Written
  <2> QED BY <2>4, <2>5, <2>6
<1>3. CASE ClearUnlock(r)
  BY <1>0, <1>a, <1>3 DEF ClearUnlock, LvbGoto, IInv, LvbTypeOK, Lockstep, EpochInv, RoleInv, IsWriter, Written, Arrive, BeforePrep, BeforeFirst, BeforeSecond
<1>4. CASE PrepBarrier(r)
  BY <1>0, <1>a, <1>4, SMT DEF PrepBarrier, LvbGoto, IInv, LvbTypeOK, Lockstep, EpochInv, RoleInv, IsWriter, Written, Arrive, BeforePrep, BeforeFirst, BeforeSecond
<1>5. CASE PrepLeave(r)
  BY <1>0, <1>a, <1>5 DEF PrepLeave, LvbGoto, IInv, LvbTypeOK, Lockstep, EpochInv, RoleInv, IsWriter, Written, Arrive, BeforePrep, BeforeFirst, BeforeSecond
<1>6. CASE LoopTop(r)
  BY <1>0, <1>a, <1>6, SMT DEF LoopTop, LvbGoto, IInv, LvbTypeOK, Lockstep, EpochInv, RoleInv, IsWriter, Written, Arrive, BeforePrep, BeforeFirst, BeforeSecond
<1>7. CASE FirstBarrier(r)
  BY <1>0, <1>a, <1>7, SMT DEF FirstBarrier, LvbGoto, IInv, LvbTypeOK, Lockstep, EpochInv, RoleInv, IsWriter, Written, Arrive, BeforePrep, BeforeFirst, BeforeSecond
<1>8. CASE FirstLeave(r)
  BY <1>0, <1>a, <1>8 DEF FirstLeave, LvbGoto, IInv, LvbTypeOK, Lockstep, EpochInv, RoleInv, IsWriter, Written, Arrive, BeforePrep, BeforeFirst, BeforeSecond
<1>9. CASE ReaderLock(r)
  BY <1>0, <1>a, <1>9 DEF ReaderLock, LvbGoto, IInv, LvbTypeOK, Lockstep, EpochInv, RoleInv, IsWriter, Written, Arrive, BeforePrep, BeforeFirst, BeforeSecond
<1>10. CASE WriterLock(r)
  BY <1>0, <1>a, <1>10 DEF WriterLock, LvbGoto, IInv, LvbTypeOK, Lockstep, EpochInv, RoleInv, IsWriter, Written, Arrive, BeforePrep, BeforeFirst, BeforeSecond
<1>11. CASE CheckLvb(r)
  BY <1>0, <1>a, <1>11, SMTT(30) DEF CheckLvb, LvbGoto, IInv, LvbTypeOK, Lockstep, EpochInv, RoleInv, IsWriter, Written, Arrive, BeforePrep, BeforeFirst, BeforeSecond
<1>12. CASE WriteLvb(r)
  <2>1. epoch' = epoch /\ epoch[r] = 2 + 2 * iter[r] /\ iter[r] \in Nat /\ Writer(iter[r]) = r
    BY <1>12, SMT DEF WriteLvb, IInv, LvbTypeOK, Lockstep, EpochInv, RoleInv, IsWriter, BeforeSecond
  <2>2. \A q \in Ranks : epoch[q] >= 2 + 2 * iter[r] /\ epoch[q] <= 3 + 2 * iter[r]
    BY <1>12, <2>1, EpochsClose, SMT DEF WriteLvb, IInv, Lockstep, LvbTypeOK, Waiting
  <2>3. ASSUME NEW i \in 0 .. max_iter PROVE Written(i)' <=> i <= iter[r]
    <3>1. CASE i < iter[r]
      BY <1>0, <2>1, <2>2, <3>1, SMT DEF Written, IInv, LvbTypeOK
    <3>2. CASE i = iter[r]
      BY <1>12, <2>1, <3>2, SMT DEF WriteLvb, LvbGoto, Written, IInv, LvbTypeOK
    <3>3. CASE i > iter[r]
      BY <1>0, <2>1, <2>2, <3>3, SMT DEF Written, IInv, LvbTypeOK
    <3> QED BY <2>1, <3>1, <3>2, <3>3, SMT
  <2> QED BY <1>12, <2>1, <2>3, SMT DEF WriteLvb, LvbInv, cpu_to_be64, be64_to_cpu
<1>13. CASE Unlock(r)
  BY <1>0, <1>a, <1>13 DEF Unlock, LvbGoto, IInv, LvbTypeOK, Lockstep, EpochInv, RoleInv, IsWriter, Written, Arrive, BeforePrep, BeforeFirst, BeforeSecond
<1>14. CASE SecondBarrier(r)
  <2>1. epoch[r] = 2 + 2 * iter[r] /\ epoch' = [epoch EXCEPT ![r] = @ + 1] /\ iter[r] \in Nat
    BY <1>14, SMT DEF SecondBarrier, Arrive, IInv, LvbTypeOK, Lockstep, EpochInv, BeforeSecond
  <2>2. l_pc[r] = "u_barrier" /\ l_pc' = [l_pc EXCEPT ![r] = "u_wait"]
    BY <1>14 DEF SecondBarrier, LvbGoto
  <2>3. ASSUME NEW i \in 0 .. max_iter PROVE Written(i)' = Written(i)
    <3>1. CASE Writer(i) = r
      BY <2>1, <2>2, <3>1, SMT DEF Written, IInv, LvbTypeOK
    <3>2. CASE Writer(i) # r
      BY <1>0, <2>1, <2>2, <3>2 DEF Written, IInv, LvbTypeOK
    <3> QED BY <3>1, <3>2
  <2> QED BY <1>14, <1>a, <2>3 DEF SecondBarrier
<1>15. CASE SecondLeave(r)
  BY <1>0, <1>a, <1>15 DEF SecondLeave, LvbGoto, IInv, LvbTypeOK, Lockstep, EpochInv, RoleInv, IsWriter, Written, Arrive, BeforePrep, BeforeFirst, BeforeSecond
<1>16. CASE Destroy(r)
  BY <1>0, <1>a, <1>16 DEF Destroy, LvbGoto, IInv, LvbTypeOK, Lockstep, EpochInv, RoleInv, IsWriter, Written, Arrive, BeforePrep, BeforeFirst, BeforeSecond
<1> QED
  BY <1>1, <1>2, <1>3, <1>4, <1>5, <1>6, <1>7, <1>8, <1>9, <1>10, <1>11, <1>12, <1>13, <1>14, <1>15, <1>16 DEF Step

\* A rank reports a failure only when the LVB was never cleared.
LEMMA StepFailed ==
    ASSUME IInv, ~aborted, NEW r \in Ranks, Step(r)
    PROVE  failed' => aborted' /\ ~cleared'
<1>1. ~failed
  BY DEF IInv
<1>2. CASE CheckLvb(r)
  BY <1>1, <1>2, CheckSucceeds DEF CheckLvb
<1>3. CASE ~CheckLvb(r)
  BY <1>1, <1>3 DEF Step, ClearLock, ClearWrite, ClearUnlock, PrepBarrier, PrepLeave, LoopTop,
     FirstBarrier, FirstLeave, ReaderLock, WriterLock, WriteLvb, Unlock, SecondBarrier,
     SecondLeave, Destroy
<1> QED BY <1>2, <1>3

\* The invariant survives every step of the program, of the operator who
\* signals it and of a library whose calls fail.
LEMMA NextIInv == IInv /\ [LvbNext]_lvb_vars => IInv'
<1> SUFFICES ASSUME IInv, [LvbNext]_lvb_vars PROVE IInv'
  OBVIOUS
<1>1. ASSUME ~aborted, NEW r \in Ranks, Step(r) PROVE IInv'
  BY <1>1, StepTypeOK, StepEpochInv, StepStepInv, StepRoleInv, StepHeldInv, StepExclusive,
     StepLvbInv, StepFailed DEF IInv, Lockstep
<1>2. ASSUME NEW r \in Ranks, LvbSignal(r) PROVE IInv'
  <2>1. LvbTypeOK'
    BY <1>2 DEF LvbSignal, IInv, LvbTypeOK
  <2> QED
    BY <1>2, <2>1, SMT DEF LvbSignal, IInv, Lockstep, EpochInv, StepInv, RoleInv, HeldInv, Exclusive,
       LvbInv, Written, LocksEx, LocksPr, IsWriter
<1>3. ASSUME ~aborted, NEW r \in Ranks, CallFails(r) PROVE IInv'
  BY <1>3, SMTT(30) DEF CallFails, IInv, LvbTypeOK, Lockstep, EpochInv, StepInv, RoleInv, HeldInv, Exclusive,
     LvbInv, Written, LocksEx, LocksPr, IsWriter
<1>4. CASE UNCHANGED lvb_vars
  BY <1>4, SMT DEF lvb_vars, IInv, LvbTypeOK, Lockstep, EpochInv, StepInv, RoleInv, HeldInv, Exclusive,
     LvbInv, Written, LocksEx, LocksPr, IsWriter
<1> QED
  BY <1>1, <1>2, <1>3, <1>4 DEF LvbNext, LvbEnded

\* The inductive invariant holds in every reachable state.
THEOREM Invariance == LvbSpec => []IInv
BY InitIInv, NextIInv, PTL DEF LvbSpec

\* Every variable keeps its type and no rank counts past max_iter.
THEOREM TypeCorrect == LvbSpec => []LvbTypeOK
<1>1. IInv => LvbTypeOK
  BY DEF IInv
<1> QED BY Invariance, <1>1, PTL

\* For every number of ranks the barriers of run_test keep the ranks within
\* one barrier of each other.
THEOREM RanksInLockstep == LvbSpec => []Lockstep
<1>1. IInv => Lockstep
  BY DEF IInv
<1> QED BY Invariance, <1>1, PTL

\* For every number of ranks and iterations: on a correct DLM no rank prints
\* "Test failed!" once clear_lock has written the LVB.
THEOREM FailureIsReal == LvbSpec => []NoFalseFailure
<1>1. IInv => NoFalseFailure
  BY DEF IInv, NoFalseFailure
<1> QED BY Invariance, <1>1, PTL

-----------------------------------------------------------------------------
\* A writer that has compared the LVB still finds there what it compared when it
\* writes, whether or not clear_lock wrote the LVB; clear_lock writes it once.
WriteInv ==
    /\ \A r \in Ranks : l_pc[r] = "write" => be64_to_cpu(lvb) = iter[r]
    /\ \A r \in Ranks : l_pc[r] \in {"clear_lock", "clear_write"} => ~cleared

\* Only the holder of the EX lock changes the LVB, so that the comparison of a
\* writer is not outdated when it writes.
LEMMA StepWriteInv ==
    ASSUME IInv, WriteInv, NEW r \in Ranks, Step(r)
    PROVE  WriteInv'
<1> DEFINE Others == \A q \in Ranks : q # r => l_pc'[q] = l_pc[q] /\ iter'[q] = iter[q]
<1>0. l_pc \in [Ranks -> LvbPcs] /\ iter \in [Ranks -> 0 .. max_iter]
  BY DEF IInv, LvbTypeOK
<1>1. CASE ClearLock(r)
  BY <1>0, <1>1 DEF ClearLock, LvbGoto, WriteInv
<1>2. CASE ClearWrite(r)
  <2>1. \A q \in Ranks : q # r => l_pc[q] # "write" /\ l_pc[q] # "clear_write"
    BY <1>2 DEF ClearWrite, IInv, HeldInv, Exclusive, LocksEx
  <2>2. Others /\ l_pc'[r] \in {"clear_unlock", "unlock"}
    BY <1>0, <1>2 DEF ClearWrite, LvbGoto
  <2>3. \A q \in Ranks : q # r => l_pc[q] # "clear_lock"
    BY <1>2 DEF ClearWrite, IInv, RoleInv
  <2> QED BY <2>1, <2>2, <2>3 DEF WriteInv
<1>3. CASE ClearUnlock(r)
  BY <1>0, <1>3 DEF ClearUnlock, LvbGoto, WriteInv
<1>4. CASE PrepBarrier(r)
  BY <1>0, <1>4 DEF PrepBarrier, LvbGoto, WriteInv
<1>5. CASE PrepLeave(r)
  BY <1>0, <1>5 DEF PrepLeave, LvbGoto, WriteInv
<1>6. CASE LoopTop(r)
  BY <1>0, <1>6 DEF LoopTop, LvbGoto, WriteInv
<1>7. CASE FirstBarrier(r)
  BY <1>0, <1>7 DEF FirstBarrier, LvbGoto, WriteInv
<1>8. CASE FirstLeave(r)
  BY <1>0, <1>8 DEF FirstLeave, LvbGoto, WriteInv
<1>9. CASE ReaderLock(r)
  BY <1>0, <1>9 DEF ReaderLock, LvbGoto, WriteInv
<1>10. CASE WriterLock(r)
  BY <1>0, <1>10 DEF WriterLock, LvbGoto, WriteInv
<1>11. CASE CheckLvb(r)
  BY <1>0, <1>11 DEF CheckLvb, LvbGoto, WriteInv, Expected
<1>12. CASE WriteLvb(r)
  <2>1. \A q \in Ranks : q # r => l_pc[q] # "write" /\ l_pc[q] # "clear_write"
    BY <1>12 DEF WriteLvb, IInv, HeldInv, Exclusive, LocksEx
  <2>2. Others /\ l_pc'[r] \in {"clear_unlock", "unlock"}
    BY <1>0, <1>12 DEF WriteLvb, LvbGoto
  <2>3. cleared' = cleared
    BY <1>12 DEF WriteLvb
  <2> QED BY <2>1, <2>2, <2>3 DEF WriteInv
<1>13. CASE Unlock(r)
  BY <1>0, <1>13 DEF Unlock, LvbGoto, WriteInv
<1>14. CASE SecondBarrier(r)
  BY <1>0, <1>14 DEF SecondBarrier, LvbGoto, WriteInv
<1>15. CASE SecondLeave(r)
  BY <1>0, <1>15 DEF SecondLeave, LvbGoto, WriteInv
<1>16. CASE Destroy(r)
  BY <1>0, <1>16 DEF Destroy, LvbGoto, WriteInv
<1> QED
  BY <1>1, <1>2, <1>3, <1>4, <1>5, <1>6, <1>7, <1>8, <1>9, <1>10, <1>11, <1>12, <1>13, <1>14, <1>15, <1>16 DEF Step

\* The LVB is changed by clear_lock, once, and by a writer, which adds one.
LEMMA StepCounts ==
    ASSUME IInv, WriteInv, NEW r \in Ranks, Step(r)
    PROVE  \/ lvb' = lvb
           \/ be64_to_cpu(lvb)' = be64_to_cpu(lvb) + 1
           \/ ~cleared /\ cleared'
<1>1. CASE ClearWrite(r)
  BY <1>1 DEF ClearWrite, WriteInv
<1>2. CASE WriteLvb(r)
  BY <1>2 DEF WriteLvb, WriteInv, cpu_to_be64, be64_to_cpu
<1>3. CASE ~ClearWrite(r) /\ ~WriteLvb(r)
  BY <1>3 DEF Step, ClearLock, ClearUnlock, PrepBarrier, PrepLeave, LoopTop, FirstBarrier,
     FirstLeave, ReaderLock, WriterLock, CheckLvb, Unlock, SecondBarrier, SecondLeave, Destroy
<1> QED BY <1>1, <1>2, <1>3

\* For every number of ranks and iterations, every value an earlier run left
\* behind, signals and failing calls: after clear_lock the LVB counts the
\* iterations one by one, no write of run_test skips or takes back a value.
THEOREM LvbCountsWrites == LvbSpec => LvbCounts
<1>1. LvbInit => WriteInv
  BY DEF LvbInit, WriteInv
<1>2. IInv /\ WriteInv /\ [LvbNext]_lvb_vars => WriteInv'
  <2> SUFFICES ASSUME IInv, WriteInv, [LvbNext]_lvb_vars PROVE WriteInv'
    OBVIOUS
  <2>1. ASSUME NEW r \in Ranks, Step(r) PROVE WriteInv'
    BY <2>1, StepWriteInv
  <2>2. ASSUME NEW r \in Ranks, LvbSignal(r) \/ CallFails(r) PROVE WriteInv'
    BY <2>2, SMT DEF LvbSignal, CallFails, WriteInv
  <2>3. CASE UNCHANGED lvb_vars
    BY <2>3 DEF lvb_vars, WriteInv
  <2> QED BY <2>1, <2>2, <2>3 DEF LvbNext, LvbEnded
<1>3. IInv /\ WriteInv /\ [LvbNext]_lvb_vars =>
        [ \/ be64_to_cpu(lvb') = be64_to_cpu(lvb)
          \/ be64_to_cpu(lvb') = be64_to_cpu(lvb) + 1
          \/ ~cleared /\ cleared' ]_lvb
  <2>1. ASSUME IInv, WriteInv, NEW r \in Ranks, LvbSignal(r) \/ CallFails(r) PROVE lvb' = lvb
    BY <2>1 DEF LvbSignal, CallFails
  <2>2. ASSUME IInv, WriteInv, UNCHANGED lvb_vars PROVE lvb' = lvb
    BY <2>2 DEF lvb_vars
  <2> QED BY <2>1, <2>2, StepCounts DEF LvbNext, LvbEnded, be64_to_cpu
<1> QED BY <1>1, <1>2, <1>3, Invariance, PTL DEF LvbSpec, LvbCounts
==============================================================================
