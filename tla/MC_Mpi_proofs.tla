---------------------------- MODULE MC_Mpi_proofs ----------------------------
(***************************************************************************)
(* Proofs about the programs that MC_Mpi runs.  MultiMmap, for every       *)
(* number of ranks and of passes: the one barrier per block keeps readers  *)
(* and writers apart.  MultiDirectio, for every number of ranks, chunks    *)
(* and rounds: nobody is left behind.  WriteAppendTruncate, in every job:  *)
(* the theorems of WriteAppendTruncate_proofs, for the specification that  *)
(* the run checks.                                                         *)
(***************************************************************************)
EXTENDS MC_Mpi, TLAPS

\* Zenon is the prover of a leaf that names none.
USE Zenon

Base(p) == p * num_procs
TopChar == LastChar - num_procs + 1

Early(r) == pc[r] \in {"prep", "to_prep", "in_prep"}
InBarrier(r) == pc[r] \in {"in_prep", "in_write", "in_read"}

\* The barriers rank r has returned from.
Left(r) == IF InBarrier(r) THEN epoch[r] - 1 ELSE epoch[r]

TypeInv ==
    /\ pc \in [Ranks -> {"prep", "to_prep", "in_prep", "top", "write", "to_write", "in_write",
                         "to_read", "in_read", "read", "done"}]
    /\ epoch \in [Ranks -> Nat] /\ i \in [Ranks -> 0 .. num_procs]
    /\ this_pass \in [Ranks -> Nat] /\ startchar \in [Ranks -> 0 .. TopChar]
    /\ DOMAIN file = Blocks

\* A rank writes its own block and reads the others.
PosOK(r) ==
    /\ Early(r) => this_pass[r] = 0 /\ i[r] = 0 /\ startchar[r] = 0
    /\ pc[r] \in {"write", "to_write", "in_write"} => i[r] = r
    /\ pc[r] \in {"to_read", "in_read", "read"} => i[r] # r /\ i[r] < num_procs

\* One barrier per block: the barriers entered say where a rank is.
EpochOK(r) ==
    epoch[r] = IF Early(r) THEN (IF pc[r] = "in_prep" THEN 1 ELSE 0)
               ELSE 1 + Base(this_pass[r]) + i[r]
                      + (IF pc[r] \in {"in_write", "in_read", "read"} THEN 1 ELSE 0)

\* Nobody has returned from a barrier that somebody has not entered.
BarrierInv == \A r, q \in Ranks : epoch[q] >= Left(r)

\* Ranks of one pass use the same character, ranks of the next the next one.
CharInv ==
    \A r, q \in Ranks :
        /\ this_pass[r] = this_pass[q] => startchar[r] = startchar[q]
        /\ this_pass[r] = this_pass[q] + 1 => startchar[r] = NextStart(startchar[q])

\* Rank r has written its block in its current pass.
Wrote(r) == i[r] > r \/ (i[r] = r /\ pc[r] \in {"to_write", "in_write"})

\* The block of rank r is the one of its pass, or of the pass before.
FileOK(r) ==
    IF Wrote(r) THEN file[r] = startchar[r] + r
    ELSE IF this_pass[r] = 0 THEN file[r] = Zero
    ELSE \E c \in 0 .. TopChar : file[r] = c + r /\ startchar[r] = NextStart(c)

RankOK(r) == PosOK(r) /\ EpochOK(r) /\ FileOK(r)

IInv == TypeInv /\ (\A r \in Ranks : RankOK(r)) /\ BarrierInv /\ CharInv /\ NoFalseAlarm

-----------------------------------------------------------------------------
\* The numbers that the assumptions on the constants give.
LEMMA Numbers ==
    ASSUME ConstantsOK
    PROVE  /\ num_procs \in Nat /\ num_procs >= 2 /\ LastChar \in Nat /\ LastChar >= num_procs
           /\ TopChar \in Nat /\ TopChar >= 1 /\ Ranks \subseteq Nat /\ Blocks = Ranks
           /\ (\A r \in Ranks : r < num_procs) /\ 0 \in Ranks
BY SMT DEF ConstantsOK, TopChar, Ranks, Blocks

\* Passes are num_procs barriers apart.
LEMMA BaseSteps ==
    ASSUME ConstantsOK, NEW p \in Nat, NEW q \in Nat
    PROVE  Base(p) \in Nat /\ Base(p + 1) = Base(p) + num_procs /\ (p < q => Base(p) + num_procs <= Base(q))
<1>1. num_procs \in Nat
  BY Numbers
<1>2. Base(p) \in Nat
  BY <1>1, SMT DEF Base
<1>3. Base(p + 1) = Base(p) + num_procs
  BY <1>1, SMT DEF Base
<1>4. ASSUME p < q PROVE Base(p) + num_procs <= Base(q)
  <2>1. PICK d \in Nat : q = p + 1 + d
    BY <1>4, SMT
  <2>2. Base(q) = Base(p) + num_procs + d * num_procs
    BY <1>1, <2>1, SMT DEF Base
  <2>3. d * num_procs \in Nat
    BY <1>1, SMT
  <2> QED BY <1>1, <1>2, <2>2, <2>3, SMT
<1> QED BY <1>2, <1>3, <1>4

\* The rotation of startchar stays in range, moves, and loses nothing.
LEMMA Rotation ==
    ASSUME ConstantsOK, NEW c \in 0 .. TopChar, NEW d \in 0 .. TopChar
    PROVE  NextStart(c) \in 0 .. TopChar /\ NextStart(c) # c /\ (NextStart(c) = NextStart(d) => c = d)
BY Numbers, SMT DEF NextStart, TopChar

\* The block number a rank compares with its own rank.
LEMMA OwnBlock ==
    ASSUME ConstantsOK, NEW k \in 0 .. num_procs - 1
    PROVE  k % num_procs = k
BY Numbers, SMT

\* A reader that has returned from the barrier of a block finds what its writer
\* wrote in this pass: the writer is past its write, and at most one barrier on.
LEMMA ReaderFindsBlock ==
    ASSUME ConstantsOK, IInv, NEW r \in Ranks, pc[r] = "read"
    PROVE  file[i[r]] = startchar[r] + i[r]
<1> DEFINE b == i[r]
           p == this_pass[r]
           np == num_procs
<1>0. num_procs \in Nat /\ num_procs >= 2 /\ Ranks \subseteq Nat
  BY Numbers
<1>1. b \in Ranks /\ b # r /\ b < np /\ p \in Nat /\ b \in Nat
  BY <1>0, SMTT(30) DEF IInv, TypeInv, RankOK, PosOK, Ranks
<1>2. epoch[r] = 2 + Base(p) + b /\ Left(r) = epoch[r]
  <2>1. epoch[r] = 1 + Base(p) + b + 1 /\ Left(r) = epoch[r]
    BY DEF IInv, RankOK, EpochOK, Early, Left, InBarrier
  <2>2. Base(p) \in Nat
    BY <1>1, BaseSteps
  <2> HIDE DEF b, p
  <2> QED BY <1>1, <2>1, <2>2, SMT
<1> DEFINE p2 == this_pass[b]
           k  == i[b]
           f  == IF pc[b] \in {"in_write", "in_read", "read"} THEN 1 ELSE 0
           g  == IF pc[b] = "read" THEN 1 ELSE 0
<1>3. Base(p) \in Nat /\ Base(p2) \in Nat /\ p2 \in Nat /\ k \in 0 .. np
  <2>1. p2 \in Nat /\ k \in 0 .. np
    BY <1>1 DEF IInv, TypeInv
  <2> QED BY <1>1, <2>1, BaseSteps
<1>4. epoch[b] >= 2 + Base(p) + b /\ Left(b) <= 2 + Base(p) + b
  BY <1>1, <1>2 DEF IInv, BarrierInv
<1>5. ~ Early(b)
  <2>1. Early(b) => epoch[b] = 0 \/ epoch[b] = 1
    BY <1>1 DEF IInv, RankOK, EpochOK
  <2> HIDE DEF b, p
  <2> QED BY <1>1, <1>3, <1>4, <2>1, SMT
<1>6. epoch[b] = 1 + Base(p2) + k + f /\ Left(b) = 1 + Base(p2) + k + g
  <2>1. epoch[b] = 1 + Base(p2) + k + f
    BY <1>1, <1>5 DEF IInv, RankOK, EpochOK
  <2>2. Left(b) = IF pc[b] \in {"in_write", "in_read"} THEN epoch[b] - 1 ELSE epoch[b]
    BY <1>5 DEF Left, InBarrier, Early
  <2>3. f \in {0, 1} /\ g \in {0, 1} /\ (pc[b] \in {"in_write", "in_read"} => f = 1 /\ g = 0)
        /\ (pc[b] \notin {"in_write", "in_read"} => f = g)
    OBVIOUS
  <2> HIDE DEF b, p2, k, f, g
  <2> QED BY <1>3, <2>1, <2>2, <2>3, SMT
<1>7. f \in {0, 1} /\ g \in {0, 1} /\ (f = 1 => k < np) /\ (f = 1 /\ k = b => pc[b] = "in_write")
  BY <1>0, <1>1, SMT DEF IInv, RankOK, PosOK
<1> HIDE DEF b, p, p2, k, f, g
<1>8. Base(p2) + k + f >= 1 + Base(p) + b /\ Base(p2) + k + g <= 1 + Base(p) + b
  BY <1>1, <1>3, <1>4, <1>6, <1>7, SMT
<1>9. CASE p2 = p
  <2>1. k = b + 1 \/ (k = b /\ f = 1)
    BY <1>1, <1>3, <1>7, <1>8, <1>9, SMT
  <2>2. Wrote(b)
    BY <1>1, <1>7, <2>1, SMT DEF Wrote, k
  <2>3. startchar[b] = startchar[r]
    BY <1>1, <1>9 DEF IInv, CharInv, p, p2
  <2> QED BY <1>1, <2>2, <2>3 DEF IInv, RankOK, FileOK, b
<1>10. CASE p < p2
  <2>1. Base(p) + np <= Base(p2)
    BY <1>1, <1>3, <1>10, BaseSteps
  <2>2. k = 0 /\ b = np - 1 /\ Base(p2) = Base(p) + np
    BY <1>0, <1>1, <1>3, <1>7, <1>8, <2>1, SMT
  <2>3. p2 = p + 1
    <3>1. Base(p + 1) = Base(p) + np
      BY <1>1, <1>3, BaseSteps
    <3>2. p + 1 < p2 => Base(p + 1) + np <= Base(p2)
      BY <1>1, <1>3, BaseSteps, SMT
    <3> QED BY <1>0, <1>1, <1>3, <1>10, <2>2, <3>1, <3>2, SMT
  <2>4. ~ Wrote(b) /\ this_pass[b] # 0
    BY <1>0, <1>1, <2>2, <2>3, SMT DEF Wrote, k, p2
  <2>5. PICK c \in 0 .. TopChar : file[b] = c + b /\ startchar[b] = NextStart(c)
    BY <1>1, <2>4 DEF IInv, RankOK, FileOK
  <2>6. startchar[b] = NextStart(startchar[r]) /\ startchar[r] \in 0 .. TopChar
    BY <1>1, <2>3 DEF IInv, CharInv, TypeInv, p, p2
  <2>7. c = startchar[r]
    BY <2>5, <2>6, Rotation
  <2> QED BY <2>5, <2>7 DEF b
<1>11. CASE p2 < p
  <2>1. Base(p2) + np <= Base(p)
    BY <1>1, <1>3, <1>11, BaseSteps
  <2> QED BY <1>0, <1>1, <1>3, <1>7, <1>8, <2>1, SMT
<1> QED BY <1>1, <1>3, <1>9, <1>10, <1>11, SMT

\* rank 0 prepares the file while the others are on their way to the barrier.
LEMMA InitIInv == ASSUME ConstantsOK PROVE Init => IInv
<1> SUFFICES ASSUME Init PROVE IInv
  OBVIOUS
<1>0. /\ num_procs \in Nat /\ num_procs >= 2 /\ TopChar \in Nat /\ Ranks \subseteq Nat /\ Blocks = Ranks
  BY Numbers
<1>1. TypeInv
  BY <1>0, SMT DEF Init, TypeInv
<1>2. ASSUME NEW r \in Ranks PROVE RankOK(r)
  <2>1. /\ pc[r] \in {"prep", "to_prep"} /\ epoch[r] = 0 /\ i[r] = 0 /\ this_pass[r] = 0 /\ startchar[r] = 0
        /\ file[r] = Zero
    BY <1>0 DEF Init
  <2>2. ~ Wrote(r)
    BY <1>0, <2>1, SMT DEF Wrote
  <2> QED BY <2>1, <2>2 DEF RankOK, PosOK, EpochOK, FileOK, Early
<1>3. BarrierInv /\ CharInv /\ NoFalseAlarm
  <2>1. \A r \in Ranks : Left(r) = 0 /\ epoch[r] = 0 /\ this_pass[r] = 0 /\ startchar[r] = 0
    BY DEF Init, Left, InBarrier
  <2> QED BY <2>1, SMT DEF BarrierInv, CharInv, NoFalseAlarm, Init
<1> QED BY <1>1, <1>2, <1>3 DEF IInv

\* Rank q is not touched by a step of another rank.
Untouched(q) ==
    /\ pc'[q] = pc[q] /\ epoch'[q] = epoch[q] /\ i'[q] = i[q] /\ this_pass'[q] = this_pass[q]
    /\ startchar'[q] = startchar[q] /\ file'[q] = file[q]

\* What a step of rank r has to keep: its own part, and its place relative to
\* the barriers of the others.
LEMMA RankStep ==
    ASSUME IInv, NEW r \in Ranks, TypeInv', RankOK(r)', \A q \in Ranks : q # r => Untouched(q),
           epoch'[r] >= epoch[r],
           Left(r)' = Left(r) \/ (Left(r)' = epoch[r] /\ epoch'[r] = epoch[r] /\ MayLeave(epoch, r)),
           this_pass'[r] = this_pass[r] /\ startchar'[r] = startchar[r],
           failed' => truncated'
    PROVE  IInv'
<1>1. ASSUME NEW q \in Ranks PROVE RankOK(q)'
  <2>1. CASE q # r
    <3>1. RankOK(q) /\ Untouched(q)
      BY <2>1 DEF IInv
    <3> QED BY <3>1, SMT DEF RankOK, PosOK, EpochOK, FileOK, Untouched, Early, Wrote
  <2> QED BY <2>1
<1>2. BarrierInv'
  <2> SUFFICES ASSUME NEW p \in Ranks, NEW q \in Ranks PROVE epoch'[q] >= Left(p)'
    BY DEF BarrierInv
  <2>1. epoch[q] >= Left(p) /\ epoch[q] \in Nat /\ epoch[p] \in Nat /\ epoch'[q] \in Nat /\ epoch[r] \in Nat
    BY DEF IInv, BarrierInv, TypeInv
  <2>2. epoch'[q] >= epoch[q]
    <3>1. CASE q = r  BY <3>1
    <3>2. CASE q # r  BY <2>1, <3>2, SMT DEF Untouched
    <3> QED BY <3>1, <3>2
  <2>3. p # r => Left(p)' = Left(p)
    BY DEF Left, InBarrier, Untouched
  <2>4. Left(p) \in Int
    BY <2>1, SMT DEF Left
  <2>5. CASE Left(p)' = Left(p)
    BY <2>1, <2>2, <2>4, <2>5, SMT
  <2>6. CASE p = r /\ Left(r)' = epoch[r] /\ MayLeave(epoch, r)
    <3>1. epoch[q] >= epoch[r]
      BY <2>6 DEF MayLeave, IInv, TypeInv
    <3> QED BY <2>1, <2>2, <2>6, <3>1, SMT
  <2> QED BY <2>3, <2>5, <2>6
<1>3. CharInv'
  <2>1. \A q \in Ranks : this_pass'[q] = this_pass[q] /\ startchar'[q] = startchar[q]
    BY DEF Untouched
  <2> QED BY <2>1, SMT DEF IInv, CharInv, NextStart
<1> QED BY <1>1, <1>2, <1>3 DEF IInv, NoFalseAlarm

\* What the invariant says of rank r, with the numbers it needs.
Facts(r) ==
    /\ RankOK(r) /\ TypeInv /\ (failed => truncated)
    /\ num_procs \in Nat /\ num_procs >= 2 /\ r \in Nat /\ r < num_procs
    /\ i[r] \in 0 .. num_procs /\ i[r] \in Nat /\ epoch[r] \in Nat /\ this_pass[r] \in Nat
    /\ Base(this_pass[r]) \in Nat

\* The invariant gives them.
LEMMA HaveFacts == ASSUME ConstantsOK, IInv, NEW r \in Ranks PROVE Facts(r)
<1>1. RankOK(r) /\ TypeInv /\ (failed => truncated) /\ num_procs \in Nat /\ num_procs >= 2 /\ r \in Nat /\ r < num_procs
  BY Numbers DEF IInv, NoFalseAlarm
<1>2. i[r] \in 0 .. num_procs /\ epoch[r] \in Nat /\ this_pass[r] \in Nat
  BY <1>1 DEF TypeInv
<1>3. Base(this_pass[r]) \in Nat
  BY <1>2, BaseSteps
<1> QED BY <1>1, <1>2, <1>3, SMT DEF Facts

\* prep_file.
LEMMA PrepareStep == ASSUME ConstantsOK, IInv, NEW r \in Ranks, Prepare(r) PROVE IInv'
<1>0. Facts(r) /\ TypeInv
  BY HaveFacts DEF Facts
<1>1. pc'[r] = "to_prep" /\ pc[r] = "prep" /\ epoch' = epoch /\ i' = i /\ this_pass' = this_pass /\ startchar' = startchar
      /\ file' = file /\ truncated' = truncated /\ failed' = failed /\ \A q \in Ranks : q # r => Untouched(q)
  BY <1>0 DEF Prepare, Goto, TypeInv, Untouched
<1>2. TypeInv'
  BY <1>0, <1>1 DEF TypeInv, Prepare, Goto
<1>3. RankOK(r)'
  BY <1>0, <1>1 DEF Facts, RankOK, PosOK, EpochOK, FileOK, Wrote, Early
<1>4. Left(r)' = Left(r)
  BY <1>1 DEF Left, InBarrier
<1> QED BY <1>0, <1>1, <1>2, <1>3, <1>4, RankStep, SMT DEF Facts

\* A rank announces its arrival at a barrier.
LEMMA EnterStep ==
    ASSUME ConstantsOK, IInv, NEW r \in Ranks, NEW at, NEW in,
           <<at, in>> \in {<<"to_prep", "in_prep">>, <<"to_write", "in_write">>, <<"to_read", "in_read">>},
           Enter(r, at, in)
    PROVE  IInv'
<1>0. Facts(r) /\ TypeInv
  BY HaveFacts DEF Facts
<1>1. pc'[r] = in /\ pc[r] = at /\ epoch'[r] = epoch[r] + 1 /\ i' = i /\ this_pass' = this_pass /\ startchar' = startchar
      /\ file' = file /\ truncated' = truncated /\ failed' = failed /\ \A q \in Ranks : q # r => Untouched(q)
  BY <1>0 DEF Enter, Goto, TypeInv, Untouched, Arrive
<1>2. TypeInv'
  <2>1. epoch' \in [Ranks -> Nat]
    BY <1>0, SMT DEF Enter, Arrive, TypeInv
  <2>2. in \in {"in_prep", "in_write", "in_read"}
    OBVIOUS
  <2> QED BY <1>0, <1>1, <2>1, <2>2 DEF TypeInv, Enter, Goto
<1>3. PosOK(r)' /\ FileOK(r)'
  BY <1>0, <1>1 DEF Facts, RankOK, PosOK, FileOK, Wrote, Early
<1>4. EpochOK(r)'
  BY <1>0, <1>1, SMT DEF Facts, RankOK, EpochOK, Early
<1>5. Left(r)' = Left(r) /\ epoch'[r] >= epoch[r]
  BY <1>0, <1>1, SMT DEF Left, InBarrier, Facts
<1> QED BY <1>0, <1>1, <1>2, <1>3, <1>4, <1>5, RankStep DEF Facts, RankOK

\* The first barrier is left.
LEMMA PrepLeaveStep == ASSUME ConstantsOK, IInv, NEW r \in Ranks, PrepLeave(r) PROVE IInv'
<1>0. Facts(r) /\ TypeInv
  BY HaveFacts DEF Facts
<1>1. pc'[r] = "top" /\ pc[r] = "in_prep" /\ epoch' = epoch /\ i' = i /\ this_pass' = this_pass /\ startchar' = startchar
      /\ file' = file /\ truncated' = truncated /\ failed' = failed /\ \A q \in Ranks : q # r => Untouched(q)
  BY <1>0 DEF PrepLeave, Goto, TypeInv, Untouched
<1>2. TypeInv'
  BY <1>0, <1>1 DEF TypeInv, PrepLeave, Goto
<1>3. PosOK(r)' /\ FileOK(r)'
  BY <1>0, <1>1 DEF Facts, RankOK, PosOK, FileOK, Wrote, Early
<1>4. EpochOK(r)'
  <2>1. epoch[r] = 1 /\ this_pass[r] = 0 /\ i[r] = 0
    BY <1>0, <1>1 DEF Facts, RankOK, EpochOK, PosOK, Early
  <2>2. Base(0) = 0
    BY <1>0, SMT DEF Base, Facts
  <2>3. ~ Early(r)' /\ pc'[r] \notin {"in_write", "in_read", "read"}
    BY <1>1 DEF Early
  <2>4. epoch'[r] = 1 + Base(this_pass'[r]) + i'[r] + 0
    BY <1>1, <2>1, <2>2, SMT
  <2> QED BY <2>3, <2>4 DEF EpochOK
<1>5. Left(r)' = epoch[r] /\ epoch'[r] >= epoch[r] /\ MayLeave(epoch, r)
  BY <1>0, <1>1, SMT DEF Left, InBarrier, Facts, PrepLeave
<1> QED BY <1>0, <1>1, <1>2, <1>3, <1>4, <1>5, RankStep DEF Facts, RankOK

\* The block loop: a rank goes to its own block as writer, to others as reader,
\* or ends.
LEMMA BlockStep ==
    ASSUME ConstantsOK, IInv, NEW r \in Ranks, LoopTop(r), this_pass[r] >= max_passes \/ i[r] < num_procs
    PROVE  IInv'
<1>0. Facts(r) /\ TypeInv
  BY HaveFacts DEF Facts
<1>a. i[r] < num_procs => i[r] % num_procs = i[r]
  BY <1>0, OwnBlock, SMT DEF Facts
<1>1. /\ pc[r] = "top" /\ epoch' = epoch /\ i' = i /\ this_pass' = this_pass /\ startchar' = startchar
      /\ file' = file /\ truncated' = truncated /\ failed' = failed
      /\ pc' = [pc EXCEPT ![r] = pc'[r]]
      /\ pc'[r] \in {"done", "write", "to_read"}
      /\ (pc'[r] = "write" => i[r] = r) /\ (pc'[r] = "to_read" => i[r] # r /\ i[r] < num_procs)
  BY <1>0, <1>a DEF LoopTop, Goto, TypeInv, Facts
<1>2. \A q \in Ranks : q # r => Untouched(q)
  BY <1>0, <1>1 DEF TypeInv, Untouched
<1>3. TypeInv'
  BY <1>0, <1>1 DEF TypeInv
<1>4. RankOK(r)'
  BY <1>0, <1>1 DEF Facts, RankOK, PosOK, EpochOK, FileOK, Wrote, Early
<1>5. Left(r)' = Left(r)
  BY <1>1 DEF Left, InBarrier
<1> QED BY <1>0, <1>1, <1>2, <1>3, <1>4, <1>5, RankStep, SMT DEF Facts

\* The end of a pass: the rank turns to the next character.  No other rank is
\* two passes ahead.
LEMMA PassStep ==
    ASSUME ConstantsOK, IInv, NEW r \in Ranks, LoopTop(r), ~ (this_pass[r] >= max_passes), ~ (i[r] < num_procs)
    PROVE  IInv'
<1> DEFINE p == this_pass[r]
<1>0. Facts(r) /\ TypeInv /\ p \in Nat /\ num_procs \in Nat /\ num_procs >= 2 /\ r < num_procs /\ r \in Nat
  BY HaveFacts DEF Facts
<1>1. /\ pc[r] = "top" /\ pc' = pc /\ epoch' = epoch /\ file' = file /\ truncated' = truncated /\ failed' = failed
      /\ i' = [i EXCEPT ![r] = 0] /\ this_pass' = [this_pass EXCEPT ![r] = p + 1]
      /\ startchar' = [startchar EXCEPT ![r] = NextStart(startchar[r])] /\ i[r] = num_procs
  BY <1>0, SMT DEF LoopTop, Facts
<1>2. /\ i'[r] = 0 /\ this_pass'[r] = p + 1 /\ startchar'[r] = NextStart(startchar[r])
      /\ \A q \in Ranks : q # r => Untouched(q)
  BY <1>0, <1>1 DEF TypeInv, Untouched
<1>3. startchar[r] \in 0 .. TopChar /\ NextStart(startchar[r]) \in 0 .. TopChar
  BY <1>0, Rotation DEF TypeInv
<1>4. TypeInv'
  <2>1. 0 \in 0 .. num_procs /\ p + 1 \in Nat
    BY <1>0, SMT
  <2> HIDE DEF p
  <2> QED BY <1>0, <1>1, <1>3, <2>1 DEF TypeInv
<1>5. epoch[r] = 1 + Base(p) + num_procs /\ Base(p) \in Nat /\ Base(p + 1) = Base(p) + num_procs
  <2>1. epoch[r] = 1 + Base(p) + i[r] + 0
    BY <1>0, <1>1 DEF Facts, RankOK, EpochOK, Early
  <2>2. Base(p) \in Nat /\ Base(p + 1) = Base(p) + num_procs
    BY <1>0, BaseSteps
  <2> HIDE DEF p
  <2> QED BY <1>0, <1>1, <2>1, <2>2, SMT
<1>6. RankOK(r)'
  <2>1. PosOK(r)'
    BY <1>1, <1>2 DEF PosOK, Early
  <2>2. EpochOK(r)'
    <3>1. epoch'[r] = 1 + Base(p + 1) + 0 + 0
      <4> HIDE DEF p
      <4> QED BY <1>0, <1>1, <1>5, SMT
    <3> QED BY <1>1, <1>2, <3>1 DEF EpochOK, Early
  <2>3. FileOK(r)'
    <3>1. Wrote(r) /\ file[r] = startchar[r] + r
      BY <1>0, <1>1 DEF Facts, RankOK, FileOK, Wrote
    <3>2. ~ Wrote(r)'
      BY <1>0, <1>1, <1>2, SMT DEF Wrote
    <3>3. this_pass'[r] # 0
      BY <1>0, <1>2, SMT
    <3> QED BY <1>1, <1>2, <1>3, <3>1, <3>2, <3>3 DEF FileOK, NextStart
  <2> QED BY <2>1, <2>2, <2>3 DEF RankOK
<1>7. ASSUME NEW q \in Ranks PROVE RankOK(q)'
  <2>1. CASE q # r
    <3>1. RankOK(q) /\ Untouched(q)
      BY <1>2, <2>1 DEF IInv
    <3> QED BY <3>1 DEF RankOK, PosOK, EpochOK, FileOK, Untouched, Early, Wrote
  <2> QED BY <1>6, <2>1
<1>8. BarrierInv'
  BY <1>1 DEF IInv, BarrierInv, Left, InBarrier
<1>9. ASSUME NEW q \in Ranks PROVE this_pass[q] # p + 2
  <2> SUFFICES ASSUME this_pass[q] = p + 2 PROVE FALSE
    OBVIOUS
  <2>1. Facts(q) /\ epoch[r] >= Left(q)
    BY HaveFacts DEF IInv, BarrierInv
  <2>2. ~ Early(q)
    BY <1>0, <2>1, SMT DEF Facts, RankOK, PosOK
  <2>3. epoch[q] = 1 + Base(p + 2) + i[q] + (IF pc[q] \in {"in_write", "in_read", "read"} THEN 1 ELSE 0)
    BY <2>1, <2>2 DEF Facts, RankOK, EpochOK
  <2>4. Left(q) = (IF pc[q] \in {"in_write", "in_read"} THEN epoch[q] - 1 ELSE epoch[q])
    BY <2>2 DEF Left, InBarrier, Early
  <2>5. p + 1 + 1 = p + 2 /\ p + 1 \in Nat /\ p + 2 \in Nat
    BY <1>0, SMT
  <2>6. Base(p + 2) = Base(p + 1) + num_procs /\ Base(p + 2) \in Nat
    BY <2>5, BaseSteps
  <2>7. i[q] \in Nat
    BY <2>1 DEF Facts
  <2> HIDE DEF p
  <2>8. Left(q) >= 1 + Base(p + 2)
    <3>1. CASE pc[q] \in {"in_write", "in_read"}
      <4>1. epoch[q] = 1 + Base(p + 2) + i[q] + 1 /\ Left(q) = epoch[q] - 1
        BY <2>3, <2>4, <3>1
      <4> QED BY <2>6, <2>7, <4>1, SMT
    <3>2. CASE pc[q] \notin {"in_write", "in_read"}
      <4>1. (epoch[q] = 1 + Base(p + 2) + i[q] + 1 \/ epoch[q] = 1 + Base(p + 2) + i[q] + 0) /\ Left(q) = epoch[q]
        BY <2>3, <2>4, <3>2
      <4> QED BY <2>6, <2>7, <4>1, SMT
    <3> QED BY <3>1, <3>2
  <2>9. Left(q) \in Int
    BY <2>1, <2>4, SMT DEF Facts
  <2> QED BY <1>0, <1>5, <2>1, <2>6, <2>8, <2>9, SMT
<1>10. CharInv'
  <2> SUFFICES ASSUME NEW s \in Ranks, NEW q \in Ranks
               PROVE  /\ this_pass'[s] = this_pass'[q] => startchar'[s] = startchar'[q]
                      /\ this_pass'[s] = this_pass'[q] + 1 => startchar'[s] = NextStart(startchar'[q])
    BY DEF CharInv, NextStart
  <2>1. /\ this_pass[s] = this_pass[q] => startchar[s] = startchar[q]
        /\ this_pass[s] = this_pass[q] + 1 => startchar[s] = NextStart(startchar[q])
        /\ this_pass[q] = this_pass[s] + 1 => startchar[q] = NextStart(startchar[s])
        /\ this_pass[s] \in Nat /\ this_pass[q] \in Nat
    BY <1>0 DEF IInv, CharInv, TypeInv
  <2>2. CASE s # r /\ q # r
    BY <1>2, <2>1, <2>2 DEF Untouched
  <2>3. CASE s = r /\ q = r
    <3>1. this_pass'[r] = this_pass[r] + 1 /\ this_pass[r] \in Nat
      BY <1>2, <2>1, <2>3
    <3>2. this_pass'[r] # this_pass'[r] + 1
      BY <3>1, SMT
    <3> QED BY <2>3, <3>2
  <2>4. CASE s = r /\ q # r
    <3>1. this_pass'[s] = this_pass[s] + 1 /\ startchar'[s] = NextStart(startchar[s])
          /\ this_pass'[q] = this_pass[q] /\ startchar'[q] = startchar[q]
      BY <1>2, <2>4 DEF Untouched
    <3>2. this_pass[s] + 1 = this_pass[q] => startchar'[s] = startchar'[q]
      BY <2>1, <3>1
    <3>3. this_pass[s] + 1 = this_pass[q] + 1 => startchar'[s] = NextStart(startchar'[q])
      BY <2>1, <3>1, SMT
    <3> QED BY <3>1, <3>2, <3>3
  <2>5. CASE s # r /\ q = r
    <3>1. this_pass'[q] = this_pass[q] + 1 /\ startchar'[q] = NextStart(startchar[q])
          /\ this_pass'[s] = this_pass[s] /\ startchar'[s] = startchar[s]
      BY <1>2, <2>5 DEF Untouched
    <3>2. this_pass[s] # this_pass[q] + 2
      BY <1>9, <2>5
    <3> QED BY <2>1, <3>1, <3>2, SMT
  <2> QED BY <2>2, <2>3, <2>4, <2>5
<1>11. NoFalseAlarm'
  BY <1>0, <1>1 DEF NoFalseAlarm, Facts
<1> QED BY <1>4, <1>7, <1>8, <1>10, <1>11 DEF IInv

\* do_writer: the rank's own block changes.
LEMMA WriterStep == ASSUME ConstantsOK, IInv, NEW r \in Ranks, DoWriter(r) PROVE IInv'
<1>0. Facts(r) /\ TypeInv /\ Blocks = Ranks
  BY HaveFacts, Numbers DEF Facts
<1>1. pc[r] = "write" /\ i[r] = r
  BY <1>0 DEF DoWriter, Facts, RankOK, PosOK
<1>2. pc'[r] = "to_write" /\ epoch' = epoch /\ i' = i /\ this_pass' = this_pass /\ startchar' = startchar
      /\ file'[r] = startchar[r] + r /\ (truncated => truncated') /\ failed' = failed
      /\ \A q \in Ranks : q # r => Untouched(q)
  BY <1>0, <1>1 DEF DoWriter, Goto, TypeInv, Untouched, Expected
<1>3. TypeInv'
  BY <1>0, <1>2 DEF TypeInv, DoWriter, Goto
<1>4. RankOK(r)'
  <2>1. Wrote(r)'
    BY <1>1, <1>2 DEF Wrote
  <2> QED BY <1>0, <1>1, <1>2, <2>1 DEF Facts, RankOK, PosOK, EpochOK, FileOK, Early
<1>5. Left(r)' = Left(r)
  BY <1>1, <1>2 DEF Left, InBarrier
<1> QED BY <1>0, <1>2, <1>3, <1>4, <1>5, RankStep, SMT DEF Facts

\* The writer returns from its barrier.
LEMMA WriterLeaveStep == ASSUME ConstantsOK, IInv, NEW r \in Ranks, WriterLeave(r) PROVE IInv'
<1>0. Facts(r) /\ TypeInv
  BY HaveFacts DEF Facts
<1>1. pc[r] = "in_write" /\ i[r] = r /\ epoch[r] = 1 + Base(this_pass[r]) + i[r] + 1
  BY <1>0 DEF WriterLeave, Facts, RankOK, PosOK, EpochOK, Early
<1>2. pc'[r] = "top" /\ epoch' = epoch /\ i'[r] = i[r] + 1 /\ this_pass' = this_pass /\ startchar' = startchar
      /\ file' = file /\ truncated' = truncated /\ failed' = failed /\ \A q \in Ranks : q # r => Untouched(q)
  BY <1>0 DEF WriterLeave, Goto, TypeInv, Untouched
<1>3. i[r] + 1 \in 0 .. num_procs
  BY <1>0, <1>1, SMT DEF Facts
<1>4. TypeInv'
  BY <1>0, <1>2, <1>3 DEF TypeInv, WriterLeave, Goto
<1>5. PosOK(r)'
  BY <1>2 DEF PosOK, Early
<1>6. EpochOK(r)'
  BY <1>0, <1>1, <1>2, SMT DEF EpochOK, Early, Facts
<1>7. FileOK(r)'
  <2>1. Wrote(r) /\ file[r] = startchar[r] + r
    BY <1>0, <1>1 DEF Wrote, Facts, RankOK, FileOK
  <2>2. Wrote(r)'
    BY <1>0, <1>1, <1>2, SMT DEF Wrote, Facts
  <2> QED BY <1>2, <2>1, <2>2 DEF FileOK
<1>8. Left(r)' = epoch[r] /\ epoch'[r] >= epoch[r] /\ MayLeave(epoch, r)
  BY <1>0, <1>2, SMT DEF Left, InBarrier, Facts, WriterLeave
<1> QED BY <1>0, <1>2, <1>4, <1>5, <1>6, <1>7, <1>8, RankStep DEF Facts, RankOK

\* A reader returns from the barrier of the block.
LEMMA ReaderLeaveStep == ASSUME ConstantsOK, IInv, NEW r \in Ranks, ReaderLeave(r) PROVE IInv'
<1>0. Facts(r) /\ TypeInv
  BY HaveFacts DEF Facts
<1>1. pc'[r] = "read" /\ pc[r] = "in_read" /\ epoch' = epoch /\ i' = i /\ this_pass' = this_pass /\ startchar' = startchar
      /\ file' = file /\ truncated' = truncated /\ failed' = failed /\ \A q \in Ranks : q # r => Untouched(q)
  BY <1>0 DEF ReaderLeave, Goto, TypeInv, Untouched
<1>2. TypeInv'
  BY <1>0, <1>1 DEF TypeInv, ReaderLeave, Goto
<1>3. RankOK(r)'
  BY <1>0, <1>1 DEF Facts, RankOK, PosOK, EpochOK, FileOK, Wrote, Early
<1>4. Left(r)' = epoch[r] /\ epoch'[r] >= epoch[r] /\ MayLeave(epoch, r)
  BY <1>0, <1>1, SMT DEF Left, InBarrier, Facts, ReaderLeave
<1> QED BY <1>0, <1>1, <1>2, <1>3, <1>4, RankStep DEF Facts

\* read_block and the comparison: only a truncated file makes it fail.
LEMMA CompareStep == ASSUME ConstantsOK, IInv, NEW r \in Ranks, ReadAndCompare(r) PROVE IInv'
<1>0. Facts(r) /\ TypeInv
  BY HaveFacts DEF Facts
<1>1. pc[r] = "read" /\ i[r] # r /\ i[r] < num_procs /\ epoch[r] = 1 + Base(this_pass[r]) + i[r] + 1
  BY <1>0 DEF ReadAndCompare, Facts, RankOK, PosOK, EpochOK, Early
<1>2. file[i[r]] = Expected(r)
  BY <1>1, ReaderFindsBlock DEF Expected
<1>3. epoch' = epoch /\ this_pass' = this_pass /\ startchar' = startchar /\ file' = file /\ truncated' = truncated
  BY DEF ReadAndCompare
<1>4. CASE truncated
  <2>1. pc' = pc /\ i' = i
    BY <1>4 DEF ReadAndCompare, Abort
  <2>2. TypeInv' /\ (\A q \in Ranks : Untouched(q)) /\ Left(r)' = Left(r)
    BY <1>0, <1>3, <2>1 DEF TypeInv, Untouched, Left, InBarrier
  <2>3. RankOK(r)'
    BY <1>0, <1>3, <2>1 DEF Facts, RankOK, PosOK, EpochOK, FileOK, Wrote, Early
  <2> QED BY <1>0, <1>3, <1>4, <2>2, <2>3, RankStep, SMT DEF Facts
<1>5. CASE ~ truncated
  <2>1. i' = [i EXCEPT ![r] = i[r] + 1] /\ pc' = [pc EXCEPT ![r] = "top"] /\ failed' = failed
    BY <1>2, <1>5 DEF ReadAndCompare, Goto
  <2>2. i'[r] = i[r] + 1 /\ pc'[r] = "top" /\ \A q \in Ranks : q # r => Untouched(q)
    BY <1>0, <1>3, <2>1 DEF TypeInv, Untouched
  <2>3. i[r] + 1 \in 0 .. num_procs
    BY <1>0, <1>1, SMT DEF Facts
  <2>4. TypeInv'
    BY <1>0, <1>3, <2>1, <2>3 DEF TypeInv
  <2>5. PosOK(r)'
    BY <2>2 DEF PosOK, Early
  <2>6. EpochOK(r)'
    BY <1>0, <1>1, <1>3, <2>2, SMT DEF EpochOK, Early, Facts
  <2>7. FileOK(r)'
    <3>1. Wrote(r)' <=> Wrote(r)
      BY <1>0, <1>1, <2>2, SMT DEF Wrote, Facts
    <3> QED BY <1>0, <1>3, <3>1 DEF Facts, RankOK, FileOK
  <2>8. Left(r)' = Left(r)
    BY <1>1, <1>3, <2>2 DEF Left, InBarrier
  <2> QED BY <1>0, <1>3, <2>1, <2>2, <2>4, <2>5, <2>6, <2>7, <2>8, RankStep, SMTT(30) DEF Facts, RankOK
<1> QED BY <1>4, <1>5

\* A call that fails ends the job, and a job that is over stays as it is.
LEMMA QuietStep ==
    ASSUME IInv, UNCHANGED <<pc, epoch, i, this_pass, startchar, file, truncated, failed>>
    PROVE  IInv'
<1>1. TypeInv' /\ BarrierInv' /\ CharInv' /\ NoFalseAlarm'
  BY DEF IInv, TypeInv, BarrierInv, Left, InBarrier, CharInv, NextStart, NoFalseAlarm
<1>2. \A r \in Ranks : RankOK(r)'
  BY SMT DEF IInv, RankOK, PosOK, EpochOK, FileOK, Wrote, Early, NextStart
<1> QED BY <1>1, <1>2 DEF IInv

\* Every step of every rank preserves the invariant.
LEMMA NextIInv == ASSUME ConstantsOK, IInv, [Next]_vars PROVE IInv'
<1>1. ASSUME NEW r \in Ranks, Step(r) PROVE IInv'
  <2>1. CASE Prepare(r)  BY <2>1, PrepareStep
  <2>2. CASE Enter(r, "to_prep", "in_prep")  BY <2>2, EnterStep, SMT
  <2>3. CASE PrepLeave(r)  BY <2>3, PrepLeaveStep
  <2>4. CASE LoopTop(r)  BY <2>4, BlockStep, PassStep
  <2>5. CASE DoWriter(r)  BY <2>5, WriterStep
  <2>6. CASE Enter(r, "to_write", "in_write")  BY <2>6, EnterStep, SMT
  <2>7. CASE WriterLeave(r)  BY <2>7, WriterLeaveStep
  <2>8. CASE Enter(r, "to_read", "in_read")  BY <2>8, EnterStep, SMT
  <2>9. CASE ReaderLeave(r)  BY <2>9, ReaderLeaveStep
  <2>10. CASE ReadAndCompare(r)  BY <2>10, CompareStep
  <2> QED BY <1>1, <2>1, <2>2, <2>3, <2>4, <2>5, <2>6, <2>7, <2>8, <2>9, <2>10, ZenonT(40) DEF Step
<1>2. ASSUME NEW r \in Ranks, CallFails(r) PROVE IInv'
  BY <1>2, QuietStep DEF CallFails, Abort
<1>3. CASE UNCHANGED vars
  BY <1>3, QuietStep DEF vars
<1> QED BY <1>1, <1>2, <1>3 DEF Next

\* The invariant gives LossIsNoticed: the block still has the character of the
\* pass before, which the rotation of startchar has left.
LEMMA IInvLoss == ASSUME ConstantsOK, IInv PROVE LossIsNoticed
<1> SUFFICES ASSUME NEW r \in Ranks, pc[r] = "write" PROVE file[i[r]] # Expected(r)
  BY DEF LossIsNoticed
<1>0. Facts(r) /\ i[r] = r /\ r \in Nat
  BY HaveFacts DEF Facts, RankOK, PosOK
<1>1. ~ Wrote(r)
  BY <1>0, SMT DEF Wrote
<1>2. startchar[r] \in 0 .. TopChar /\ startchar[r] + r \in Nat /\ TopChar \in Nat
  BY <1>0, Numbers, SMT DEF Facts, TypeInv
<1>3. CASE this_pass[r] = 0
  <2>1. file[r] = Zero /\ Zero \notin Nat
    BY <1>0, <1>1, <1>3 DEF Facts, RankOK, FileOK, ConstantsOK
  <2> QED BY <1>0, <1>2, <2>1 DEF Expected
<1>4. CASE this_pass[r] # 0
  <2>1. PICK c \in 0 .. TopChar : file[r] = c + r /\ startchar[r] = NextStart(c)
    BY <1>0, <1>1, <1>4 DEF Facts, RankOK, FileOK
  <2>2. c # startchar[r]
    BY <2>1, Rotation
  <2> QED BY <1>0, <1>2, <2>1, <2>2, SMT DEF Expected
<1> QED BY <1>3, <1>4

\* The invariant holds in every state of multi_mmap.
LEMMA SpecIInv == ASSUME ConstantsOK PROVE Spec => []IInv
<1>1. Init => IInv
  BY InitIInv
<1>2. IInv /\ [Next]_vars => IInv'
  BY NextIInv
<1> QED BY <1>1, <1>2, PTL DEF Spec

\* For every number of ranks, passes and characters: a rank of multi_mmap that
\* finds another character than the one it expects has been given a truncated
\* file (-e); the one barrier of write_verify_blocks is enough.
THEOREM MmapNoFalseAlarm == ASSUME ConstantsOK PROVE Spec => []NoFalseAlarm
<1>1. IInv => NoFalseAlarm
  BY DEF IInv
<1> QED BY <1>1, SpecIInv, PTL

\* Every write of do_writer changes its block, over the wrap-around of startchar
\* too, so that data of the pass before are never taken for new.
THEOREM MmapLossIsNoticed == ASSUME ConstantsOK PROVE Spec => []LossIsNoticed
<1>1. IInv => LossIsNoticed
  BY IInvLoss
<1> QED BY <1>1, SpecIInv, PTL

-----------------------------------------------------------------------------
\* multi_directio_test with two or more ranks, while nobody has aborted: the ranks other than
\* 0 have not got further than their first verification, so rank 0 stays in its second barrier.
FollowersInv ==
    \A r \in Directio!Ranks \ {0} :
        \/ m_pc[r] = "to_first" /\ m_epoch[r] = 0
        \/ m_pc[r] \in {"in_first", "open"} /\ m_epoch[r] = 1
LeaderInv ==
    \/ m_pc[0] \in {"prep", "to_first"} /\ m_epoch[0] = 0
    \/ m_pc[0] \in {"in_first", "open", "to_second"} /\ m_epoch[0] = 1
    \/ m_pc[0] = "in_second" /\ m_epoch[0] = 2
DirectioInv ==
    /\ size \in Nat \ {0}
    /\ DOMAIN m_pc = Directio!Ranks /\ m_epoch \in [Directio!Ranks -> Nat]
    /\ size > 1 /\ ~ m_aborted => FollowersInv /\ LeaderInv

\* It holds before the first barrier.
LEMMA DirectioStarts == ASSUME Directio!Init PROVE DirectioInv
BY DirectioConstants, SMT DEF Directio!Init, Directio!ConstantsOK, Directio!Ranks, DirectioInv,
                         FollowersInv, LeaderInv

\* What a step of rank r must do to keep the invariant.
LEMMA RankMoves ==
    ASSUME DirectioInv, ~ m_aborted, NEW r \in Directio!Ranks, NEW l, UNCHANGED size,
           m_pc' = [m_pc EXCEPT ![r] = l],
           UNCHANGED m_epoch \/ m_epoch' = Directio!Arrive(m_epoch, r),
           size > 1 /\ ~ m_aborted' =>
              IF r = 0 THEN \/ l \in {"prep", "to_first"} /\ m_epoch'[0] = 0
                            \/ l \in {"in_first", "open", "to_second"} /\ m_epoch'[0] = 1
                            \/ l = "in_second" /\ m_epoch'[0] = 2
              ELSE \/ l = "to_first" /\ m_epoch'[r] = 0
                   \/ l \in {"in_first", "open"} /\ m_epoch'[r] = 1
    PROVE  DirectioInv'
<1>1. Directio!Ranks' = Directio!Ranks /\ 0 \in Directio!Ranks
  BY SMT DEF Directio!Ranks, DirectioInv
<1>2. m_epoch' \in [Directio!Ranks -> Nat] /\ \A q \in Directio!Ranks \ {r} : m_epoch'[q] = m_epoch[q]
  BY SMT DEF DirectioInv, Directio!Arrive
<1>3. DOMAIN m_pc' = Directio!Ranks /\ m_pc'[r] = l /\ \A q \in Directio!Ranks \ {r} : m_pc'[q] = m_pc[q]
  BY DEF DirectioInv
<1>4. ASSUME size > 1, ~ m_aborted' PROVE FollowersInv' /\ LeaderInv'
  <2>1. FollowersInv /\ LeaderInv
    BY <1>4 DEF DirectioInv
  <2>2. FollowersInv'
    BY <1>1, <1>2, <1>3, <1>4, <2>1, SMT DEF FollowersInv
  <2>3. LeaderInv'
    BY <1>1, <1>2, <1>3, <1>4, <2>1 DEF LeaderInv
  <2> QED BY <2>2, <2>3
<1> QED BY <1>1, <1>2, <1>3, <1>4 DEF DirectioInv

\* A barrier is passed when all have arrived: rank 0 finds nobody in the second one.
LEMMA BarrierKeeps ==
    ASSUME DirectioInv, ~ m_aborted, NEW r \in Directio!Ranks, NEW at, NEW in, NEW next,
           \/ at = "to_first" /\ in = "in_first" /\ next = "open"
           \/ at = "to_second" /\ in = "in_second" /\ next = "loop"
           \/ /\ at \in {"to_top", "to_bottom", "to_last", "to_round"}
              /\ in \in {"in_top", "in_bottom", "in_last", "in_round"},
           Directio!Barrier(r, at, in, next)
    PROVE  DirectioInv'
<1>0. /\ 0 \in Directio!Ranks /\ size \in Nat /\ UNCHANGED <<size, m_aborted>>
      /\ m_epoch \in [Directio!Ranks -> Nat]
      /\ size > 1 => 1 \in Directio!Ranks \ {0}
      /\ size > 1 => FollowersInv /\ LeaderInv
  BY SMT DEF DirectioInv, Directio!Ranks, Directio!Barrier
<1>1. CASE m_pc[r] = at /\ m_epoch' = Directio!Arrive(m_epoch, r) /\ Directio!Goto(r, in)
  <2>1. m_epoch'[r] = m_epoch[r] + 1 /\ m_pc' = [m_pc EXCEPT ![r] = in]
    BY <1>0, <1>1 DEF Directio!Arrive, Directio!Goto
  <2>2. ASSUME size > 1, r # 0 PROVE in = "in_first" /\ m_epoch'[r] = 1
    BY <1>0, <1>1, <2>1, <2>2, SMTT(30) DEF FollowersInv
  <2>3. ASSUME size > 1, r = 0
        PROVE  \/ in = "in_first" /\ m_epoch'[0] = 1
               \/ in = "in_second" /\ m_epoch'[0] = 2
    <3>1. LeaderInv
      BY <1>0, <2>3
    <3> QED BY <1>1, <2>1, <2>3, <3>1, SMT DEF LeaderInv
  <2> QED BY <1>0, <1>1, <2>1, <2>2, <2>3, RankMoves
<1>2. CASE m_pc[r] = in /\ Directio!MayLeave(m_epoch, r) /\ Directio!Goto(r, next) /\ UNCHANGED m_epoch
  <2>1. m_pc' = [m_pc EXCEPT ![r] = next] /\ \A q \in Directio!Ranks : m_epoch[q] >= m_epoch[r]
    BY <1>0, <1>2 DEF Directio!MayLeave, Directio!Goto
  <2>2. ASSUME size > 1, r # 0 PROVE next = "open" /\ m_epoch'[r] = 1
    BY <1>0, <1>2, <2>1, <2>2 DEF FollowersInv
  <2>3. ASSUME size > 1, r = 0 PROVE next = "open" /\ m_epoch'[0] = 1
    <3>1. m_epoch[1] < 2
      BY <1>0, <2>3, SMT DEF FollowersInv
    <3>2. m_pc[0] = "in_first" /\ m_epoch[0] = 1
      BY <1>0, <1>2, <2>1, <2>3, <3>1, SMTT(30) DEF LeaderInv
    <3> QED BY <1>2, <2>3, <3>2
  <2> QED BY <1>0, <1>2, <2>1, <2>2, <2>3, RankMoves
<1> QED BY <1>1, <1>2 DEF Directio!Barrier

\* Every step of a rank and every barrier that opens keeps it.
LEMMA DirectioMoves == ASSUME DirectioInv, Directio!Next PROVE DirectioInv'
<1>1. ASSUME NEW r \in Directio!Ranks, Directio!Step(r) PROVE DirectioInv'
  <2>0. /\ ~ m_aborted /\ r \in Int
        /\ size > 1 => IF r = 0 THEN LeaderInv
                       ELSE \/ m_pc[r] = "to_first" /\ m_epoch[r] = 0
                            \/ m_pc[r] \in {"in_first", "open"} /\ m_epoch[r] = 1
    BY <1>1, SMT DEF Directio!Step, DirectioInv, FollowersInv, Directio!Ranks
  <2>1. CASE Directio!Prepare(r)
    BY <1>1, <2>0, <2>1, RankMoves DEF Directio!Prepare, Directio!should_exit, Directio!Goto, LeaderInv
  <2>2. CASE Directio!OpenOrVerify(r)
    <3>1. CASE r = 0
      <4>1. PICK l \in {"exited", "to_second"} :
                m_pc' = [m_pc EXCEPT ![r] = l] /\ (l = "exited" => m_aborted')
        BY <2>2, <3>1 DEF Directio!OpenOrVerify, Directio!should_exit, Directio!Goto
      <4>2. m_pc[0] = "open" /\ UNCHANGED <<size, m_epoch>>
        BY <2>2, <3>1 DEF Directio!OpenOrVerify
      <4> QED BY <1>1, <2>0, <3>1, <4>1, <4>2, RankMoves DEF LeaderInv
    <3>2. CASE r # 0
      <4>1. m_pc' = [m_pc EXCEPT ![r] = "exited"] /\ m_aborted' /\ UNCHANGED <<size, m_epoch>>
        BY <2>2, <3>2, SMT DEF Directio!OpenOrVerify, Directio!should_exit, Directio!Goto
      <4> QED BY <1>1, <2>0, <4>1, RankMoves
    <3> QED BY <3>1, <3>2
  <2>3. CASE Directio!LoopTop(r)
    BY <1>1, <2>0, <2>3, RankMoves DEF Directio!LoopTop, Directio!Goto, LeaderInv
  <2>4. CASE Directio!WriteChunk(r)
    BY <1>1, <2>0, <2>4, RankMoves DEF Directio!WriteChunk, Directio!should_exit, Directio!Goto, LeaderInv
  <2>5. CASE Directio!LoopNext(r)
    BY <1>1, <2>0, <2>5, RankMoves DEF Directio!LoopNext, Directio!Goto, LeaderInv
  <2>6. CASE Directio!RoundEnds(r)
    BY <1>1, <2>0, <2>6, RankMoves DEF Directio!RoundEnds, Directio!Goto, LeaderInv
  <2>7. CASE Directio!NextRound(r)
    BY <1>1, <2>0, <2>7, RankMoves DEF Directio!NextRound, Directio!Goto, LeaderInv
  <2> QED BY <1>1, <2>0, <2>1, <2>2, <2>3, <2>4, <2>5, <2>6, <2>7, BarrierKeeps, ZenonT(40) DEF Directio!Step
<1>2. CASE UNCHANGED Directio!vars
  BY <1>2 DEF Directio!vars, DirectioInv, FollowersInv, LeaderInv, Directio!Ranks
<1> QED BY <1>1, <1>2 DEF Directio!Next

\* It rules out a rank that waits in a barrier the others have left behind.
LEMMA DirectioSafe == ASSUME DirectioInv PROVE Directio!NobodyLeftBehind
<1>1. CASE size > 1
  BY <1>1 DEF DirectioInv, FollowersInv, LeaderInv, Directio!NobodyLeftBehind, Directio!Ranks
<1>2. CASE size = 1
  <2>1. \A r \in Directio!Ranks : r = 0
    BY <1>2, SMT DEF Directio!Ranks
  <2> QED BY <2>1 DEF Directio!NobodyLeftBehind
<1> QED BY <1>1, <1>2, SMT DEF DirectioInv

\* multi_directio_test, for every number of ranks, chunks and rounds: a rank ends alone only
\* after MPI_Abort, or when it is the only one.
THEOREM DirectioNobodyLeftBehind == MCSpec => []NobodyLeftBehind
<1> DEFINE Inv == what = "directio" => DirectioInv
<1>1. MCInit => Inv
  BY DirectioStarts DEF MCInit
<1>2. Inv /\ [MCNext]_MCvars => Inv'
  <2> SUFFICES ASSUME Inv, [MCNext]_MCvars, what' = "directio" PROVE DirectioInv'
    OBVIOUS
  <2>1. CASE what = "directio" /\ Directio!Next
    BY <2>1, DirectioMoves
  <2>2. CASE UNCHANGED MCvars
    BY <2>2 DEF MCvars, common, directio, DirectioInv, FollowersInv, LeaderInv, Directio!Ranks
  <2> QED BY <2>1, <2>2 DEF MCNext, RestMmap, RestFlock, RestDirectio, RestAppend
<1>3. Inv => NobodyLeftBehind
  BY DirectioSafe DEF NobodyLeftBehind
<1> QED BY <1>1, <1>2, <1>3, PTL DEF MCSpec

\* The proofs about write_append_truncate, for the variables of the run.
Proved == INSTANCE WriteAppendTruncate_proofs WITH Jobs <- AppendJobs, BufSize <- ReadBufSize,
            pc <- m_pc, epoch <- m_epoch, aborted <- m_aborted, file <- m_file

\* They are about the very specification that the run checks.
LEMMA SameInit ==
    /\ Append!ConstantsOK <=> Proved!ConstantsOK
    /\ Append!Init <=> Proved!Init
BY DEF Append!ConstantsOK, Append!Init, Proved!ConstantsOK, Proved!Init,
       Append!Ranks, Append!size, Append!nloops, Append!Rep, Append!NUL, Append!APPEND_CHAR,
       Proved!Ranks, Proved!size, Proved!nloops, Proved!Rep, Proved!NUL, Proved!APPEND_CHAR

\* Its actions are the same ones.
LEMMA SameNext == Append!Next <=> Proved!Next
BY DEF Append!PrepLeave, Append!Reset, Append!Enter, Append!StartLeave, Append!AppendWrite,
       Append!Truncate, Append!FsDamages, Append!EndLeave, Append!Check, Append!Bcast,
       Append!Finish, Append!CallFails, Append!Step, Append!Over, Append!Next, Append!Goto,
       Append!Sizes, Append!TruncateTo, Append!memcmp, Append!Differs, Append!TailBad,
       Append!Findings, Append!Arrive, Append!MayLeave, Append!vars, Append!Ranks, Append!size,
       Append!nloops, Append!Rep, Append!NUL, Append!APPEND_CHAR, Append!CHUNK_CHAR,
       Proved!PrepLeave, Proved!Reset, Proved!Enter, Proved!StartLeave, Proved!AppendWrite,
       Proved!Truncate, Proved!FsDamages, Proved!EndLeave, Proved!Check, Proved!Bcast,
       Proved!Finish, Proved!CallFails, Proved!Step, Proved!Over, Proved!Next, Proved!Goto,
       Proved!Sizes, Proved!TruncateTo, Proved!memcmp, Proved!Differs, Proved!TailBad,
       Proved!Findings, Proved!Arrive, Proved!MayLeave, Proved!vars, Proved!Ranks, Proved!size,
       Proved!nloops, Proved!Rep, Proved!NUL, Proved!APPEND_CHAR, Proved!CHUNK_CHAR

\* Its properties are the same ones.
LEMMA SameVerdict ==
    (Append!NoFalseAlarm <=> Proved!NoFalseAlarm) /\ (Append!WrongBytesNoticed <=> Proved!WrongBytesNoticed)
BY DEF Append!NoFalseAlarm, Append!WrongBytesNoticed, Append!Sizes, Append!AppendTruncate,
       Append!TruncateAppend, Append!Rep, Append!CHUNK_CHAR, Append!APPEND_CHAR, Append!NUL,
       Proved!NoFalseAlarm, Proved!WrongBytesNoticed, Proved!Sizes, Proved!AppendTruncate,
       Proved!TruncateAppend, Proved!Rep, Proved!CHUNK_CHAR, Proved!APPEND_CHAR, Proved!NUL

\* write_append_truncate, in every job: rank 0 never finds fault with a file that the file system
\* kept right, and never passes over wrong bytes in a file of the right length.
THEOREM AppendIsJudgedRight == MCSpec => []AppendJudgedRight
<1> DEFINE Inv == what = "append" => Proved!IInv
<1>1. MCInit => Inv
  BY AppendConstants, SameInit, Proved!InitInv, ZenonT(40) DEF MCInit
<1>2. Inv /\ [MCNext]_MCvars => Inv'
  <2> SUFFICES ASSUME Inv, [MCNext]_MCvars, what' = "append" PROVE Proved!IInv'
    OBVIOUS
  <2>1. what = "append" /\ [Append!Next]_(Append!vars)
    BY DEF MCNext, MCvars, RestMmap, RestFlock, RestDirectio, common, append, Append!vars
  <2>2. UNCHANGED Append!vars => UNCHANGED Proved!vars
    BY DEF Append!vars, Proved!vars
  <2> QED BY <2>1, <2>2, AppendConstants, SameInit, SameNext, Proved!NextInv, ZenonT(40)
<1>3. Inv => AppendJudgedRight
  BY SameVerdict DEF AppendJudgedRight, Proved!IInv, Proved!DataInv
<1> QED BY <1>1, <1>2, <1>3, PTL DEF MCSpec
==============================================================================
