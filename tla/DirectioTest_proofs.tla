------------------------- MODULE DirectioTest_proofs -------------------------
(***************************************************************************)
(* Proofs about DirectioTest for every number of children, of chunks and   *)
(* every mode: the semaphore keeps the children's writes apart, and no     *)
(* reset and no end of the parent finds a chunk half written.              *)
(***************************************************************************)
EXTENDS DirectioTest, DirectioChunk, TLAPS

\* Zenon is the prover of a leaf that names none.
USE Zenon

\* The child has taken the semaphore and not given it back: between semaphore_p
\* and semaphore_v, and in the loop again after a reset that was denied.
Holds(c) == undo[c] = 1

ChildOK(c) ==
    /\ pc[c] \in {"head", "tail", "log", "v", "sysrq"} => Holds(c)
    /\ pc[c] \in {"next", "crash_p", "exited"} => ~ Holds(c)
    /\ pc[c] # "exited" => j[c] < num_chunks /\ exit[c] = 0
    /\ pc[c] \in {"head", "tail", "log"} => wu[c] \in Units
    /\ pc[c] = "tail" => file[2 * wu[c].no] = wu[c]

\* At most one child has it, and the semaphore says whether one is.
MutexInv ==
    /\ \A c, d \in Children : Holds(c) /\ Holds(d) => c = d
    /\ sem = 0 => \E c \in Children : Holds(c)
    /\ sem = 1 => \A c \in Children : ~ Holds(c)

\* The two halves of a chunk differ only while a child is between them, or
\* after a call failed.
WholeInv ==
    AllWell => \A k \in Chunks :
        file[2 * k] = file[2 * k + 1] \/ \E c \in Children : pc[c] = "tail" /\ wu[c].no = k

\* The parent has waited for children that have exited, in their order.
WaitInv ==
    /\ \A c \in reaped : pc[c] = "exited"
    /\ \A c \in 1 .. wait_i : c \in reaped

\* When the children have stopped for good, none is inside.
StopInv == phase # "run" /\ AllWell => \A c \in Children : pc[c] \notin {"head", "tail", "log"}

IInv == TypeOK /\ (\A c \in Children : ChildOK(c)) /\ MutexInv /\ WholeInv /\ WaitInv /\ StopInv

-----------------------------------------------------------------------------
\* A new file, or one that prep_orig_file_in_chunks has filled, has whole chunks,
\* and nobody has the semaphore.
LEMMA InitInv == ASSUME ConstantsOK, Init PROVE IInv
<1> USE DEF Init
<1>n. num_children \in Nat BY DEF ConstantsOK
<1>0. num_chunks \in Nat /\ num_chunks > 0 /\ MaxTime \in Nat /\ MaxTime > 0 /\ Chars # {}
  BY SMT DEF ConstantsOK, Options
<1>1. \A h \in Halves : Prepared(h) \in Units
  <2> TAKE h \in Halves
  <2>1. h \div 2 \in Chunks BY <1>0, SMT DEF Halves, Chunks
  <2>2. (CHOOSE c \in Chars : TRUE) \in Chars BY <1>0
  <2>3. 1 \in 1 .. MaxTime BY <1>0, SMT
  <2> QED BY <2>1, <2>2, <2>3 DEF Prepared, Units
<1>w. wus \in [0 .. v_chunks -> {[ZeroUnit EXCEPT !.no = k] : k \in 0 .. v_chunks}] BY DEF NoRecords
<1>o. \A h \in Halves : Original(h) \in Units \cup {ZeroUnit} BY <1>1 DEF Original
<1>l. log = <<>> /\ sock = <<>> /\ v_k = 0 /\ Len(log) = 0 /\ log \in Seq(Units) BY SMT
<1>2. TypeOK BY <1>0, <1>o, <1>w, <1>l, <1>n, SMT DEF TypeOK, ConstantsOK, Options
<1>3. \A c \in Children : ChildOK(c) BY <1>0 DEF ChildOK, Holds
<1>4. MutexInv BY SMT DEF MutexInv, Holds
<1>5. WholeInv
  <2> SUFFICES ASSUME NEW k \in Chunks PROVE file[2 * k] = file[2 * k + 1]
    BY DEF WholeInv
  <2>1. 2 * k \in Halves /\ 2 * k + 1 \in Halves BY <1>0, SMT DEF Chunks, Halves
  <2>2. (2 * k) \div 2 = (2 * k + 1) \div 2 BY <1>0, SMT DEF Chunks
  <2> QED BY <2>1, <2>2 DEF Prepared, Original
<1>6. WaitInv /\ StopInv BY SMT DEF WaitInv, StopInv
<1> QED BY <1>2, <1>3, <1>4, <1>5, <1>6 DEF IInv


-----------------------------------------------------------------------------
\* The halves of a chunk are in the file, and different chunks have different ones.
LEMMA HalvesApart ==
    ASSUME num_chunks \in Nat, NEW k \in Chunks
    PROVE  /\ 2 * k \in Halves /\ 2 * k + 1 \in Halves /\ 2 * k # 2 * k + 1
           /\ \A m \in Chunks : /\ 2 * k # 2 * m + 1 /\ 2 * k + 1 # 2 * m
                                /\ k # m => 2 * k # 2 * m /\ 2 * k + 1 # 2 * m + 1
BY SMT DEF Chunks, Halves

\* A write inside the file keeps the size within it.
LEMMA SizeTyped ==
    ASSUME num_chunks \in Nat, NEW h \in Halves, NEW s \in 0 .. 2 * num_chunks
    PROVE  (IF h < s THEN s ELSE h + 1) \in 0 .. 2 * num_chunks
BY SMT DEF Halves

\* The loop counter stays within its bounds.
LEMMA CounterTyped ==
    ASSUME num_chunks \in Nat, NEW c \in Children, j \in [Children -> 0 .. num_chunks],
           j[c] < num_chunks
    PROVE  [j EXCEPT ![c] = j[c] + 1] \in [Children -> 0 .. num_chunks]
<1>1. j[c] + 1 \in 0 .. num_chunks BY SMT
<1> QED BY <1>1

\* The options stay what they were, and so does what is defined by them.
LEMMA OptionsStay ==
    ASSUME UNCHANGED options
    PROVE  /\ num_chunks' = num_chunks /\ v_chunks' = v_chunks /\ (Options' <=> Options)
           /\ Chunks' = Chunks /\ Halves' = Halves /\ Units' = Units
BY DEF options, Options, Chunks, Halves, Units

\* A step of child c leaves the state of the other children alone.
Frame(c) ==
    \A d \in Children : d # c =>
        pc'[d] = pc[d] /\ j'[d] = j[d] /\ wu'[d] = wu[d] /\ undo'[d] = undo[d] /\ exit'[d] = exit[d]

Take(c) == sem = 1 /\ sem' = 0 /\ undo'[c] = 1
Keep(c) == sem' = sem /\ undo'[c] = undo[c]
Give(c) == undo[c] = 1 /\ sem' = 1 /\ undo'[c] = 0

\* What a step of one child leaves to be shown when it does not write.
LEMMA OthersOK ==
    ASSUME IInv, NEW c \in Children, Frame(c), file' = file, UNCHANGED options, ChildOK(c)'
    PROVE  \A d \in Children : ChildOK(d)'
<1>z. /\ num_chunks' = num_chunks /\ v_chunks' = v_chunks /\ (Options' <=> Options)
      /\ Chunks' = Chunks /\ Halves' = Halves /\ Units' = Units
  BY OptionsStay
<1> SUFFICES ASSUME NEW d \in Children, d # c PROVE ChildOK(d)' OBVIOUS
<1> QED BY <1>z, SMT DEF Frame, IInv, ChildOK, Holds

\* The semaphore is taken, kept or given back.
LEMMA MutexKept ==
    ASSUME IInv, NEW c \in Children, Frame(c), Take(c) \/ Keep(c) \/ Give(c)
    PROVE  MutexInv'
<1>0. MutexInv /\ sem \in 0 .. 1 BY DEF IInv, TypeOK
<1>f. \A d \in Children : d # c => undo'[d] = undo[d] BY DEF Frame
<1>1. CASE Take(c)
  <2>1. \A d \in Children : undo[d] # 1 BY <1>0, <1>1 DEF Take, MutexInv, Holds
  <2> QED BY <1>f, <1>1, <2>1, SMT DEF Take, MutexInv, Holds
<1>2. CASE Keep(c)
  <2>1. \A d \in Children : undo'[d] = undo[d] BY <1>f, <1>2 DEF Keep
  <2> QED BY <1>0, <1>2, <2>1 DEF Keep, MutexInv, Holds
<1>3. CASE Give(c)
  <2>1. \A d \in Children : undo'[d] # 1 BY <1>0, <1>f, <1>3, SMT DEF Give, MutexInv, Holds
  <2> QED BY <1>3, <2>1 DEF Give, MutexInv, Holds
<1> QED BY <1>1, <1>2, <1>3

\* No step of a child makes all well again.
LEMMA WellBefore ==
    ASSUME IInv, NEW c \in Children, Frame(c), pc[c] # "exited", AllWell'
    PROVE  AllWell
BY DEF Frame, IInv, ChildOK, AllWell

\* A step that does not write leaves the chunks whole; a child leaves the
\* middle of a chunk only with an error.
LEMMA WholeKept ==
    ASSUME IInv, NEW c \in Children, Frame(c), file' = file, pc[c] # "exited",
           pc[c] = "tail" => exit'[c] # 0, UNCHANGED options
    PROVE  WholeInv'
<1>z. /\ num_chunks' = num_chunks /\ v_chunks' = v_chunks /\ (Options' <=> Options)
      /\ Chunks' = Chunks /\ Halves' = Halves /\ Units' = Units
  BY OptionsStay
<1> SUFFICES ASSUME AllWell', NEW k \in Chunks
             PROVE  \/ file[2 * k] = file[2 * k + 1]
                    \/ \E d \in Children : pc'[d] = "tail" /\ wu'[d].no = k
  BY <1>z DEF WholeInv
<1>1. \/ file[2 * k] = file[2 * k + 1]
      \/ \E d \in Children : pc[d] = "tail" /\ wu[d].no = k
  BY WellBefore DEF IInv, WholeInv
<1>2. pc[c] # "tail" BY DEF AllWell
<1> QED BY <1>1, <1>2 DEF Frame

\* A child that the parent has waited for takes no more steps.
LEMMA WaitKept ==
    ASSUME IInv, NEW c \in Children, Frame(c), pc[c] # "exited", UNCHANGED <<wait_i, reaped>>
    PROVE  WaitInv'
<1>1. \A d \in reaped : d \in Children /\ d # c BY DEF IInv, TypeOK, WaitInv
<1> QED BY <1>1 DEF Frame, IInv, WaitInv

\* The semaphore stays a 0 or a 1.
LEMMA SemTyped ==
    ASSUME IInv, NEW c \in Children, Frame(c), Take(c) \/ Keep(c) \/ Give(c),
           \E u \in Nat : undo' = [undo EXCEPT ![c] = u]
    PROVE  sem' \in 0 .. 1 /\ undo' \in [Children -> 0 .. 1]
<1>1. undo'[c] \in 0 .. 1 /\ sem' \in 0 .. 1 BY SMT DEF IInv, TypeOK, Take, Keep, Give
<1> QED BY <1>1 DEF IInv, TypeOK

\* What holds of a child before its step.
LEMMA AtChild ==
    ASSUME ConstantsOK, IInv, NEW c \in Children
    PROVE  /\ num_chunks \in Nat /\ num_chunks > 0 /\ MaxTime \in Nat
           /\ TypeOK /\ ChildOK(c) /\ undo[c] \in 0 .. 1 /\ j[c] \in 0 .. num_chunks
           /\ sem \in 0 .. 1
           /\ sem > 0 => sem = 1 /\ undo[c] = 0
           /\ Holds(c) => sem = 0 /\ undo[c] = 1
<1>1. TypeOK /\ ChildOK(c) /\ MutexInv BY DEF IInv
<1>2. sem \in 0 .. 1 /\ undo[c] \in 0 .. 1 /\ j[c] \in 0 .. num_chunks BY <1>1 DEF TypeOK
<1>3. sem > 0 => sem = 1 BY <1>2, SMT
<1>4. num_chunks \in Nat /\ num_chunks > 0
  <2>1. Options BY <1>1 DEF TypeOK
  <2> QED BY <2>1, SMT DEF Options
<1> QED BY <1>1, <1>2, <1>3, <1>4, SMT DEF ConstantsOK, MutexInv, Holds

\* semaphore_p and the choice of the write unit.
LEMMA PStep ==
    ASSUME ConstantsOK, IInv, NEW c \in Children, P(c), phase = "run", UNCHANGED options
    PROVE  IInv'
<1> USE DEF P, Goto, child, logs, parent, verifier
<1>z. /\ num_chunks' = num_chunks /\ v_chunks' = v_chunks /\ (Options' <=> Options)
      /\ Chunks' = Chunks /\ Halves' = Halves /\ Units' = Units
  BY OptionsStay
<1>a. /\ num_chunks \in Nat /\ num_chunks > 0 /\ MaxTime \in Nat
      /\ TypeOK /\ ChildOK(c) /\ undo[c] \in 0 .. 1 /\ j[c] \in 0 .. num_chunks
      /\ sem \in 0 .. 1
      /\ sem > 0 => sem = 1 /\ undo[c] = 0
      /\ Holds(c) => sem = 0 /\ undo[c] = 1
  BY AtChild
<1>f. Frame(c) BY <1>a DEF TypeOK, Frame
<1>k. Take(c) BY <1>a, SMT DEF TypeOK, ChildOK, Holds, Take
<1>s. sem' \in 0 .. 1 /\ undo' \in [Children -> 0 .. 1]
  <2>0. undo' = [undo EXCEPT ![c] = undo[c] + 1] /\ undo[c] + 1 \in Nat BY <1>a, SMT
  <2>1. \E u \in Nat : undo' = [undo EXCEPT ![c] = u] BY <2>0
  <2> QED BY <1>f, <1>k, <2>1, SemTyped
<1>1. TypeOK'
  <2>2. PICK u \in Units : wu' = [wu EXCEPT ![c] = u] /\ clock' = u.ts
    OBVIOUS
  <2>3. u.ts \in 1 .. MaxTime BY DEF Units
  <2>4. wu' \in [Children -> Units \cup {ZeroUnit}] /\ clock' \in 1 .. MaxTime
    BY <1>a, <2>2, <2>3 DEF TypeOK
  <2> QED BY <1>z, <1>a, <1>s, <2>4 DEF TypeOK
<1>c. ChildOK(c)' BY <1>z, <1>a, SMT DEF TypeOK, ChildOK, Holds
<1>2. \A d \in Children : ChildOK(d)' BY <1>f, <1>c, OthersOK
<1>3. MutexInv' BY <1>f, <1>k, MutexKept
<1>4. WholeInv'
  <2>1. pc[c] # "exited" /\ file' = file /\ (pc[c] = "tail" => exit'[c] # 0)
    BY <1>a DEF TypeOK
  <2> QED BY <1>f, <2>1, WholeKept
<1>5. WaitInv' BY <1>f, WaitKept
<1>6. StopInv' BY DEF StopInv
<1> QED BY <1>1, <1>2, <1>3, <1>4, <1>5, <1>6 DEF IInv

\* The first pwrite of write_at.
LEMMA WriteHeadStep ==
    ASSUME ConstantsOK, IInv, NEW c \in Children, WriteHead(c), phase = "run", UNCHANGED options
    PROVE  IInv'
<1> USE DEF WriteHead, PutHalf, Goto, child, logs, parent, verifier
<1>z. /\ num_chunks' = num_chunks /\ v_chunks' = v_chunks /\ (Options' <=> Options)
      /\ Chunks' = Chunks /\ Halves' = Halves /\ Units' = Units
  BY OptionsStay
<1>a. /\ num_chunks \in Nat /\ num_chunks > 0 /\ MaxTime \in Nat
      /\ TypeOK /\ ChildOK(c) /\ undo[c] \in 0 .. 1 /\ j[c] \in 0 .. num_chunks
      /\ sem \in 0 .. 1
      /\ sem > 0 => sem = 1 /\ undo[c] = 0
      /\ Holds(c) => sem = 0 /\ undo[c] = 1
  BY AtChild
<1>f. Frame(c) BY <1>a DEF TypeOK, Frame
<1>k. Keep(c) BY <1>a DEF TypeOK, ChildOK, Holds, Keep
<1>s. sem' \in 0 .. 1 /\ undo' \in [Children -> 0 .. 1]
  <2>1. \E u \in Nat : undo' = [undo EXCEPT ![c] = u] BY <1>a, SMT DEF TypeOK
  <2> QED BY <1>f, <1>k, <2>1, SemTyped
<1>1. TypeOK'
  <2>2. wu[c] \in Units /\ wu[c].no \in Chunks BY <1>a DEF ChildOK, Units
  <2>3. 2 * wu[c].no \in Halves BY <1>a, <2>2, HalvesApart
  <2>4. isize' \in 0 .. 2 * num_chunks
    <3>1. isize \in 0 .. 2 * num_chunks BY <1>a DEF TypeOK
    <3> QED BY <1>a, <2>3, <3>1, SizeTyped
  <2>5. file' \in [Halves -> Units \cup {ZeroUnit}] BY <1>a, <2>2 DEF TypeOK
  <2> QED BY <1>z, <1>a, <1>s, <2>4, <2>5 DEF TypeOK
<1>c. ChildOK(c)'
  <2>0. wu[c].no \in Chunks BY <1>a DEF ChildOK, Units
  <2>1. 2 * wu[c].no \in Halves BY <1>a, <2>0, HalvesApart
  <2> QED BY <1>z, <1>a, <2>1 DEF TypeOK, ChildOK, Holds
<1>2. \A d \in Children : ChildOK(d)'
  <2> SUFFICES ASSUME NEW d \in Children, d # c PROVE ChildOK(d)' BY <1>c
  <2>1. pc[d] # "tail" BY <1>a DEF IInv, MutexInv, ChildOK
  <2> QED BY <1>z, <1>f, <2>1 DEF Frame, IInv, ChildOK, Holds
<1>3. MutexInv' BY <1>f, <1>k, MutexKept
<1>4. WholeInv'
  <2> SUFFICES ASSUME AllWell', NEW k \in Chunks
               PROVE  \/ file'[2 * k] = file'[2 * k + 1]
                      \/ \E d \in Children : pc'[d] = "tail" /\ wu'[d].no = k
    BY <1>z DEF WholeInv
  <2>1. wu[c].no \in Chunks BY <1>a DEF ChildOK, Units
  <2>2. CASE k = wu[c].no BY <1>a, <2>2 DEF TypeOK
  <2>3. CASE k # wu[c].no
    <3>1. /\ 2 * k # 2 * wu[c].no /\ 2 * k + 1 # 2 * wu[c].no
          /\ 2 * k \in Halves /\ 2 * k + 1 \in Halves
      BY <1>a, <2>1, <2>3, HalvesApart
    <3>2. file'[2 * k] = file[2 * k] /\ file'[2 * k + 1] = file[2 * k + 1]
      BY <1>a, <3>1 DEF TypeOK
    <3>3. AllWell BY <1>f, WellBefore
    <3>4. ~ \E d \in Children : pc[d] = "tail"
      BY <1>a DEF IInv, MutexInv, ChildOK
    <3> QED BY <3>2, <3>3, <3>4 DEF IInv, WholeInv
  <2> QED BY <2>2, <2>3
<1>5. WaitInv' BY <1>f, WaitKept
<1>6. StopInv' BY DEF StopInv
<1> QED BY <1>1, <1>2, <1>3, <1>4, <1>5, <1>6 DEF IInv

\* The last pwrite of write_at.
LEMMA WriteTailStep ==
    ASSUME ConstantsOK, IInv, NEW c \in Children, WriteTail(c), phase = "run", UNCHANGED options
    PROVE  IInv'
<1> USE DEF WriteTail, PutHalf, Goto, child, logs, parent, verifier
<1>z. /\ num_chunks' = num_chunks /\ v_chunks' = v_chunks /\ (Options' <=> Options)
      /\ Chunks' = Chunks /\ Halves' = Halves /\ Units' = Units
  BY OptionsStay
<1>a. /\ num_chunks \in Nat /\ num_chunks > 0 /\ MaxTime \in Nat
      /\ TypeOK /\ ChildOK(c) /\ undo[c] \in 0 .. 1 /\ j[c] \in 0 .. num_chunks
      /\ sem \in 0 .. 1
      /\ sem > 0 => sem = 1 /\ undo[c] = 0
      /\ Holds(c) => sem = 0 /\ undo[c] = 1
  BY AtChild
<1>f. Frame(c) BY <1>a DEF TypeOK, Frame
<1>k. Keep(c) BY <1>a DEF TypeOK, ChildOK, Holds, Keep
<1>s. sem' \in 0 .. 1 /\ undo' \in [Children -> 0 .. 1]
  <2>1. \E u \in Nat : undo' = [undo EXCEPT ![c] = u] BY <1>a, SMT DEF TypeOK
  <2> QED BY <1>f, <1>k, <2>1, SemTyped
<1>1. TypeOK'
  <2>2. wu[c] \in Units /\ wu[c].no \in Chunks BY <1>a DEF ChildOK, Units
  <2>3. 2 * wu[c].no + 1 \in Halves BY <1>a, <2>2, HalvesApart
  <2>4. isize' \in 0 .. 2 * num_chunks
    <3>1. isize \in 0 .. 2 * num_chunks BY <1>a DEF TypeOK
    <3> QED BY <1>a, <2>3, <3>1, SizeTyped
  <2>5. file' \in [Halves -> Units \cup {ZeroUnit}] BY <1>a, <2>2 DEF TypeOK
  <2> QED BY <1>z, <1>a, <1>s, <2>4, <2>5 DEF TypeOK
<1>c. ChildOK(c)' BY <1>z, <1>a DEF TypeOK, ChildOK, Holds
<1>2. \A d \in Children : ChildOK(d)'
  <2> SUFFICES ASSUME NEW d \in Children, d # c PROVE ChildOK(d)' BY <1>c
  <2>1. pc[d] # "tail" BY <1>a DEF IInv, MutexInv, ChildOK
  <2> QED BY <1>z, <1>f, <2>1 DEF Frame, IInv, ChildOK, Holds
<1>3. MutexInv' BY <1>f, <1>k, MutexKept
<1>4. WholeInv'
  <2> SUFFICES ASSUME AllWell', NEW k \in Chunks
               PROVE  file'[2 * k] = file'[2 * k + 1]
    BY <1>z DEF WholeInv
  <2>1. wu[c].no \in Chunks BY <1>a DEF ChildOK, Units
  <2>2. AllWell BY <1>f, WellBefore
  <2>3. CASE k = wu[c].no
    <3>1. 2 * k # 2 * k + 1 /\ 2 * k + 1 \in Halves BY <1>a, HalvesApart
    <3>2. file'[2 * k] = wu[c] /\ file'[2 * k + 1] = wu[c]
      BY <1>a, <2>3, <3>1, SMT DEF TypeOK, ChildOK
    <3> QED BY <3>2
  <2>4. CASE k # wu[c].no
    <3>1. /\ 2 * k # 2 * wu[c].no + 1 /\ 2 * k + 1 # 2 * wu[c].no + 1
          /\ 2 * k \in Halves /\ 2 * k + 1 \in Halves
      BY <1>a, <2>1, <2>4, HalvesApart
    <3>2. file'[2 * k] = file[2 * k] /\ file'[2 * k + 1] = file[2 * k + 1]
      BY <1>a, <3>1 DEF TypeOK
    <3>3. ~ \E d \in Children : pc[d] = "tail" /\ wu[d].no = k
      BY <1>a, <2>4 DEF IInv, MutexInv, ChildOK
    <3> QED BY <2>2, <3>2, <3>3 DEF IInv, WholeInv
  <2> QED BY <2>3, <2>4
<1>5. WaitInv' BY <1>f, WaitKept
<1>6. StopInv' BY DEF StopInv
<1> QED BY <1>1, <1>2, <1>3, <1>4, <1>5, <1>6 DEF IInv

\* log_write.
LEMMA log_writeStep ==
    ASSUME ConstantsOK, IInv, NEW c \in Children, log_write(c), phase = "run", UNCHANGED options
    PROVE  IInv'
<1> USE DEF log_write, Goto, child, logs, parent, verifier
<1>z. /\ num_chunks' = num_chunks /\ v_chunks' = v_chunks /\ (Options' <=> Options)
      /\ Chunks' = Chunks /\ Halves' = Halves /\ Units' = Units
  BY OptionsStay
<1>a. /\ num_chunks \in Nat /\ num_chunks > 0 /\ MaxTime \in Nat
      /\ TypeOK /\ ChildOK(c) /\ undo[c] \in 0 .. 1 /\ j[c] \in 0 .. num_chunks
      /\ sem \in 0 .. 1
      /\ sem > 0 => sem = 1 /\ undo[c] = 0
      /\ Holds(c) => sem = 0 /\ undo[c] = 1
  BY AtChild
<1>f. Frame(c) BY <1>a DEF TypeOK, Frame
<1>k. Keep(c) BY <1>a DEF TypeOK, ChildOK, Holds, Keep
<1>s. sem' \in 0 .. 1 /\ undo' \in [Children -> 0 .. 1]
  <2>1. \E u \in Nat : undo' = [undo EXCEPT ![c] = u] BY <1>a, SMTT(30) DEF TypeOK
  <2> QED BY <1>f, <1>k, <2>1, SemTyped
<1>1. TypeOK'
  <2>2. wu[c] \in Units BY <1>a DEF ChildOK
  <2>3. Append(log, wu[c]) \in Seq(Units) /\ Append(sock, wu[c]) \in Seq(Units)
    BY <1>a, <2>2, SMT DEF TypeOK
  <2>4. log' \in Seq(Units) /\ sock' \in Seq(Units) BY <1>a, <2>3 DEF TypeOK
  <2>5. v_k' \in 0 .. Len(log') BY <1>a, SMTT(30) DEF TypeOK
  <2> QED BY <1>z, <1>a, <1>s, <2>4, <2>5 DEF TypeOK
<1>c. ChildOK(c)' BY <1>z, <1>a DEF TypeOK, ChildOK, Holds
<1>2. \A d \in Children : ChildOK(d)' BY <1>f, <1>c, OthersOK
<1>3. MutexInv' BY <1>f, <1>k, MutexKept
<1>4. WholeInv'
  <2>1. pc[c] # "exited" /\ file' = file /\ (pc[c] = "tail" => exit'[c] # 0)
    BY <1>a DEF TypeOK
  <2> QED BY <1>f, <2>1, WholeKept
<1>5. WaitInv' BY <1>f, WaitKept
<1>6. StopInv' BY DEF StopInv
<1> QED BY <1>1, <1>2, <1>3, <1>4, <1>5, <1>6 DEF IInv

\* A record that is lost although log_write returns 0.
LEMMA LogLostStep ==
    ASSUME ConstantsOK, IInv, NEW c \in Children, LogLost(c), phase = "run", UNCHANGED options
    PROVE  IInv'
<1> USE DEF LogLost, Goto, child, logs, parent, verifier
<1>z. /\ num_chunks' = num_chunks /\ v_chunks' = v_chunks /\ (Options' <=> Options)
      /\ Chunks' = Chunks /\ Halves' = Halves /\ Units' = Units
  BY OptionsStay
<1>a. /\ num_chunks \in Nat /\ num_chunks > 0 /\ MaxTime \in Nat
      /\ TypeOK /\ ChildOK(c) /\ undo[c] \in 0 .. 1 /\ j[c] \in 0 .. num_chunks
      /\ sem \in 0 .. 1
      /\ sem > 0 => sem = 1 /\ undo[c] = 0
      /\ Holds(c) => sem = 0 /\ undo[c] = 1
  BY AtChild
<1>f. Frame(c) BY <1>a DEF TypeOK, Frame
<1>k. Keep(c) BY <1>a DEF TypeOK, ChildOK, Holds, Keep
<1>s. sem' \in 0 .. 1 /\ undo' \in [Children -> 0 .. 1]
  <2>1. \E u \in Nat : undo' = [undo EXCEPT ![c] = u] BY <1>a, SMTT(30) DEF TypeOK
  <2> QED BY <1>f, <1>k, <2>1, SemTyped
<1>1. TypeOK'
  <2>1. wu[c] \in Units BY <1>a DEF ChildOK
  <2>2. lost' \subseteq Units BY <1>a, <2>1 DEF TypeOK
  <2> QED BY <1>z, <1>a, <1>s, <2>2 DEF TypeOK
<1>c. ChildOK(c)' BY <1>z, <1>a DEF TypeOK, ChildOK, Holds
<1>2. \A d \in Children : ChildOK(d)' BY <1>f, <1>c, OthersOK
<1>3. MutexInv' BY <1>f, <1>k, MutexKept
<1>4. WholeInv'
  <2>1. pc[c] # "exited" /\ file' = file /\ (pc[c] = "tail" => exit'[c] # 0)
    BY <1>a DEF TypeOK
  <2> QED BY <1>f, <2>1, WholeKept
<1>5. WaitInv' BY <1>f, WaitKept
<1>6. StopInv' BY DEF StopInv
<1> QED BY <1>1, <1>2, <1>3, <1>4, <1>5, <1>6 DEF IInv

\* A failed call between semaphore_p and semaphore_v, given back by SEM_UNDO.
LEMMA IOFailsStep ==
    ASSUME ConstantsOK, IInv, NEW c \in Children, IOFails(c), phase = "run", UNCHANGED options
    PROVE  IInv'
<1> USE DEF IOFails, Exit, Goto, child, logs, parent, verifier
<1>z. /\ num_chunks' = num_chunks /\ v_chunks' = v_chunks /\ (Options' <=> Options)
      /\ Chunks' = Chunks /\ Halves' = Halves /\ Units' = Units
  BY OptionsStay
<1>a. /\ num_chunks \in Nat /\ num_chunks > 0 /\ MaxTime \in Nat
      /\ TypeOK /\ ChildOK(c) /\ undo[c] \in 0 .. 1 /\ j[c] \in 0 .. num_chunks
      /\ sem \in 0 .. 1
      /\ sem > 0 => sem = 1 /\ undo[c] = 0
      /\ Holds(c) => sem = 0 /\ undo[c] = 1
  BY AtChild
<1>f. Frame(c) BY <1>a DEF TypeOK, Frame
<1>k. Give(c) BY <1>a, SMT DEF TypeOK, ChildOK, Holds, Give
<1>s. sem' \in 0 .. 1 /\ undo' \in [Children -> 0 .. 1]
  <2>1. \E u \in Nat : undo' = [undo EXCEPT ![c] = u] BY <1>a DEF TypeOK
  <2> QED BY <1>f, <1>k, <2>1, SemTyped
<1>1. TypeOK'
  <2> QED BY <1>z, <1>a, <1>s DEF TypeOK, ChildOK
<1>c. ChildOK(c)' BY <1>a, SMT DEF TypeOK, ChildOK, Holds
<1>2. \A d \in Children : ChildOK(d)' BY <1>f, <1>c, OthersOK
<1>3. MutexInv' BY <1>f, <1>k, MutexKept
<1>4. WholeInv'
  <2>1. pc[c] # "exited" /\ file' = file /\ (pc[c] = "tail" => exit'[c] # 0)
    BY <1>a, SMT DEF TypeOK
  <2> QED BY <1>f, <2>1, WholeKept
<1>5. WaitInv' BY <1>f, WaitKept
<1>6. StopInv' BY DEF StopInv
<1> QED BY <1>1, <1>2, <1>3, <1>4, <1>5, <1>6 DEF IInv

\* semaphore_v.
LEMMA VStep ==
    ASSUME ConstantsOK, IInv, NEW c \in Children, V(c), phase = "run", UNCHANGED options
    PROVE  IInv'
<1> USE DEF V, Goto, child, logs, parent, verifier
<1>z. /\ num_chunks' = num_chunks /\ v_chunks' = v_chunks /\ (Options' <=> Options)
      /\ Chunks' = Chunks /\ Halves' = Halves /\ Units' = Units
  BY OptionsStay
<1>a. /\ num_chunks \in Nat /\ num_chunks > 0 /\ MaxTime \in Nat
      /\ TypeOK /\ ChildOK(c) /\ undo[c] \in 0 .. 1 /\ j[c] \in 0 .. num_chunks
      /\ sem \in 0 .. 1
      /\ sem > 0 => sem = 1 /\ undo[c] = 0
      /\ Holds(c) => sem = 0 /\ undo[c] = 1
  BY AtChild
<1>f. Frame(c) BY <1>a DEF TypeOK, Frame
<1>k. Give(c) BY <1>a, SMT DEF TypeOK, ChildOK, Holds, Give
<1>s. sem' \in 0 .. 1 /\ undo' \in [Children -> 0 .. 1]
  <2>0. undo' = [undo EXCEPT ![c] = undo[c] - 1] /\ undo[c] - 1 \in Nat BY <1>a, SMT DEF ChildOK
  <2>1. \E u \in Nat : undo' = [undo EXCEPT ![c] = u] BY <2>0
  <2> QED BY <1>f, <1>k, <2>1, SemTyped
<1>1. TypeOK'
  <2> QED BY <1>z, <1>a, <1>s DEF TypeOK, ChildOK
<1>c. ChildOK(c)' BY <1>z, <1>a, SMT DEF TypeOK, ChildOK, Holds
<1>2. \A d \in Children : ChildOK(d)' BY <1>f, <1>c, OthersOK
<1>3. MutexInv' BY <1>f, <1>k, MutexKept
<1>4. WholeInv'
  <2>1. pc[c] # "exited" /\ file' = file /\ (pc[c] = "tail" => exit'[c] # 0)
    BY <1>a DEF TypeOK
  <2> QED BY <1>f, <2>1, WholeKept
<1>5. WaitInv' BY <1>f, WaitKept
<1>6. StopInv' BY DEF StopInv
<1> QED BY <1>1, <1>2, <1>3, <1>4, <1>5, <1>6 DEF IInv

\* The end of an iteration.
LEMMA ContinueStep ==
    ASSUME ConstantsOK, IInv, NEW c \in Children, Continue(c), phase = "run", UNCHANGED options
    PROVE  IInv'
<1> USE DEF Continue, NextChunk, Exit, Goto, child, logs, parent, verifier
<1>z. /\ num_chunks' = num_chunks /\ v_chunks' = v_chunks /\ (Options' <=> Options)
      /\ Chunks' = Chunks /\ Halves' = Halves /\ Units' = Units
  BY OptionsStay
<1>a. /\ num_chunks \in Nat /\ num_chunks > 0 /\ MaxTime \in Nat
      /\ TypeOK /\ ChildOK(c) /\ undo[c] \in 0 .. 1 /\ j[c] \in 0 .. num_chunks
      /\ sem \in 0 .. 1
      /\ sem > 0 => sem = 1 /\ undo[c] = 0
      /\ Holds(c) => sem = 0 /\ undo[c] = 1
  BY AtChild
<1>f. Frame(c) BY <1>a, SMTT(30) DEF TypeOK, Frame
<1>k. Keep(c)
  <2>1. CASE j[c] + 1 < num_chunks BY <2>1 DEF Keep
  <2>2. CASE ~ (j[c] + 1 < num_chunks)
    <3>1. sem' = sem + undo[c] /\ undo'[c] = 0 BY <1>a, <2>2 DEF TypeOK
    <3> QED BY <1>a, <3>1, SMT DEF ChildOK, Holds, Keep
  <2> QED BY <2>1, <2>2
<1>s. sem' \in 0 .. 1 /\ undo' \in [Children -> 0 .. 1]
  <2>0. undo' = undo \/ undo' = [undo EXCEPT ![c] = 0] OBVIOUS
  <2>t. undo = [undo EXCEPT ![c] = undo[c]] BY <1>a DEF TypeOK
  <2>1. \E u \in Nat : undo' = [undo EXCEPT ![c] = u] BY <1>a, <2>0, <2>t, SMT
  <2> QED BY <1>f, <1>k, <2>1, SemTyped
<1>1. TypeOK'
  <2>2. j' \in [Children -> 0 .. num_chunks]
    <3>1. j \in [Children -> 0 .. num_chunks] /\ j[c] < num_chunks BY <1>a DEF TypeOK, ChildOK
    <3>2. j' = [j EXCEPT ![c] = j[c] + 1] OBVIOUS
    <3> QED BY <1>a, <3>1, <3>2, CounterTyped
  <2>3. pc'[c] \in {"p", "exited"} /\ pc' = [pc EXCEPT ![c] = pc'[c]] BY <1>a DEF TypeOK
  <2>e. exit' = exit \/ exit' = [exit EXCEPT ![c] = 0] OBVIOUS
  <2>x. exit \in [Children -> 0 .. 1] BY <1>a DEF TypeOK
  <2>4. exit' \in [Children -> 0 .. 1]
    <3> HIDE DEF Continue, SysrqDenied, NextChunk, Exit
    <3> QED BY <2>e, <2>x, SMT
  <2> QED BY <1>z, <1>a, <1>s, <2>2, <2>3, <2>4, ZenonT(40) DEF TypeOK
<1>c. ChildOK(c)'
  <2>1. CASE j[c] + 1 < num_chunks BY <1>z, <1>a, <2>1 DEF TypeOK, ChildOK, Holds
  <2>2. CASE ~ (j[c] + 1 < num_chunks) BY <1>a, <2>2, SMT DEF TypeOK, ChildOK, Holds
  <2> QED BY <2>1, <2>2
<1>2. \A d \in Children : ChildOK(d)' BY <1>f, <1>c, OthersOK
<1>3. MutexInv' BY <1>f, <1>k, MutexKept
<1>4. WholeInv'
  <2>1. pc[c] # "exited" /\ file' = file /\ (pc[c] = "tail" => exit'[c] # 0)
    BY <1>a DEF TypeOK
  <2> QED BY <1>f, <2>1, WholeKept
<1>5. WaitInv' BY <1>f, WaitKept
<1>6. StopInv' BY DEF StopInv
<1> QED BY <1>1, <1>2, <1>3, <1>4, <1>5, <1>6 DEF IInv

\* The decision to reset the machine.
LEMMA ReadyToCrashStep ==
    ASSUME ConstantsOK, IInv, NEW c \in Children, ReadyToCrash(c), phase = "run", UNCHANGED options
    PROVE  IInv'
<1> USE DEF ReadyToCrash, Goto, child, logs, parent, verifier
<1>z. /\ num_chunks' = num_chunks /\ v_chunks' = v_chunks /\ (Options' <=> Options)
      /\ Chunks' = Chunks /\ Halves' = Halves /\ Units' = Units
  BY OptionsStay
<1>a. /\ num_chunks \in Nat /\ num_chunks > 0 /\ MaxTime \in Nat
      /\ TypeOK /\ ChildOK(c) /\ undo[c] \in 0 .. 1 /\ j[c] \in 0 .. num_chunks
      /\ sem \in 0 .. 1
      /\ sem > 0 => sem = 1 /\ undo[c] = 0
      /\ Holds(c) => sem = 0 /\ undo[c] = 1
  BY AtChild
<1>f. Frame(c) BY <1>a DEF TypeOK, Frame
<1>k. Keep(c) BY <1>a DEF TypeOK, ChildOK, Holds, Keep
<1>s. sem' \in 0 .. 1 /\ undo' \in [Children -> 0 .. 1]
  <2>1. \E u \in Nat : undo' = [undo EXCEPT ![c] = u] BY <1>a, SMT DEF TypeOK
  <2> QED BY <1>f, <1>k, <2>1, SemTyped
<1>1. TypeOK'
  <2> QED BY <1>z, <1>a, <1>s DEF TypeOK, ChildOK
<1>c. ChildOK(c)' BY <1>z, <1>a DEF TypeOK, ChildOK, Holds
<1>2. \A d \in Children : ChildOK(d)' BY <1>f, <1>c, OthersOK
<1>3. MutexInv' BY <1>f, <1>k, MutexKept
<1>4. WholeInv'
  <2>1. pc[c] # "exited" /\ file' = file /\ (pc[c] = "tail" => exit'[c] # 0)
    BY <1>a DEF TypeOK
  <2> QED BY <1>f, <2>1, WholeKept
<1>5. WaitInv' BY <1>f, WaitKept
<1>6. StopInv' BY DEF StopInv
<1> QED BY <1>1, <1>2, <1>3, <1>4, <1>5, <1>6 DEF IInv

\* semaphore_p before the reset.
LEMMA CrashPStep ==
    ASSUME ConstantsOK, IInv, NEW c \in Children, CrashP(c), phase = "run", UNCHANGED options
    PROVE  IInv'
<1> USE DEF CrashP, Goto, child, logs, parent, verifier
<1>z. /\ num_chunks' = num_chunks /\ v_chunks' = v_chunks /\ (Options' <=> Options)
      /\ Chunks' = Chunks /\ Halves' = Halves /\ Units' = Units
  BY OptionsStay
<1>a. /\ num_chunks \in Nat /\ num_chunks > 0 /\ MaxTime \in Nat
      /\ TypeOK /\ ChildOK(c) /\ undo[c] \in 0 .. 1 /\ j[c] \in 0 .. num_chunks
      /\ sem \in 0 .. 1
      /\ sem > 0 => sem = 1 /\ undo[c] = 0
      /\ Holds(c) => sem = 0 /\ undo[c] = 1
  BY AtChild
<1>f. Frame(c) BY <1>a DEF TypeOK, Frame
<1>k. Take(c) BY <1>a, SMT DEF TypeOK, ChildOK, Holds, Take
<1>s. sem' \in 0 .. 1 /\ undo' \in [Children -> 0 .. 1]
  <2>0. undo' = [undo EXCEPT ![c] = undo[c] + 1] /\ undo[c] + 1 \in Nat BY <1>a, SMT
  <2>1. \E u \in Nat : undo' = [undo EXCEPT ![c] = u] BY <2>0
  <2> QED BY <1>f, <1>k, <2>1, SemTyped
<1>1. TypeOK'
  <2> QED BY <1>z, <1>a, <1>s DEF TypeOK, ChildOK
<1>c. ChildOK(c)' BY <1>z, <1>a, SMT DEF TypeOK, ChildOK, Holds
<1>2. \A d \in Children : ChildOK(d)' BY <1>f, <1>c, OthersOK
<1>3. MutexInv' BY <1>f, <1>k, MutexKept
<1>4. WholeInv'
  <2>1. pc[c] # "exited" /\ file' = file /\ (pc[c] = "tail" => exit'[c] # 0)
    BY <1>a DEF TypeOK
  <2> QED BY <1>f, <2>1, WholeKept
<1>5. WaitInv' BY <1>f, WaitKept
<1>6. StopInv' BY DEF StopInv
<1> QED BY <1>1, <1>2, <1>3, <1>4, <1>5, <1>6 DEF IInv

\* The reset.
LEMMA SysrqStep ==
    ASSUME ConstantsOK, IInv, NEW c \in Children, Sysrq(c), phase = "run", UNCHANGED options
    PROVE  IInv'
<1> USE DEF Sysrq, child, logs, parent, verifier
<1>z. /\ num_chunks' = num_chunks /\ v_chunks' = v_chunks /\ (Options' <=> Options)
      /\ Chunks' = Chunks /\ Halves' = Halves /\ Units' = Units
  BY OptionsStay
<1>a. /\ num_chunks \in Nat /\ num_chunks > 0 /\ MaxTime \in Nat
      /\ TypeOK /\ ChildOK(c) /\ undo[c] \in 0 .. 1 /\ j[c] \in 0 .. num_chunks
      /\ sem \in 0 .. 1
      /\ sem > 0 => sem = 1 /\ undo[c] = 0
      /\ Holds(c) => sem = 0 /\ undo[c] = 1
  BY AtChild
<1>f. Frame(c) BY <1>a DEF TypeOK, Frame
<1>k. Keep(c) BY <1>a DEF TypeOK, ChildOK, Holds, Keep
<1>s. sem' \in 0 .. 1 /\ undo' \in [Children -> 0 .. 1]
  <2>1. \E u \in Nat : undo' = [undo EXCEPT ![c] = u] BY <1>a, SMT DEF TypeOK
  <2> QED BY <1>f, <1>k, <2>1, SemTyped
<1>1. TypeOK'
  <2>2. lost' \subseteq Units /\ sock' \in Seq(Units) BY <1>a, SMT DEF TypeOK
  <2> QED BY <1>z, <1>a, <1>s, <2>2 DEF TypeOK
<1>c. ChildOK(c)' BY <1>z, <1>a DEF TypeOK, ChildOK, Holds
<1>2. \A d \in Children : ChildOK(d)' BY <1>f, <1>c, OthersOK
<1>3. MutexInv' BY <1>f, <1>k, MutexKept
<1>4. WholeInv'
  <2>1. pc[c] # "exited" /\ file' = file /\ (pc[c] = "tail" => exit'[c] # 0)
    BY <1>a DEF TypeOK
  <2> QED BY <1>f, <2>1, WholeKept
<1>5. WaitInv' BY <1>f, WaitKept
<1>6. StopInv'
  <2>1. \A d \in Children : d # c => ~ Holds(d) BY <1>a DEF IInv, MutexInv, ChildOK
  <2> QED BY <2>1 DEF IInv, ChildOK, StopInv
<1> QED BY <1>1, <1>2, <1>3, <1>4, <1>5, <1>6 DEF IInv

\* A reset that is denied.
LEMMA SysrqDeniedStep ==
    ASSUME ConstantsOK, IInv, NEW c \in Children, SysrqDenied(c), phase = "run", UNCHANGED options
    PROVE  IInv'
<1> USE DEF SysrqDenied, NextChunk, Exit, Goto, child, logs, parent, verifier
<1>z. /\ num_chunks' = num_chunks /\ v_chunks' = v_chunks /\ (Options' <=> Options)
      /\ Chunks' = Chunks /\ Halves' = Halves /\ Units' = Units
  BY OptionsStay
<1>a. /\ num_chunks \in Nat /\ num_chunks > 0 /\ MaxTime \in Nat
      /\ TypeOK /\ ChildOK(c) /\ undo[c] \in 0 .. 1 /\ j[c] \in 0 .. num_chunks
      /\ sem \in 0 .. 1
      /\ sem > 0 => sem = 1 /\ undo[c] = 0
      /\ Holds(c) => sem = 0 /\ undo[c] = 1
  BY AtChild
<1>f. Frame(c) BY <1>a, SMTT(30) DEF TypeOK, Frame
<1>k. Keep(c) \/ Give(c)
  <2>1. CASE j[c] + 1 < num_chunks BY <2>1 DEF Keep
  <2>2. CASE ~ (j[c] + 1 < num_chunks)
    <3>1. sem' = sem + undo[c] /\ undo'[c] = 0 BY <1>a, <2>2 DEF TypeOK
    <3> QED BY <1>a, <3>1, SMT DEF ChildOK, Holds, Keep, Give
  <2> QED BY <2>1, <2>2
<1>s. sem' \in 0 .. 1 /\ undo' \in [Children -> 0 .. 1]
  <2>0. undo' = undo \/ undo' = [undo EXCEPT ![c] = 0] OBVIOUS
  <2>t. undo = [undo EXCEPT ![c] = undo[c]] BY <1>a DEF TypeOK
  <2>1. \E u \in Nat : undo' = [undo EXCEPT ![c] = u] BY <1>a, <2>0, <2>t, SMT
  <2> QED BY <1>f, <1>k, <2>1, SemTyped
<1>1. TypeOK'
  <2>2. j' \in [Children -> 0 .. num_chunks]
    <3>1. j \in [Children -> 0 .. num_chunks] /\ j[c] < num_chunks BY <1>a DEF TypeOK, ChildOK
    <3>2. j' = [j EXCEPT ![c] = j[c] + 1] OBVIOUS
    <3> QED BY <1>a, <3>1, <3>2, CounterTyped
  <2>3. pc'[c] \in {"p", "exited"} /\ pc' = [pc EXCEPT ![c] = pc'[c]] BY <1>a DEF TypeOK
  <2>e. exit' = exit \/ exit' = [exit EXCEPT ![c] = 0] OBVIOUS
  <2>x. exit \in [Children -> 0 .. 1] BY <1>a DEF TypeOK
  <2>4. exit' \in [Children -> 0 .. 1]
    <3> HIDE DEF Continue, SysrqDenied, NextChunk, Exit
    <3> QED BY <2>e, <2>x, SMT
  <2> QED BY <1>z, <1>a, <1>s, <2>2, <2>3, <2>4, ZenonT(40) DEF TypeOK
<1>c. ChildOK(c)'
  <2>1. CASE j[c] + 1 < num_chunks BY <1>z, <1>a, <2>1 DEF TypeOK, ChildOK, Holds
  <2>2. CASE ~ (j[c] + 1 < num_chunks) BY <1>a, <2>2, SMT DEF TypeOK, ChildOK, Holds
  <2> QED BY <2>1, <2>2
<1>2. \A d \in Children : ChildOK(d)' BY <1>f, <1>c, OthersOK
<1>3. MutexInv' BY <1>f, <1>k, MutexKept
<1>4. WholeInv'
  <2>1. pc[c] # "exited" /\ file' = file /\ (pc[c] = "tail" => exit'[c] # 0)
    BY <1>a DEF TypeOK
  <2> QED BY <1>f, <2>1, WholeKept
<1>5. WaitInv' BY <1>f, WaitKept
<1>6. StopInv' BY DEF StopInv
<1> QED BY <1>1, <1>2, <1>3, <1>4, <1>5, <1>6 DEF IInv

\* A shell that cannot be started.
LEMMA SysrqNoShellStep ==
    ASSUME ConstantsOK, IInv, NEW c \in Children, SysrqNoShell(c), phase = "run", UNCHANGED options
    PROVE  IInv'
<1> USE DEF SysrqNoShell, Exit, Goto, child, logs, parent, verifier
<1>z. /\ num_chunks' = num_chunks /\ v_chunks' = v_chunks /\ (Options' <=> Options)
      /\ Chunks' = Chunks /\ Halves' = Halves /\ Units' = Units
  BY OptionsStay
<1>a. /\ num_chunks \in Nat /\ num_chunks > 0 /\ MaxTime \in Nat
      /\ TypeOK /\ ChildOK(c) /\ undo[c] \in 0 .. 1 /\ j[c] \in 0 .. num_chunks
      /\ sem \in 0 .. 1
      /\ sem > 0 => sem = 1 /\ undo[c] = 0
      /\ Holds(c) => sem = 0 /\ undo[c] = 1
  BY AtChild
<1>f. Frame(c) BY <1>a DEF TypeOK, Frame
<1>k. Give(c) BY <1>a, SMT DEF TypeOK, ChildOK, Holds, Give
<1>s. sem' \in 0 .. 1 /\ undo' \in [Children -> 0 .. 1]
  <2>1. \E u \in Nat : undo' = [undo EXCEPT ![c] = u] BY <1>a DEF TypeOK
  <2> QED BY <1>f, <1>k, <2>1, SemTyped
<1>1. TypeOK'
  <2> QED BY <1>z, <1>a, <1>s DEF TypeOK, ChildOK
<1>c. ChildOK(c)' BY <1>a, SMT DEF TypeOK, ChildOK, Holds
<1>2. \A d \in Children : ChildOK(d)' BY <1>f, <1>c, OthersOK
<1>3. MutexInv' BY <1>f, <1>k, MutexKept
<1>4. WholeInv'
  <2>1. pc[c] # "exited" /\ file' = file /\ (pc[c] = "tail" => exit'[c] # 0)
    BY <1>a DEF TypeOK
  <2> QED BY <1>f, <2>1, WholeKept
<1>5. WaitInv' BY <1>f, WaitKept
<1>6. StopInv' BY DEF StopInv
<1> QED BY <1>1, <1>2, <1>3, <1>4, <1>5, <1>6 DEF IInv

\* A record reaches the listener.
LEMMA DeliverStep == ASSUME IInv, Deliver PROVE IInv'
<1> USE DEF Deliver, child, parent, verifier
<1>z. /\ num_chunks' = num_chunks /\ v_chunks' = v_chunks /\ (Options' <=> Options)
      /\ Chunks' = Chunks /\ Halves' = Halves /\ Units' = Units
  BY OptionsStay
<1>1. log' \in Seq(Units) /\ sock' \in Seq(Units) /\ v_k' \in 0 .. Len(log')
  <2>1. log \in Seq(Units) /\ sock \in Seq(Units) /\ sock # <<>> /\ v_k \in 0 .. Len(log) BY DEF IInv, TypeOK
  <2>2. Head(sock) \in Units /\ Tail(sock) \in Seq(Units) BY <2>1, SMT
  <2> QED BY <2>1, <2>2, SMT
<1>2. TypeOK' BY <1>z, <1>1 DEF IInv, TypeOK
<1>3. (\A c \in Children : ChildOK(c)') /\ MutexInv' BY <1>z DEF IInv, ChildOK, MutexInv, Holds
<1>4. WholeInv' BY <1>z DEF IInv, WholeInv, AllWell
<1>5. WaitInv' /\ StopInv' BY DEF IInv, WaitInv, StopInv
<1> QED BY <1>2, <1>3, <1>4, <1>5 DEF IInv

\* The SIGCHLD handler reaps zombies only.
LEMMA SigchldStep == ASSUME IInv, sigchld_handler PROVE IInv'
<1> USE DEF sigchld_handler, child, logs, verifier
<1>z. /\ num_chunks' = num_chunks /\ v_chunks' = v_chunks /\ (Options' <=> Options)
      /\ Chunks' = Chunks /\ Halves' = Halves /\ Units' = Units
  BY OptionsStay
<1>2. TypeOK' BY <1>z DEF IInv, TypeOK, Zombies
<1>3. (\A c \in Children : ChildOK(c)') /\ MutexInv' BY <1>z DEF IInv, ChildOK, MutexInv, Holds
<1>4. WholeInv' BY <1>z DEF IInv, WholeInv, AllWell
<1>5. WaitInv' BY DEF IInv, WaitInv, Zombies
<1>6. StopInv' BY DEF IInv, StopInv
<1> QED BY <1>2, <1>3, <1>4, <1>5, <1>6 DEF IInv

\* waitpid returns for a child that has exited, reaped by the handler or not.
LEMMA WaitpidStep == ASSUME ConstantsOK, IInv, Waitpid PROVE IInv'
<1> USE DEF Waitpid, child, logs
<1>z. /\ num_chunks' = num_chunks /\ v_chunks' = v_chunks /\ (Options' <=> Options)
      /\ Chunks' = Chunks /\ Halves' = Halves /\ Units' = Units
  BY OptionsStay
<1>0. num_children \in Nat BY DEF ConstantsOK
<1>1. wait_i \in 0 .. num_children /\ wait_i < num_children /\ wait_i' = wait_i + 1 BY DEF IInv, TypeOK
<1>2. wait_i' \in 0 .. num_children /\ wait_i + 1 \in 1 .. num_children BY <1>0, <1>1, SMT
<1> DEFINE c == wait_i + 1
<1>3. c \in Children BY <1>2 DEF Children
<1>4. /\ reaped' = reaped \cup {c} /\ pc[c] = "exited"
      /\ status' \in {status, exit[c]} /\ ret' = status'
  BY DEF IInv, WaitInv, Zombies
<1>5. TypeOK'
  <2>0. exit[c] \in 0 .. 1 /\ status \in 0 .. 1 /\ reaped \subseteq Children
    BY <1>3 DEF IInv, TypeOK
  <2>1. status' \in 0 .. 1 /\ ret' \in 0 .. 1 /\ reaped' \subseteq Children
    BY <1>3, <1>4, <2>0
  <2> QED BY <1>z, <1>2, <2>1 DEF IInv, TypeOK
<1>6. (\A d \in Children : ChildOK(d)') /\ MutexInv' BY <1>z DEF IInv, ChildOK, MutexInv, Holds
<1>7. WholeInv' BY <1>z DEF IInv, WholeInv, AllWell
<1>8. WaitInv'
  <2>1. \A d \in reaped' : pc[d] = "exited" BY <1>4 DEF IInv, WaitInv
  <2>2. \A k \in 1 .. wait_i' : k \in 1 .. wait_i \/ k = wait_i + 1 BY <1>0, <1>1, SMT
  <2>3. \A k \in 1 .. wait_i' : k \in reaped' BY <1>4, <2>2 DEF IInv, WaitInv
  <2> QED BY <2>1, <2>3 DEF WaitInv
<1>9. StopInv' BY DEF IInv, StopInv
<1> QED BY <1>5, <1>6, <1>7, <1>8, <1>9 DEF IInv

\* When the parent ends it has waited for every child.
LEMMA TeardownStep == ASSUME ConstantsOK, IInv, Teardown PROVE IInv'
<1> USE DEF Teardown, child, parent, verifier
<1>z. /\ num_chunks' = num_chunks /\ v_chunks' = v_chunks /\ (Options' <=> Options)
      /\ Chunks' = Chunks /\ Halves' = Halves /\ Units' = Units
  BY OptionsStay
<1>1. TypeOK'
  <2>1. log \o sock \in Seq(Units) /\ Len(log \o sock) = Len(log) + Len(sock)
        /\ v_k \in 0 .. Len(log) /\ Len(log) \in Nat /\ Len(sock) \in Nat BY SMT DEF IInv, TypeOK
  <2>2. v_k' \in 0 .. Len(log') BY <2>1, SMT
  <2> QED BY <1>z, <2>1, <2>2, SMT DEF IInv, TypeOK
<1>2. (\A c \in Children : ChildOK(c)') /\ MutexInv' BY <1>z DEF IInv, ChildOK, MutexInv, Holds
<1>3. WholeInv' BY <1>z DEF IInv, WholeInv, AllWell
<1>4. WaitInv' BY DEF IInv, WaitInv
<1>5. \A c \in Children : pc[c] = "exited" BY DEF IInv, WaitInv, Children
<1>6. StopInv' BY <1>5 DEF StopInv
<1> QED BY <1>1, <1>2, <1>3, <1>4, <1>6 DEF IInv

\* The verification changes neither file nor children.
LEMMA VerifyStepStep == ASSUME ConstantsOK, IInv, VerifyStep PROVE IInv'
<1> USE DEF VerifyStep, child, logs, parent
<1>z. /\ num_chunks' = num_chunks /\ v_chunks' = v_chunks /\ (Options' <=> Options)
      /\ Chunks' = Chunks /\ Halves' = Halves /\ Units' = Units
  BY OptionsStay
<1>0. num_chunks \in Nat /\ v_chunks \in 0 .. num_chunks BY DEF IInv, TypeOK, Options
<1>1. /\ phase' \in {"verify", "done"} /\ phase = "verify"
      /\ ret' \in {ret, 0, 1} /\ (v_i' = v_i \/ (v_i < v_chunks /\ v_i' = v_i + 1))
      /\ \/ wus' = wus /\ v_k' = v_k
         \/ v_k < Len(log) /\ v_k' = v_k + 1 /\ wus' = KeepRecord(wus, log[v_k + 1])
  BY DEF ReadRecord, VerifyChunk, VerifyEnds, ChunkDone
<1>2. v_i' \in 0 .. num_chunks BY <1>0, <1>1, SMT DEF IInv, TypeOK
<1>r. log \in Seq(Units) /\ v_k \in 0 .. Len(log) /\ Len(log) \in Nat BY SMT DEF IInv, TypeOK
<1>k. v_k' \in 0 .. Len(log) BY <1>1, <1>r, SMT
<1>w. wus' \in [0 .. v_chunks -> Units \cup {[ZeroUnit EXCEPT !.no = k] : k \in 0 .. v_chunks}]
  <2>1. v_k < Len(log) => log[v_k + 1] \in Units BY <1>r, SMT
  <2> QED BY <1>1, <2>1 DEF IInv, TypeOK, KeepRecord
<1>3. TypeOK' BY <1>z, <1>1, <1>2, <1>k, <1>w, SMT DEF IInv, TypeOK
<1>4. (\A c \in Children : ChildOK(c)') /\ MutexInv' BY <1>z DEF IInv, ChildOK, MutexInv, Holds
<1>5. WholeInv' BY <1>z DEF IInv, WholeInv, AllWell
<1>6. WaitInv' BY DEF IInv, WaitInv
<1>7. StopInv' BY <1>1 DEF IInv, StopInv, AllWell
<1> QED BY <1>3, <1>4, <1>5, <1>6, <1>7 DEF IInv

\* Every step keeps the invariant.
LEMMA NextInv == ASSUME ConstantsOK, IInv, [Next]_vars PROVE IInv'
<1>1. ASSUME NEW c \in Children, ChildStep(c) PROVE IInv'
  BY <1>1, PStep, WriteHeadStep, WriteTailStep, log_writeStep, LogLostStep, IOFailsStep, VStep,
     ContinueStep, ReadyToCrashStep, CrashPStep, SysrqStep, SysrqDeniedStep,
     SysrqNoShellStep DEF ChildStep
<1>2. CASE UNCHANGED vars
  <2>z. /\ num_chunks' = num_chunks /\ v_chunks' = v_chunks /\ (Options' <=> Options)
        /\ Chunks' = Chunks /\ Halves' = Halves /\ Units' = Units
    BY <1>2, OptionsStay DEF vars
  <2> QED BY <1>2, <2>z, SMTT(30) DEF vars, child, logs, parent, verifier, IInv, TypeOK, ChildOK, Holds, MutexInv,
                   WholeInv, AllWell, WaitInv, StopInv
<1> QED BY <1>1, <1>2, DeliverStep, SigchldStep, WaitpidStep, TeardownStep, VerifyStepStep
        DEF Next, ParentStep, Done

\* The inductive invariant.
LEMMA Inductive == ASSUME ConstantsOK PROVE Spec => []IInv
BY InitInv, NextInv, PTL DEF Spec

-----------------------------------------------------------------------------
\* semaphore_p, semaphore_v and SEM_UNDO keep the semaphore at 0 or 1 in every
\* mode, through failed calls and denied resets, and no child's loop runs past
\* its num_chunks iterations.
THEOREM SemaphoreIsBinary == ASSUME ConstantsOK PROVE Spec => []TypeOK
<1>1. IInv => TypeOK BY DEF IInv
<1> QED BY <1>1, Inductive, PTL

\* Two children are not between semaphore_p and semaphore_v of the write loop.
Exclusive ==
    \A c, d \in Children :
        pc[c] \in {"head", "tail", "log", "v"} /\ pc[d] \in {"head", "tail", "log", "v"} => c = d

\* Two children are never between semaphore_p and semaphore_v at once, so no
\* chunk is written, and no record logged, inside another child's pair.
THEOREM WritesAreExclusive == ASSUME ConstantsOK PROVE Spec => []Exclusive
<1>1. IInv => Exclusive BY DEF IInv, MutexInv, ChildOK, Exclusive
<1> QED BY <1>1, Inductive, PTL

\* None is half written when the children have stopped.
LEMMA NoHalfChunk == ASSUME IInv PROVE ResetFindsWholeChunks
BY DEF IInv, WholeInv, StopInv, ResetFindsWholeChunks

\* The verification, after a reset or after the parent's end, starts from a file
\* without a half-written chunk and with no child between its write and its log
\* record, unless a child reported a failed call.
THEOREM ResetsFindWholeChunks == ASSUME ConstantsOK PROVE Spec => []ResetFindsWholeChunks
BY NoHalfChunk, Inductive, PTL

(***************************************************************************)
(* verify_file on one chunk.                                               *)
(***************************************************************************)
\* A record is a unit, or an empty record of its chunk; the verdict is the one
\* of the test.
ChunkInv ==
    /\ k_i \in Chunk /\ k_wus \in KeptRecords
    /\ verdict = "alarm" => ~ ChunkOK(k_i, k_pattern, k_wus)
    /\ verdict = "ok" => ChunkOK(k_i, k_pattern, k_wus)

\* dump_pattern finds the unit a chunk was filled from.
LEMMA DumpOfFilling ==
    ASSUME NEW u \in Fillings
    PROVE  dump_pattern(fill_chunk_pattern(u)) = u
<1>1. u = [no |-> u.no, ts |-> u.ts, ch |-> u.ch] BY DEF Fillings
<1> QED BY <1>1 DEF dump_pattern, fill_chunk_pattern

\* Two units that fill a chunk alike are the same.
LEMMA FillIsInjective ==
    ASSUME NEW u \in Fillings, NEW w \in Fillings, fill_chunk_pattern(u) = fill_chunk_pattern(w)
    PROVE  u = w
BY DumpOfFilling, dump_pattern(fill_chunk_pattern(u)) = dump_pattern(fill_chunk_pattern(w))

\* A record with a time stamp is a unit that was written to its chunk.
LEMMA RecordIsUnit ==
    ASSUME ChunkConstantsOK, k_i \in Chunk, k_wus \in KeptRecords, k_wus[k_i].ts # 0
    PROVE  k_wus[k_i] \in Fillings
<1>1. k_wus[k_i] \in Fillings \/ \E k \in Chunk : k_wus[k_i] = [ZeroUnit EXCEPT !.no = k]
  BY SMT DEF KeptRecords
<1>2. \A k : [ZeroUnit EXCEPT !.no = k].ts = 0 BY DEF ZeroUnit
<1> QED BY <1>1, <1>2

\* An intact chunk passes the test.
LEMMA IntactPasses ==
    ASSUME ChunkConstantsOK, k_i \in Chunk, k_wus \in KeptRecords, Intact
    PROVE  ChunkOK(k_i, k_pattern, k_wus)
<1>1. CASE k_wus[k_i].ts # 0
  <2>1. k_wus[k_i] \in Fillings /\ k_pattern = fill_chunk_pattern(k_wus[k_i])
    BY <1>1, RecordIsUnit DEF Intact
  <2>2. dump_pattern(k_pattern) = k_wus[k_i] BY <2>1, DumpOfFilling
  <2> QED BY <1>1, <2>2 DEF ChunkOK, RecordedOK
<1>2. CASE k_wus[k_i].ts = 0
  <2> SUFFICES AbsentOK(k_i, k_pattern) BY <1>2 DEF ChunkOK
  <2>1. CASE k_pattern = HolePattern BY <2>1 DEF AbsentOK, dump_pattern, HolePattern
  <2>2. ASSUME NEW u \in Fillings, u.no = k_i, k_pattern = fill_chunk_pattern(u)
        PROVE  AbsentOK(k_i, k_pattern)
    <3>1. dump_pattern(k_pattern) = u BY <2>2, DumpOfFilling
    <3> QED BY <2>2, <3>1 DEF AbsentOK
  <2> QED BY <1>2, <2>1, <2>2 DEF Intact
<1> QED BY <1>1, <1>2

\* A recorded chunk that passes and shows a whole write shows the recorded one.
LEMMA PassesMeansRecorded ==
    ASSUME ChunkConstantsOK, k_i \in Chunk, k_wus \in KeptRecords, k_wus[k_i].ts # 0,
           ChunkOK(k_i, k_pattern, k_wus), NEW u \in Fillings, k_pattern = fill_chunk_pattern(u)
    PROVE  u = k_wus[k_i]
<1>1. k_wus[k_i] \in Fillings BY RecordIsUnit
<1>2. fill_chunk_pattern(u) = fill_chunk_pattern(k_wus[k_i])
  BY DumpOfFilling DEF ChunkOK, RecordedOK
<1> QED BY <1>1, <1>2, FillIsInjective

\* For every chunk content: verify_file never raises an alarm on an intact
\* chunk, and a chunk that shows another whole write than the recorded one is
\* always found.
THEOREM ChunkVerdictIsRight == ASSUME ChunkConstantsOK PROVE ChunkSpec => []VerifyFileIsRight
<1>1. ChunkInit => ChunkInv BY DEF ChunkInit, ChunkInv
<1>2. ChunkInv /\ [ChunkNext]_chunkVars => ChunkInv'
  <2> SUFFICES ASSUME ChunkInv, [ChunkNext]_chunkVars PROVE ChunkInv' OBVIOUS
  <2>1. CASE VerifyOne BY <2>1 DEF VerifyOne, ChunkInv
  <2>2. CASE UNCHANGED chunkVars BY <2>2 DEF chunkVars, ChunkInv
  <2> QED BY <2>1, <2>2 DEF ChunkNext
<1>3. ChunkInv => VerifyFileIsRight
  BY IntactPasses, PassesMeansRecorded DEF ChunkInv, VerifyFileIsRight, IntactAccepted, OtherWriteFound
<1> QED BY <1>1, <1>2, <1>3, PTL DEF ChunkSpec
=============================================================================
