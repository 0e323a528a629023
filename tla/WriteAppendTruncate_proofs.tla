---------------------- MODULE WriteAppendTruncate_proofs ----------------------
(***************************************************************************)
(* Proofs about WriteAppendTruncate for every number of ranks and loops    *)
(* and all sizes: the two barriers and the broadcast of a loop keep the    *)
(* reset, the race and the check of the file apart, so that rank 0 finds   *)
(* one of the two files it accepts.                                        *)
(***************************************************************************)
EXTENDS WriteAppendTruncate, TLAPS

\* Zenon is the prover of a leaf that names none.
USE Zenon

Outside == {"to_prep", "in_prep", "reset", "finish", "end"}
InLoop == {"to_start", "in_start", "append", "truncate", "to_end", "in_end", "check", "bcast"}
InBarrier(r) == pc[r] \in {"in_prep", "in_start", "in_end"}

\* The barriers rank r has returned from.
Left(r) == IF InBarrier(r) THEN epoch[r] - 1 ELSE epoch[r]

TypeInv ==
    /\ job \in Jobs
    /\ pc \in [Ranks -> Outside \cup InLoop]
    /\ epoch \in [Ranks -> Nat] /\ n \in [Ranks -> 0 .. nloops]
    /\ draw \in [0 .. nloops - 1 -> job.draws]
    /\ file \in Seq(Int) /\ done \in Nat
    /\ read_buf \in Seq(Int) /\ Len(read_buf) >= BufSize

\* Which part a rank has in the race.
PosOK(r) ==
    /\ pc[r] \in {"to_prep", "in_prep"} => n[r] = 0
    /\ pc[r] \in InLoop => n[r] < nloops
    /\ pc[r] = "append" => r = n[r] % size
    /\ pc[r] = "truncate" => r = (n[r] + 1) % size
    /\ pc[r] = "check" => r = 0

\* One barrier before the loops and two in each: the barriers entered say where a rank is.
EpochOK(r) ==
    epoch[r] = IF pc[r] = "to_prep" THEN 0 ELSE IF pc[r] = "in_prep" THEN 1
               ELSE 1 + 2 * n[r] + (IF pc[r] \in {"reset", "to_start", "finish", "end"} THEN 0
                                    ELSE IF pc[r] \in {"in_end", "check", "bcast"} THEN 2 ELSE 1)

\* Nobody has returned from a barrier that somebody has not entered.
BarrierInv == \A r, q \in Ranks : epoch[q] >= Left(r)

\* The broadcast keeps the other ranks from a loop that rank 0 has not ended.
SentInv == ~ aborted => sent = n[0] /\ \A r \in Ranks : n[r] <= n[0]

SyncInv == TypeInv /\ (\A r \in Ranks : PosOK(r) /\ EpochOK(r)) /\ BarrierInv /\ SentInv

-----------------------------------------------------------------------------
\* Rank 0 has reset the file and not yet checked it.
Racing == pc[0] \in InLoop \ {"bcast"}

\* Rank r has done its part of the race that rank 0 is in.
Past(r) == n[r] = n[0] /\ pc[r] \in {"to_end", "in_end", "check", "bcast"}
Appender == n[0] % size
Truncater == (n[0] + 1) % size

\* What has been appended in this loop.
Appended == IF Past(Appender) THEN Sizes(0).append ELSE done

\* A file of c bytes of the chunk, a hole of z and m appended bytes.
Shape(f, c, z, m) ==
    /\ Len(f) = c + z + m
    /\ \A k \in 1 .. Len(f) : f[k] = IF k <= c THEN CHUNK_CHAR
                                     ELSE IF k <= c + z THEN NUL ELSE APPEND_CHAR

\* The append that is under way has bytes left; there is none when nobody appends.
DoneInv ==
    /\ done # 0 => pc[Appender] = "append"
    /\ \A r \in Ranks : pc[r] = "append" => done < Sizes(r).append
    /\ ~ job.short => done = 0

\* The file during the race, if the truncate has not split the append.
FileInv ==
    LET d == Sizes(0)
        z == d.trunc - d.chunk
    IN  (Racing /\ ~ damaged /\ ~ split) =>
            IF Past(Truncater)
            THEN \/ Shape(file, d.chunk, z, Appended)
                 \/ Appended = d.append /\ Shape(file, d.chunk, 0, z)
            ELSE Shape(file, d.chunk, 0, Appended)

\* A new loop starts without a complaint.
FreshInv == Racing => ~ bad /\ (Past(Truncater) \/ ~ split)

\* An error of 1 is never carried into the next loop.
ErrorInv == ~ aborted /\ error = 1 => pc[0] = "bcast" /\ bad

DataInv == DoneInv /\ FileInv /\ FreshInv /\ ErrorInv /\ NoFalseAlarm /\ WrongBytesNoticed

IInv == SyncInv /\ DataInv

-----------------------------------------------------------------------------
\* The numbers that the assumptions on the jobs give.
LEMMA Numbers ==
    ASSUME ConstantsOK, job \in Jobs
    PROVE  /\ size \in Nat /\ size >= 2 /\ nloops \in Nat /\ nloops >= 1
           /\ Ranks \subseteq Nat /\ 0 \in Ranks
           /\ \A k \in Nat : k % size \in Ranks /\ k % size # (k + 1) % size
<1>1. size \in Nat /\ size >= 2 /\ nloops \in Nat /\ nloops >= 1
  BY SMT DEF ConstantsOK, size, nloops
<1>2. Ranks \subseteq Nat /\ 0 \in Ranks
  BY <1>1, SMT DEF Ranks
<1>3. ASSUME NEW k \in Nat PROVE k % size \in Ranks /\ k % size # (k + 1) % size
  <2>1. k % size \in Ranks
    BY <1>1, SMT DEF Ranks
  <2>2. ASSUME k % size = (k + 1) % size PROVE FALSE
    <3> DEFINE p == k \div size
               q == (k + 1) \div size
    <3>1. /\ k = size * p + (k % size) /\ k + 1 = size * q + ((k + 1) % size)
          /\ p \in Int /\ q \in Int
      BY <1>1, SMT
    <3>2. size * (q - p) = 1
      <4>1. size * (q - p) = size * q - size * p
        BY <1>1, <3>1, SMT
      <4>2. size * q \in Int /\ size * p \in Int /\ k % size \in Int
        BY <1>1, <3>1, SMT
      <4> HIDE DEF p, q
      <4> QED BY <2>2, <3>1, <4>1, <4>2, SMT
    <3>3. q - p \in Int
      BY <3>1, SMT
    <3>4. ASSUME NEW e \in Int PROVE size * e # 1
      BY <1>1, SMT
    <3> QED BY <3>2, <3>3, <3>4
  <2> QED BY <2>1, <2>2
<1> QED BY <1>1, <1>2, <1>3

\* The sizes drawn for a loop.
LEMMA DrawSizes ==
    ASSUME ConstantsOK, TypeInv, NEW r \in Ranks, n[r] < nloops
    PROVE  LET d == Sizes(r)
           IN  /\ d.chunk \in Nat /\ d.append \in Nat /\ d.trunc \in Nat
               /\ d.append > 0 /\ d.chunk <= d.trunc /\ d.trunc < d.chunk + d.append
               /\ d.chunk + 2 * d.append <= BufSize
<1>1. n[r] \in 0 .. nloops - 1
  <2>1. n \in [Ranks -> 0 .. nloops] /\ job \in Jobs
    BY DEF TypeInv
  <2>2. nloops \in Nat
    BY <2>1, Numbers
  <2> QED BY <2>1, <2>2, SMT
<1>2. draw[n[r]] \in job.draws
  BY <1>1 DEF TypeInv
<1>3. \A d \in job.draws : d.chunk \in Nat \ {0} /\ d.append \in Nat \ {0}
                             /\ d.trunc \in d.chunk .. d.chunk + d.append - 1
                             /\ d.chunk + 2 * d.append <= BufSize
  BY DEF ConstantsOK, TypeInv
<1>4. \A d \in job.draws :
        /\ d.chunk \in Nat /\ d.append \in Nat /\ d.trunc \in Nat
        /\ d.append > 0 /\ d.chunk <= d.trunc /\ d.trunc < d.chunk + d.append
        /\ d.chunk + 2 * d.append <= BufSize
  BY <1>3, SMT
<1> QED BY <1>2, <1>4 DEF Sizes

\* A step that only moves rank r, to a place where its barriers are right.
LEMMA MoveKeepsSync ==
    ASSUME ConstantsOK, SyncInv, NEW r \in Ranks, NEW l \in Outside \cup InLoop, Goto(r, l),
           UNCHANGED <<job, epoch, n, draw, sent, aborted>>,
           file' \in Seq(Int), done' \in Nat, read_buf' \in Seq(Int), Len(read_buf') >= BufSize,
           PosOK(r)', EpochOK(r)', \A q \in Ranks : epoch[q] >= Left(r)'
    PROVE  SyncInv'
<1>1. Ranks' = Ranks /\ nloops' = nloops /\ size' = size
  BY DEF Ranks, nloops, size
<1>2. /\ pc' \in [Ranks -> Outside \cup InLoop] /\ pc'[r] = l
      /\ \A q \in Ranks \ {r} : pc'[q] = pc[q]
  BY DEF SyncInv, TypeInv, Goto
<1>3. TypeInv'
  BY <1>1, <1>2 DEF SyncInv, TypeInv
<1>4. ASSUME NEW q \in Ranks PROVE PosOK(q)' /\ EpochOK(q)' /\ (Left(q)' = Left(q) \/ q = r)
  BY <1>1, <1>2, SMT DEF SyncInv, PosOK, EpochOK, Left, InBarrier
<1>5. BarrierInv'
  BY <1>1, <1>4, SMT DEF SyncInv, BarrierInv
<1>6. SentInv'
  BY <1>1 DEF SyncInv, SentInv
<1> QED BY <1>1, <1>3, <1>4, <1>5, <1>6 DEF SyncInv

\* The three calls of MPI_Barrier.
LEMMA EnterKeepsSync ==
    ASSUME ConstantsOK, SyncInv, NEW r \in Ranks, NEW at, NEW in, Enter(r, at, in),
           <<at, in>> \in {<<"to_prep", "in_prep">>, <<"to_start", "in_start">>, <<"to_end", "in_end">>}
    PROVE  SyncInv'
<1>0. size \in Nat /\ nloops \in Nat /\ Ranks \subseteq Nat
  BY Numbers DEF SyncInv, TypeInv
<1>1. /\ pc[r] = at /\ epoch' = [epoch EXCEPT ![r] = @ + 1] /\ pc' = [pc EXCEPT ![r] = in]
      /\ UNCHANGED <<job, n, draw, file, done, read_buf, sent, aborted>>
  BY DEF Enter, Goto, Arrive
<1>2. Ranks' = Ranks /\ nloops' = nloops /\ size' = size
  BY <1>1 DEF Ranks, nloops, size
<1>3. /\ pc' \in [Ranks -> Outside \cup InLoop] /\ pc'[r] = in
      /\ \A q \in Ranks \ {r} : pc'[q] = pc[q]
      /\ epoch' \in [Ranks -> Nat] /\ epoch'[r] = epoch[r] + 1
      /\ \A q \in Ranks \ {r} : epoch'[q] = epoch[q]
  BY <1>1, SMT DEF SyncInv, TypeInv, Outside, InLoop
<1>4. TypeInv'
  BY <1>1, <1>2, <1>3 DEF SyncInv, TypeInv
<1>5. ASSUME NEW q \in Ranks PROVE PosOK(q)'
  BY <1>1, <1>2, <1>3 DEF SyncInv, PosOK, InLoop
<1>6. ASSUME NEW q \in Ranks PROVE EpochOK(q)'
  <2>1. n[q] \in Nat /\ n'[q] = n[q] /\ EpochOK(q)
    BY <1>0, <1>1, SMT DEF SyncInv, TypeInv
  <2>2. CASE q # r
    BY <1>3, <2>1, <2>2 DEF EpochOK
  <2>3. CASE q = r
    BY <1>1, <1>3, <2>1, <2>3, SMT DEF EpochOK
  <2> QED BY <2>2, <2>3
<1>7. BarrierInv'
  <2>1. ASSUME NEW q \in Ranks PROVE Left(q)' = Left(q) /\ Left(q) \in Int /\ epoch'[q] >= epoch[q] /\ epoch[q] \in Nat
    BY <1>1, <1>3, SMT DEF SyncInv, TypeInv, Left, InBarrier
  <2>2. ASSUME NEW p \in Ranks, NEW q \in Ranks PROVE epoch'[q] >= Left(p)'
    <3>1. epoch[q] >= Left(p)
      BY DEF SyncInv, BarrierInv
    <3> QED BY <1>3, <2>1, <3>1, SMT
  <2> QED BY <1>2, <2>2 DEF BarrierInv
<1>8. SentInv'
  BY <1>1, <1>2 DEF SyncInv, SentInv
<1> QED BY <1>2, <1>4, <1>5, <1>6, <1>7, <1>8 DEF SyncInv

\* The broadcast.
LEMMA BcastKeepsSync ==
    ASSUME ConstantsOK, SyncInv, ~ aborted, NEW r \in Ranks, Bcast(r)
    PROVE  SyncInv'
<1>0. size \in Nat /\ nloops \in Nat /\ Ranks \subseteq Nat /\ 0 \in Ranks
  BY Numbers DEF SyncInv, TypeInv
<1>1. pc[r] = "bcast" /\ UNCHANGED <<job, epoch, draw, file, done, read_buf>>
  BY DEF Bcast
<1>2. Ranks' = Ranks /\ nloops' = nloops /\ size' = size
  BY <1>1 DEF Ranks, nloops, size
<1>3. CASE error = 1
  <2>1. aborted' = TRUE /\ UNCHANGED <<pc, n>>
    BY <1>3 DEF Bcast
  <2> QED BY <1>1, <1>2, <2>1, SMT DEF SyncInv, TypeInv, PosOK, EpochOK, BarrierInv, Left, InBarrier, SentInv
<1>4. CASE error # 1
  <2>1. n' = [n EXCEPT ![r] = @ + 1] /\ pc' = [pc EXCEPT ![r] = "reset"] /\ aborted' = aborted
    BY <1>4 DEF Bcast, Goto
  <2>2. n[r] \in Nat /\ n[r] < nloops
    BY <1>0, <1>1, SMT DEF SyncInv, TypeInv, PosOK, InLoop
  <2>3. /\ pc' \in [Ranks -> Outside \cup InLoop] /\ pc'[r] = "reset"
        /\ \A q \in Ranks \ {r} : pc'[q] = pc[q]
    BY <2>1 DEF SyncInv, TypeInv, Outside, InLoop
  <2>4. /\ n' \in [Ranks -> 0 .. nloops] /\ n'[r] = n[r] + 1
        /\ \A q \in Ranks \ {r} : n'[q] = n[q]
    BY <1>0, <2>1, <2>2, SMT DEF SyncInv, TypeInv
  <2>5. TypeInv'
    BY <1>1, <1>2, <2>3, <2>4 DEF SyncInv, TypeInv
  <2>6. ASSUME NEW q \in Ranks PROVE PosOK(q)' /\ EpochOK(q)' /\ Left(q)' = Left(q)
    <3>1. CASE q # r
      BY <1>1, <1>2, <2>3, <2>4, <3>1, SMT DEF SyncInv, PosOK, EpochOK, Left, InBarrier
    <3>2. CASE q = r
      <4>1. epoch[r] = 1 + 2 * n[r] + 2
        BY <1>1 DEF SyncInv, EpochOK
      <4> QED BY <1>1, <1>2, <2>2, <2>3, <2>4, <3>2, <4>1, SMT DEF PosOK, EpochOK, Left, InBarrier, InLoop
    <3> QED BY <3>1, <3>2
  <2>7. BarrierInv'
    BY <1>1, <1>2, <2>6 DEF SyncInv, BarrierInv
  <2>8. SentInv'
    <3>0. sent = n[0] /\ \A q \in Ranks : n[q] <= n[0]
      BY DEF SyncInv, SentInv
    <3>t. n \in [Ranks -> 0 .. nloops]
      BY DEF SyncInv, TypeInv
    <3>1. sent = n[0] /\ \A q \in Ranks : n[q] <= n[0] /\ n[q] \in Nat
      BY <1>0, <3>0, <3>t, SMT
    <3>2. CASE r = 0
      <4>1. sent' = n[0] + 1
        BY <3>2 DEF Bcast
      <4>2. sent' = n'[0] /\ \A q \in Ranks : n'[q] <= n'[0]
        BY <1>0, <2>4, <3>1, <3>2, <4>1, SMT
      <4> QED BY <1>2, <4>2 DEF SentInv
    <3>3. CASE r # 0
      <4>1. sent' = sent /\ sent > n[r]
        BY <3>3 DEF Bcast
      <4>2. sent' = n'[0] /\ \A q \in Ranks : n'[q] <= n'[0]
        BY <1>0, <2>4, <3>1, <3>3, <4>1, SMT
      <4> QED BY <1>2, <4>2 DEF SentInv
    <3> QED BY <3>2, <3>3
  <2> QED BY <1>2, <2>5, <2>6, <2>7, <2>8 DEF SyncInv
<1> QED BY <1>3, <1>4

\* What rank 0 writes, appends or cuts is a file of bytes.
LEMMA FileTyped ==
    ASSUME NEW f \in Seq(Int), NEW c \in Int, NEW k \in Nat
    PROVE  /\ Rep(c, k) \in Seq(Int) /\ Len(Rep(c, k)) = k
           /\ f \o Rep(c, k) \in Seq(Int) /\ TruncateTo(f, k) \in Seq(Int)
<1>1. Rep(c, k) \in Seq(Int) /\ Len(Rep(c, k)) = k
  BY SMT DEF Rep
<1>2. f \o Rep(c, k) \in Seq(Int)
  BY <1>1, SMT
<1>3. CASE k <= Len(f)
  <2>1. SubSeq(f, 1, k) \in Seq(Int)
    BY <1>3, SMT
  <2> QED BY <1>1, <1>2, <1>3, <2>1 DEF TruncateTo
<1>4. CASE ~ (k <= Len(f))
  <2>1. k - Len(f) \in Nat
    BY <1>4, SMT
  <2>2. Rep(NUL, k - Len(f)) \in Seq(Int)
    BY <2>1, SMT DEF Rep, NUL
  <2>3. f \o Rep(NUL, k - Len(f)) \in Seq(Int)
    BY <2>2, SMT
  <2> QED BY <1>1, <1>2, <1>4, <2>3 DEF TruncateTo
<1> QED BY <1>3, <1>4

\* The read loop fills the buffer with the file and keeps the rest.
LEMMA BufferTyped ==
    ASSUME NEW f \in Seq(Int), NEW b \in Seq(Int), BufSize \in Nat, Len(b) >= BufSize
    PROVE  LET g == f \o SubSeq(b, Len(f) + 1, BufSize)
           IN  /\ g \in Seq(Int) /\ Len(g) >= BufSize /\ Len(g) >= Len(f)
               /\ \A k \in 1 .. Len(f) : g[k] = f[k]
<1> DEFINE t == SubSeq(b, Len(f) + 1, BufSize)
<1>1. t \in Seq(Int)
  BY SMT
<1>2. Len(t) = IF Len(f) + 1 <= BufSize THEN BufSize - Len(f) ELSE 0
  BY SMT
<1> HIDE DEF t
<1>3. /\ f \o t \in Seq(Int) /\ Len(f \o t) = Len(f) + Len(t)
      /\ \A k \in 1 .. Len(f) : (f \o t)[k] = f[k]
  BY <1>1, SMT
<1>4. Len(f \o t) >= BufSize /\ Len(f \o t) >= Len(f)
  BY <1>1, <1>2, <1>3, SMTT(30)
<1> QED BY <1>3, <1>4 DEF t

-----------------------------------------------------------------------------
\* A rank that returns from a barrier leaves nobody behind it.
LEMMA LeaveKeepsSync ==
    ASSUME ConstantsOK, SyncInv, NEW r \in Ranks,
           PrepLeave(r) \/ StartLeave(r) \/ EndLeave(r)
    PROVE  SyncInv'
<1>0. Ranks' = Ranks /\ nloops' = nloops /\ size' = size
  BY DEF PrepLeave, StartLeave, EndLeave, Ranks, nloops, size
<1>1. PICK l \in {"reset", "append", "truncate", "to_end", "check", "bcast"} :
        /\ Goto(r, l)
        /\ l = "reset" => pc[r] = "in_prep"
        /\ l \in {"append", "truncate", "to_end"} => pc[r] = "in_start"
        /\ l \in {"check", "bcast"} => pc[r] = "in_end"
        /\ l = "append" => r = n[r] % size
        /\ l = "truncate" => r = (n[r] + 1) % size
        /\ l = "check" => r = 0
  BY DEF PrepLeave, StartLeave, EndLeave
<1>2. /\ UNCHANGED <<job, epoch, n, draw, sent, aborted, file, done, read_buf>>
      /\ MayLeave(epoch, r)
  BY DEF PrepLeave, StartLeave, EndLeave
<1>3. pc'[r] = l
  BY <1>1 DEF Goto, SyncInv, TypeInv
<1>4. PosOK(r)'
  BY <1>0, <1>1, <1>2, <1>3 DEF SyncInv, PosOK, InLoop
<1>5. EpochOK(r)'
  <2>1. EpochOK(r) /\ PosOK(r) /\ n[r] \in Nat
    BY Numbers, SMT DEF SyncInv, TypeInv
  <2> QED BY <1>1, <1>2, <1>3, <2>1, SMT DEF EpochOK, PosOK
<1>6. \A q \in Ranks : epoch[q] >= Left(r)'
  BY <1>1, <1>2, <1>3 DEF MayLeave, Left, InBarrier, SyncInv, TypeInv
<1>7. /\ file' \in Seq(Int) /\ done' \in Nat /\ read_buf' \in Seq(Int) /\ Len(read_buf') >= BufSize
      /\ l \in Outside \cup InLoop
  BY <1>2 DEF SyncInv, TypeInv, Outside, InLoop
<1> QED BY <1>1, <1>2, <1>4, <1>5, <1>6, <1>7, MoveKeepsSync

\* The other steps stay between two barriers.
LEMMA WorkKeepsSync ==
    ASSUME ConstantsOK, SyncInv, NEW r \in Ranks,
           Reset(r) \/ AppendWrite(r) \/ Truncate(r) \/ Check(r) \/ Finish(r)
    PROVE  SyncInv'
<1>0. /\ Ranks' = Ranks /\ nloops' = nloops /\ size' = size
      /\ UNCHANGED <<job, epoch, n, draw, sent, aborted>>
  BY DEF Reset, AppendWrite, Truncate, Check, Finish, Ranks, nloops, size
<1>t. /\ pc \in [Ranks -> Outside \cup InLoop] /\ n[r] \in Nat /\ n[r] <= nloops /\ nloops \in Nat
      /\ file \in Seq(Int) /\ done \in Nat /\ read_buf \in Seq(Int) /\ Len(read_buf) >= BufSize
      /\ PosOK(r) /\ EpochOK(r)
  BY Numbers, SMT DEF SyncInv, TypeInv
<1>s. pc[r] \in InLoop => /\ Sizes(r).chunk \in Nat /\ Sizes(r).append \in Nat /\ Sizes(r).trunc \in Nat
  <2>1. pc[r] \in InLoop => n[r] < nloops
    BY <1>t DEF PosOK
  <2> QED BY <2>1, DrawSizes DEF SyncInv
<1>w. \A l \in Outside \cup InLoop :
        /\ Goto(r, l) /\ PosOK(r)' /\ EpochOK(r)' /\ (Left(r)' = Left(r))
        /\ file' \in Seq(Int) /\ done' \in Nat /\ read_buf' \in Seq(Int) /\ Len(read_buf') >= BufSize
        => SyncInv'
  <2> TAKE l \in Outside \cup InLoop
  <2>1. \A q \in Ranks : epoch[q] >= Left(r)
    BY DEF SyncInv, BarrierInv
  <2> QED BY <1>0, <2>1, MoveKeepsSync
<1>1. CASE Reset(r)
  <2>1. PICK l \in {"to_start", "finish"} : Goto(r, l) /\ (l = "to_start" => n[r] # nloops)
    BY <1>1 DEF Reset
  <2>2. n[r] < nloops \/ l = "finish"
    BY <1>1, <1>t, <2>1, SMT DEF Reset, Goto
  <2>3. pc[r] = "reset" /\ pc'[r] = l
    BY <1>1, <1>t, <2>1 DEF Reset, Goto
  <2>4. file' \in Seq(Int)
    <3>1. CASE r = 0 /\ n[r] # nloops
      <4>1. n[r] < nloops
        BY <1>t, <3>1, SMT
      <4>2. Sizes(r).chunk \in Nat
        BY <4>1, DrawSizes DEF SyncInv
      <4>3. file' = Rep(CHUNK_CHAR, Sizes(r).chunk)
        BY <1>1, <3>1 DEF Reset
      <4>4. CHUNK_CHAR \in Int
        BY SMT DEF CHUNK_CHAR
      <4>5. Rep(CHUNK_CHAR, Sizes(r).chunk) \in Seq(Int)
        BY <1>t, <4>2, <4>4, FileTyped
      <4> QED BY <4>3, <4>5
    <3>2. CASE ~ (r = 0 /\ n[r] # nloops)
      BY <1>1, <1>t, <3>2 DEF Reset
    <3> QED BY <3>1, <3>2
  <2>5. PosOK(r)' /\ EpochOK(r)' /\ Left(r)' = Left(r) /\ l \in Outside \cup InLoop
    BY <1>0, <1>t, <2>1, <2>2, <2>3 DEF PosOK, EpochOK, Left, InBarrier, InLoop, Outside
  <2>6. done' = done /\ read_buf' = read_buf
    BY <1>1 DEF Reset
  <2> QED BY <1>t, <1>w, <2>1, <2>4, <2>5, <2>6
<1>2. CASE AppendWrite(r)
  <2>1. pc[r] = "append" /\ read_buf' = read_buf
    BY <1>2 DEF AppendWrite
  <2>2. Sizes(r).append \in Nat
    BY <1>s, <2>1 DEF InLoop
  <2>3. PICK k \in IF job.short THEN 1 .. Sizes(r).append - done ELSE {Sizes(r).append} :
            /\ file' = file \o Rep(APPEND_CHAR, k)
            /\ IF done + k = Sizes(r).append THEN done' = 0 /\ Goto(r, "to_end")
                                             ELSE done' = done + k /\ UNCHANGED pc
    BY <1>2 DEF AppendWrite
  <2>4. k \in Nat
    BY <1>t, <2>2, <2>3, SMT
  <2>5. file' \in Seq(Int)
    BY <1>t, <2>3, <2>4, FileTyped, SMT DEF APPEND_CHAR
  <2>6. done' \in Nat
    BY <1>t, <2>3, <2>4, SMT
  <2>7. PICK l \in {"append", "to_end"} : Goto(r, l)
    BY <1>t, <2>1, <2>3 DEF Goto
  <2>8. PosOK(r)' /\ EpochOK(r)' /\ Left(r)' = Left(r) /\ l \in Outside \cup InLoop
    BY <1>0, <1>t, <2>1, <2>7 DEF PosOK, EpochOK, Left, InBarrier, InLoop, Outside, Goto
  <2> QED BY <1>t, <1>w, <2>1, <2>5, <2>6, <2>7, <2>8
<1>3. CASE Truncate(r)
  <2>1. pc[r] = "truncate" /\ read_buf' = read_buf /\ done' = done /\ Goto(r, "to_end")
        /\ file' = TruncateTo(file, Sizes(r).trunc)
    BY <1>3 DEF Truncate
  <2>2. Sizes(r).trunc \in Nat
    BY <1>s, <2>1 DEF InLoop
  <2>3. file' \in Seq(Int)
    <3>1. NUL \in Int
      BY SMT DEF NUL
    <3>2. TruncateTo(file, Sizes(r).trunc) \in Seq(Int)
      BY <1>t, <2>2, <3>1, FileTyped
    <3> QED BY <2>1, <3>2
  <2>4. PosOK(r)' /\ EpochOK(r)' /\ Left(r)' = Left(r) /\ "to_end" \in Outside \cup InLoop
    BY <1>0, <1>t, <2>1 DEF PosOK, EpochOK, Left, InBarrier, InLoop, Outside, Goto
  <2> QED BY <1>t, <1>w, <2>1, <2>3, <2>4
<1>4. CASE Check(r)
  <2>1. pc[r] = "check" /\ done' = done /\ Goto(r, "bcast") /\ file' = file
        /\ read_buf' = file \o SubSeq(read_buf, Len(file) + 1, BufSize)
    BY <1>4 DEF Check
  <2>2. read_buf' \in Seq(Int) /\ Len(read_buf') >= BufSize
    BY <1>t, <2>1, BufferTyped DEF ConstantsOK
  <2>3. PosOK(r)' /\ EpochOK(r)' /\ Left(r)' = Left(r) /\ "bcast" \in Outside \cup InLoop
    BY <1>0, <1>t, <2>1 DEF PosOK, EpochOK, Left, InBarrier, InLoop, Outside, Goto
  <2> QED BY <1>t, <1>w, <2>1, <2>2, <2>3
<1>5. CASE Finish(r)
  <2>1. pc[r] = "finish" /\ done' = done /\ Goto(r, "end") /\ read_buf' = read_buf
        /\ file' \in {<<>>, file}
    BY <1>5 DEF Finish
  <2>2. file' \in Seq(Int)
    <3>1. <<>> \in Seq(Int)
      BY SMT
    <3> QED BY <1>t, <2>1, <3>1
  <2>3. PosOK(r)' /\ EpochOK(r)' /\ Left(r)' = Left(r) /\ "end" \in Outside \cup InLoop
    BY <1>0, <1>t, <2>1 DEF PosOK, EpochOK, Left, InBarrier, InLoop, Outside, Goto
  <2> QED BY <1>t, <1>w, <2>1, <2>2, <2>3
<1> QED BY <1>1, <1>2, <1>3, <1>4, <1>5

\* Every step keeps the ranks in step.
LEMMA NextKeepsSync ==
    ASSUME ConstantsOK, SyncInv, [Next]_vars
    PROVE  SyncInv'
<1>1. CASE UNCHANGED vars
  BY <1>1 DEF vars, SyncInv, TypeInv, PosOK, EpochOK, BarrierInv, Left, InBarrier, SentInv, Ranks, size,
              nloops
<1>2. ASSUME NEW r \in Ranks, Step(r) PROVE SyncInv'
  <2>1. ~ aborted
    BY <1>2 DEF Step
  <2>2. CASE \/ Enter(r, "to_prep", "in_prep") \/ Enter(r, "to_start", "in_start")
             \/ Enter(r, "to_end", "in_end")
    BY <2>2, EnterKeepsSync
  <2>3. CASE PrepLeave(r) \/ StartLeave(r) \/ EndLeave(r)
    BY <2>3, LeaveKeepsSync
  <2>4. CASE Reset(r) \/ AppendWrite(r) \/ Truncate(r) \/ Check(r) \/ Finish(r)
    BY <2>4, WorkKeepsSync
  <2>5. CASE Bcast(r)
    BY <2>1, <2>5, BcastKeepsSync
  <2> QED BY <1>2, <2>2, <2>3, <2>4, <2>5 DEF Step
<1>3. ASSUME NEW r \in Ranks, CallFails(r) PROVE SyncInv'
  BY <1>3 DEF CallFails, SyncInv, TypeInv, PosOK, EpochOK, BarrierInv, Left, InBarrier, SentInv, Ranks,
              size, nloops
<1>4. CASE FsDamages
  <2>1. file' \in Seq(Int)
    <3>1. file \in Seq(Int) /\ file # <<>>
      BY <1>4 DEF FsDamages, SyncInv, TypeInv
    <3>2. ASSUME NEW k \in DOMAIN file, NEW b \in {NUL, 66}
          PROVE  [file EXCEPT ![k] = b] \in Seq(Int)
      BY <3>1, SMT DEF NUL
    <3>3. SubSeq(file, 1, Len(file) - 1) \in Seq(Int)
      BY <3>1, SMT
    <3>4. \/ \E k \in DOMAIN file, b \in {NUL, 66} : file' = [file EXCEPT ![k] = b]
          \/ file' = SubSeq(file, 1, Len(file) - 1)
      BY <1>4, SMT DEF FsDamages
    <3> QED BY <3>2, <3>3, <3>4, ZenonT(40)
  <2>2. UNCHANGED <<job, pc, epoch, n, draw, done, read_buf, sent, aborted>>
    BY <1>4 DEF FsDamages
  <2> QED BY <2>1, <2>2, SMT DEF SyncInv, TypeInv, PosOK, EpochOK, BarrierInv, Left, InBarrier, SentInv, Ranks,
              size, nloops
<1> QED BY <1>1, <1>2, <1>3, <1>4 DEF Next

-----------------------------------------------------------------------------
\* A rank that appends or truncates is in the loop of rank 0, which waits for it.
LEMMA RacerMeetsRoot ==
    ASSUME ConstantsOK, SyncInv, ~ aborted, NEW r \in Ranks, pc[r] \in {"append", "truncate"}
    PROVE  n[r] = n[0] /\ Racing /\ pc[0] # "check"
<1>0. 0 \in Ranks /\ n[0] \in Nat /\ n[r] \in Nat /\ epoch[0] \in Nat /\ epoch[r] \in Nat
      /\ pc[0] \in Outside \cup InLoop
  BY Numbers, SMT DEF SyncInv, TypeInv
<1>1. epoch[r] = 2 + 2 * n[r] /\ Left(r) = epoch[r]
  BY <1>0, SMT DEF SyncInv, EpochOK, Left, InBarrier
<1>2. epoch[0] >= 2 + 2 * n[r] /\ Left(0) <= 2 + 2 * n[r]
  BY <1>0, <1>1 DEF SyncInv, BarrierInv
<1>3. EpochOK(0) /\ PosOK(0)
  BY <1>0 DEF SyncInv
<1>4. n[r] <= n[0]
  BY <1>0 DEF SyncInv, SentInv
<1> QED BY <1>0, <1>2, <1>3, <1>4, SMT DEF EpochOK, PosOK, Left, InBarrier, Racing, InLoop, Outside

\* When rank 0 checks the file, every rank has done its part.
LEMMA CheckIsLast ==
    ASSUME ConstantsOK, SyncInv, ~ aborted, pc[0] = "check", NEW r \in Ranks
    PROVE  Past(r)
<1>0. 0 \in Ranks /\ n[0] \in Nat /\ n[r] \in Nat /\ epoch[0] \in Nat /\ epoch[r] \in Nat
      /\ pc[r] \in Outside \cup InLoop /\ nloops \in Nat
  BY Numbers, SMT DEF SyncInv, TypeInv
<1>1. epoch[0] = 3 + 2 * n[0] /\ Left(0) = epoch[0] /\ n[0] < nloops
  BY <1>0, SMT DEF SyncInv, EpochOK, PosOK, InLoop, Left, InBarrier
<1>2. epoch[r] >= 3 + 2 * n[0]
  BY <1>0, <1>1 DEF SyncInv, BarrierInv
<1>3. EpochOK(r) /\ PosOK(r)
  BY <1>0 DEF SyncInv
<1>4. n[r] <= n[0]
  BY <1>0 DEF SyncInv, SentInv
<1> QED BY <1>0, <1>1, <1>2, <1>3, <1>4, SMT DEF EpochOK, PosOK, Past, InLoop, Outside

\* When rank 0 resets the file, nobody has begun the loop.
LEMMA ResetIsFirst ==
    ASSUME ConstantsOK, SyncInv, pc[0] = "reset", NEW r \in Ranks
    PROVE  ~ Past(r)
<1>0. 0 \in Ranks /\ n[0] \in Nat /\ n[r] \in Nat /\ epoch[0] \in Nat /\ epoch[r] \in Nat
      /\ pc[r] \in Outside \cup InLoop
  BY Numbers, SMT DEF SyncInv, TypeInv
<1>1. epoch[0] = 1 + 2 * n[0]
  BY <1>0, SMT DEF SyncInv, EpochOK
<1>2. Left(r) <= 1 + 2 * n[0]
  BY <1>0, <1>1 DEF SyncInv, BarrierInv
<1>3. EpochOK(r)
  BY <1>0 DEF SyncInv
<1> QED BY <1>0, <1>2, <1>3, SMT DEF EpochOK, Past, Left, InBarrier

\* A rank past the start of the race is in the loop of rank 0.
LEMMA StarterMeetsRoot ==
    ASSUME ConstantsOK, SyncInv, ~ aborted, NEW r \in Ranks, pc[r] = "in_start"
    PROVE  n[r] = n[0]
<1>0. 0 \in Ranks /\ n[0] \in Nat /\ n[r] \in Nat /\ epoch[0] \in Nat /\ epoch[r] \in Nat
      /\ pc[0] \in Outside \cup InLoop
  BY Numbers, SMT DEF SyncInv, TypeInv
<1>1. epoch[r] = 2 + 2 * n[r]
  BY <1>0, SMT DEF SyncInv, EpochOK
<1>2. Left(0) <= 2 + 2 * n[r]
  BY <1>0, <1>1 DEF SyncInv, BarrierInv
<1>3. EpochOK(0) /\ PosOK(0)
  BY <1>0 DEF SyncInv
<1>4. n[r] <= n[0]
  BY <1>0 DEF SyncInv, SentInv
<1>5. CASE pc[0] \in {"to_prep", "in_prep"}
  BY <1>0, <1>3, <1>4, <1>5, SMT DEF PosOK
<1>6. CASE pc[0] \notin {"to_prep", "in_prep"}
  <2>1. Left(0) >= 1 + 2 * n[0]
    BY <1>0, <1>3, <1>6, SMT DEF EpochOK, Left, InBarrier, Outside, InLoop
  <2>2. Left(0) \in Int
    BY <1>0, SMT DEF Left
  <2> DEFINE a == n[0]
             b == n[r]
             m == Left(0)
  <2>3. a \in Nat /\ b \in Nat /\ m \in Int /\ m >= 1 + 2 * a /\ m <= 2 + 2 * b /\ b <= a
    BY <1>0, <1>2, <1>4, <2>1, <2>2
  <2> HIDE DEF a, b, m
  <2>4. a = b
    BY <2>3, SMT
  <2> QED BY <2>4 DEF a, b
<1> QED BY <1>5, <1>6

-----------------------------------------------------------------------------
\* What a concatenation holds.
LEMMA Concatenated ==
    ASSUME NEW f \in Seq(Int), NEW t \in Seq(Int)
    PROVE  /\ f \o t \in Seq(Int) /\ Len(f \o t) = Len(f) + Len(t)
           /\ \A i \in 1 .. Len(f) : (f \o t)[i] = f[i]
           /\ \A i \in Len(f) + 1 .. Len(f) + Len(t) : (f \o t)[i] = t[i - Len(f)]
BY SMT

\* Two sequences with the same elements are the same.
LEMMA SameElements ==
    ASSUME NEW f \in Seq(Int), NEW g \in Seq(Int), Len(f) = Len(g),
           \A i \in 1 .. Len(f) : f[i] = g[i]
    PROVE  f = g
<1>1. f = [i \in 1 .. Len(f) |-> f[i]] /\ g = [i \in 1 .. Len(g) |-> g[i]]
  BY SMT
<1> QED BY <1>1

\* A run of one byte.
LEMMA RepBytes ==
    ASSUME NEW x \in Int, NEW k \in Nat
    PROVE  Rep(x, k) \in Seq(Int) /\ Len(Rep(x, k)) = k /\ \A i \in 1 .. k : Rep(x, k)[i] = x
BY SMT DEF Rep

\* The file right after the reset.
LEMMA ShapeOfReset ==
    ASSUME NEW c \in Nat
    PROVE  Shape(Rep(CHUNK_CHAR, c), c, 0, 0)
BY SMT DEF Shape, Rep

\* A write with O_APPEND.
LEMMA ShapeOfAppend ==
    ASSUME NEW f \in Seq(Int), NEW c \in Nat, NEW z \in Nat, NEW m \in Nat, NEW k \in Nat,
           Shape(f, c, z, m)
    PROVE  Shape(f \o Rep(APPEND_CHAR, k), c, z, m + k)
<1> DEFINE t == Rep(APPEND_CHAR, k)
<1>1. t \in Seq(Int) /\ Len(t) = k /\ \A i \in 1 .. k : t[i] = APPEND_CHAR
  BY SMT DEF Rep, APPEND_CHAR
<1> HIDE DEF t
<1>2. /\ Len(f \o t) = Len(f) + k
      /\ \A i \in 1 .. Len(f) : (f \o t)[i] = f[i]
      /\ \A i \in Len(f) + 1 .. Len(f) + k : (f \o t)[i] = t[i - Len(f)]
  BY <1>1, Concatenated
<1>3. ASSUME NEW i \in Len(f) + 1 .. Len(f) + k PROVE (f \o t)[i] = APPEND_CHAR
  BY <1>1, <1>2, SMT
<1>4. Len(f) = c + z + m
  BY DEF Shape
<1>5. ASSUME NEW i \in 1 .. Len(f) + k
      PROVE  (f \o t)[i] = IF i <= c THEN CHUNK_CHAR ELSE IF i <= c + z THEN NUL ELSE APPEND_CHAR
  <2>1. CASE i \in 1 .. Len(f)
    BY <1>2, <2>1 DEF Shape
  <2>2. CASE i \in Len(f) + 1 .. Len(f) + k
    <3>1. (f \o t)[i] = APPEND_CHAR
      BY <1>3, <2>2
    <3>2. ~ (i <= c) /\ ~ (i <= c + z)
      BY <1>4, <2>2, SMT
    <3> QED BY <3>1, <3>2
  <2>3. i \in 1 .. Len(f) \/ i \in Len(f) + 1 .. Len(f) + k
    BY <1>4, SMT
  <2> QED BY <2>1, <2>2, <2>3
<1> QED BY <1>2, <1>4, <1>5, SMT DEF Shape, t

\* A file that grows by a hole.
LEMMA ShapeOfNuls ==
    ASSUME NEW f \in Seq(Int), NEW c \in Nat, NEW z \in Nat, Shape(f, c, 0, 0)
    PROVE  Shape(f \o Rep(NUL, z), c, z, 0)
<1> DEFINE t == Rep(NUL, z)
<1>0. NUL \in Int
  BY SMT DEF NUL
<1>1. t \in Seq(Int) /\ Len(t) = z /\ \A i \in 1 .. z : t[i] = NUL
  BY <1>0, RepBytes
<1> HIDE DEF t
<1>2. Len(f) = c /\ \A i \in 1 .. c : f[i] = CHUNK_CHAR
  BY SMT DEF Shape
<1>3. /\ Len(f \o t) = c + z
      /\ \A i \in 1 .. c : (f \o t)[i] = f[i]
      /\ \A i \in c + 1 .. c + z : (f \o t)[i] = t[i - c]
  BY <1>1, <1>2, Concatenated
<1>4. ASSUME NEW i \in 1 .. c + z PROVE (f \o t)[i] = IF i <= c THEN CHUNK_CHAR ELSE NUL
  <2>1. CASE i <= c
    BY <1>2, <1>3, <2>1, SMT
  <2>2. CASE ~ (i <= c)
    <3>1. i \in c + 1 .. c + z /\ i - c \in 1 .. z
      BY <2>2, SMT
    <3> QED BY <1>1, <1>3, <2>2, <3>1
  <2> QED BY <2>1, <2>2
<1> QED BY <1>3, <1>4, SMT DEF Shape, t

\* A truncate behind the chunk that comes first makes a hole.
LEMMA ShapeOfHole ==
    ASSUME NEW f \in Seq(Int), NEW c \in Nat, NEW t \in Nat, c <= t, Shape(f, c, 0, 0)
    PROVE  Shape(TruncateTo(f, t), c, t - c, 0)
<1>1. Len(f) = c
  BY SMT DEF Shape
<1>2. CASE t = c
  <2>1. TruncateTo(f, t) = SubSeq(f, 1, t)
    BY <1>1, <1>2 DEF TruncateTo
  <2>2. SubSeq(f, 1, t) = f
    BY <1>1, <1>2, SMT
  <2> QED BY <1>1, <1>2, <2>1, <2>2, SMT DEF Shape
<1>3. CASE t > c
  <2>1. TruncateTo(f, t) = f \o Rep(NUL, t - c)
    BY <1>1, <1>3, SMT DEF TruncateTo
  <2>2. t - c \in Nat
    BY SMT
  <2> QED BY <2>1, <2>2, ShapeOfNuls
<1> QED BY <1>2, <1>3, SMT

\* A truncate that comes last cuts what was appended.
LEMMA ShapeOfCut ==
    ASSUME NEW f \in Seq(Int), NEW c \in Nat, NEW m \in Nat, NEW t \in Nat, c <= t, t <= c + m,
           Shape(f, c, 0, m)
    PROVE  Shape(TruncateTo(f, t), c, 0, t - c)
<1>1. Len(f) = c + m /\ \A i \in 1 .. c + m : f[i] = IF i <= c THEN CHUNK_CHAR ELSE APPEND_CHAR
  BY SMT DEF Shape
<1>2. TruncateTo(f, t) = SubSeq(f, 1, t)
  BY <1>1 DEF TruncateTo
<1>3. Len(SubSeq(f, 1, t)) = t /\ \A i \in 1 .. t : SubSeq(f, 1, t)[i] = f[i]
  BY <1>1, SMT
<1> QED BY <1>1, <1>2, <1>3, SMT DEF Shape

-----------------------------------------------------------------------------
\* A comparison with one byte that all bytes are.
LEMMA MemcmpSame ==
    ASSUME NEW b, NEW from, NEW c, NEW k, \A j \in from + 1 .. from + k : b[j] = c
    PROVE  memcmp(b, from, c, k) = {0}
BY DEF memcmp

\* A comparison with one byte that some byte is not.
LEMMA MemcmpDifferent ==
    ASSUME NEW b \in Seq(Int), NEW from \in Nat, NEW c \in Int, NEW k \in Nat, from + k <= Len(b),
           \E j \in from + 1 .. from + k : b[j] # c
    PROVE  0 \notin memcmp(b, from, c, k)
<1> DEFINE diff == {j \in from + 1 .. from + k : b[j] # c}
           first == {j \in diff : \A m \in diff : j <= m}
<1>1. memcmp(b, from, c, k) = UNION {{b[j] - c, IF b[j] > c THEN 1 ELSE -1} : j \in first}
  <2>1. diff # {}
    OBVIOUS
  <2> QED BY <2>1 DEF memcmp
<1>2. ASSUME NEW j \in first PROVE 0 \notin {b[j] - c, IF b[j] > c THEN 1 ELSE -1}
  <2>1. b[j] \in Int /\ b[j] # c
    BY SMT
  <2> QED BY <2>1, SMT
<1> HIDE DEF first
<1> QED BY <1>1, <1>2

\* In terms of Differs.
LEMMA DiffersCompares ==
    ASSUME NEW b \in Seq(Int), NEW from \in Nat, NEW c \in Int, NEW k \in Nat, from + k <= Len(b)
    PROVE  Differs(b, from, c, k) <=> \E j \in from + 1 .. from + k : b[j] # c
<1>1. CASE \E j \in from + 1 .. from + k : b[j] # c
  <2>1. 0 \notin memcmp(b, from, c, k)
    BY <1>1, MemcmpDifferent
  <2> QED BY <1>1, <2>1 DEF Differs
<1>2. CASE \A j \in from + 1 .. from + k : b[j] = c
  <2>1. memcmp(b, from, c, k) = {0}
    BY <1>2, MemcmpSame
  <2> QED BY <1>2, <2>1 DEF Differs
<1> QED BY <1>1, <1>2

\* The two shapes in terms of the runs of bytes that are compared.
LEMMA CutRuns ==
    ASSUME NEW g \in Seq(Int), NEW c \in Nat, NEW z \in Nat, Len(g) = c + z
    PROVE  Shape(g, c, 0, z) <=> /\ \A j \in 1 .. c : g[j] = CHUNK_CHAR
                                 /\ \A j \in c + 1 .. c + z : g[j] = APPEND_CHAR
<1> DEFINE Byte(k) == IF k <= c THEN CHUNK_CHAR ELSE APPEND_CHAR
<1>1. Shape(g, c, 0, z) <=> \A k \in 1 .. c + z : g[k] = Byte(k)
  BY SMT DEF Shape
<1>2. ASSUME \A k \in 1 .. c + z : g[k] = Byte(k), NEW j \in 1 .. c PROVE g[j] = CHUNK_CHAR
  <2>1. j \in 1 .. c + z /\ j <= c
    BY SMT
  <2> QED BY <1>2, <2>1
<1>3. ASSUME \A k \in 1 .. c + z : g[k] = Byte(k), NEW j \in c + 1 .. c + z PROVE g[j] = APPEND_CHAR
  <2>1. j \in 1 .. c + z /\ ~ (j <= c)
    BY SMT
  <2> QED BY <1>3, <2>1
<1>4. ASSUME \A j \in 1 .. c : g[j] = CHUNK_CHAR, \A j \in c + 1 .. c + z : g[j] = APPEND_CHAR,
             NEW k \in 1 .. c + z
      PROVE  g[k] = Byte(k)
  <2>1. (k \in 1 .. c /\ k <= c) \/ (k \in c + 1 .. c + z /\ ~ (k <= c))
    BY SMT
  <2> QED BY <1>4, <2>1
<1> HIDE DEF Byte
<1> QED BY <1>1, <1>2, <1>3, <1>4

\* The same with a hole.
HoleOf(g, c, z, a) ==
    /\ \A j \in 1 .. c : g[j] = CHUNK_CHAR
    /\ \A j \in c + 1 .. c + z : g[j] = NUL
    /\ \A j \in c + z + 1 .. c + z + a : g[j] = APPEND_CHAR

\* A file with a hole, in terms of its three runs of bytes.
LEMMA HoleRuns ==
    ASSUME NEW g \in Seq(Int), NEW c \in Nat, NEW z \in Nat, NEW a \in Nat, Len(g) = c + z + a
    PROVE  Shape(g, c, z, a) <=> HoleOf(g, c, z, a)
<1> DEFINE Byte(k) == IF k <= c THEN CHUNK_CHAR ELSE IF k <= c + z THEN NUL ELSE APPEND_CHAR
           Good == \A k \in 1 .. c + z + a : g[k] = Byte(k)
<1>1. Shape(g, c, z, a) <=> Good
  BY DEF Shape
<1>2. ASSUME Good, NEW j \in 1 .. c PROVE g[j] = CHUNK_CHAR
  <2>1. j \in 1 .. c + z + a /\ j <= c
    BY SMT
  <2> QED BY <1>2, <2>1
<1>3. ASSUME Good, NEW j \in c + 1 .. c + z PROVE g[j] = NUL
  <2>1. j \in 1 .. c + z + a /\ ~ (j <= c) /\ j <= c + z
    BY SMT
  <2> QED BY <1>3, <2>1
<1>4. ASSUME Good, NEW j \in c + z + 1 .. c + z + a PROVE g[j] = APPEND_CHAR
  <2>1. j \in 1 .. c + z + a /\ ~ (j <= c) /\ ~ (j <= c + z)
    BY SMT
  <2> QED BY <1>4, <2>1
<1>5. ASSUME HoleOf(g, c, z, a), NEW k \in 1 .. c + z + a PROVE g[k] = Byte(k)
  <2>1. \/ k \in 1 .. c /\ k <= c
        \/ k \in c + 1 .. c + z /\ ~ (k <= c) /\ k <= c + z
        \/ k \in c + z + 1 .. c + z + a /\ ~ (k <= c) /\ ~ (k <= c + z)
    BY SMT
  <2> QED BY <1>5, <2>1 DEF HoleOf
<1> HIDE DEF Byte
<1> QED BY <1>1, <1>2, <1>3, <1>4, <1>5 DEF HoleOf

\* The comparisons of case 1 accept the file that was cut, and no other of its length.
LEMMA CutJudged ==
    ASSUME NEW g \in Seq(Int), NEW b \in Seq(Int), NEW c \in Nat, NEW z \in Nat,
           Len(g) = c + z, c + z <= Len(b), \A k \in 1 .. c + z : b[k] = g[k],
           NEW e \in memcmp(b, c, APPEND_CHAR, z)
    PROVE  (~ Differs(b, 0, CHUNK_CHAR, c) /\ e = 0) <=> Shape(g, c, 0, z)
<1>1. CHUNK_CHAR \in Int /\ APPEND_CHAR \in Int /\ 0 + c <= Len(b) /\ 0 + c = c /\ 0 + 1 = 1
  BY SMT DEF CHUNK_CHAR, APPEND_CHAR
<1>2. Differs(b, 0, CHUNK_CHAR, c) <=> \E j \in 0 + 1 .. 0 + c : b[j] # CHUNK_CHAR
  BY <1>1, DiffersCompares
<1>3. Differs(b, 0, CHUNK_CHAR, c) <=> \E j \in 1 .. c : g[j] # CHUNK_CHAR
  <2>1. ASSUME NEW j \in 1 .. c PROVE b[j] = g[j]
    <3>1. j \in 1 .. c + z
      BY SMT
    <3> QED BY <3>1
  <2>2. 0 + 1 .. 0 + c = 1 .. c
    BY SMT
  <2>3. (\E j \in 1 .. c : b[j] # CHUNK_CHAR) <=> \E j \in 1 .. c : g[j] # CHUNK_CHAR
    BY <2>1
  <2> QED BY <1>2, <2>2, <2>3
<1>4. ASSUME NEW j \in c + 1 .. c + z PROVE b[j] = g[j]
  <2>1. j \in 1 .. c + z
    BY SMT
  <2> QED BY <2>1
<1>5. e = 0 <=> \A j \in c + 1 .. c + z : g[j] = APPEND_CHAR
  <2>1. CASE \A j \in c + 1 .. c + z : b[j] = APPEND_CHAR
    <3>1. memcmp(b, c, APPEND_CHAR, z) = {0}
      BY <2>1, MemcmpSame
    <3> QED BY <1>4, <2>1, <3>1
  <2>2. CASE \E j \in c + 1 .. c + z : b[j] # APPEND_CHAR
    <3>1. 0 \notin memcmp(b, c, APPEND_CHAR, z)
      BY <1>1, <2>2, MemcmpDifferent
    <3> QED BY <1>4, <2>2, <3>1
  <2> QED BY <2>1, <2>2
<1>6. Shape(g, c, 0, z) <=> /\ \A j \in 1 .. c : g[j] = CHUNK_CHAR
                            /\ \A j \in c + 1 .. c + z : g[j] = APPEND_CHAR
  BY CutRuns
<1> QED BY <1>3, <1>5, <1>6

\* The comparisons of case 2.
HoleAccepted(b, c, z, a) ==
    ~ Differs(b, 0, CHUNK_CHAR, c) /\ ~ Differs(b, c, NUL, z) /\ ~ Differs(b, c + z, APPEND_CHAR, a)

\* Three runs of bytes one after another lie within the bytes there are.
LEMMA RunsWithin ==
    ASSUME NEW c \in Nat, NEW z \in Nat, NEW a \in Nat
    PROVE  /\ 1 .. c \subseteq 1 .. c + z + a /\ c + 1 .. c + z \subseteq 1 .. c + z + a
           /\ c + z + 1 .. c + z + a \subseteq 1 .. c + z + a
BY SMT

\* The comparisons of case 2 accept the file with the hole, and no other of its length.
LEMMA HoleJudged ==
    ASSUME NEW g \in Seq(Int), NEW b \in Seq(Int), NEW c \in Nat, NEW z \in Nat, NEW a \in Nat,
           Len(g) = c + z + a, c + z + a <= Len(b), \A k \in 1 .. c + z + a : b[k] = g[k]
    PROVE  HoleAccepted(b, c, z, a) <=> Shape(g, c, z, a)
<1>0. /\ 1 .. c \subseteq 1 .. c + z + a /\ c + 1 .. c + z \subseteq 1 .. c + z + a
      /\ c + z + 1 .. c + z + a \subseteq 1 .. c + z + a
  BY RunsWithin
<1>1. /\ CHUNK_CHAR \in Int /\ APPEND_CHAR \in Int /\ NUL \in Int
      /\ 0 + c <= Len(b) /\ 0 + c = c /\ 0 + 1 = 1 /\ c + z <= Len(b) /\ c + z \in Nat
  BY SMT DEF CHUNK_CHAR, APPEND_CHAR, NUL
<1>2. Differs(b, 0, CHUNK_CHAR, c) <=> \E j \in 0 + 1 .. 0 + c : b[j] # CHUNK_CHAR
  BY <1>1, DiffersCompares
<1>3. Differs(b, 0, CHUNK_CHAR, c) <=> \E j \in 1 .. c : g[j] # CHUNK_CHAR
  <2>1. \A j \in 1 .. c : b[j] = g[j]
    BY <1>0
  <2> QED BY <1>1, <1>2, <2>1
<1>4. Differs(b, c, NUL, z) <=> \E j \in c + 1 .. c + z : g[j] # NUL
  <2>1. \A j \in c + 1 .. c + z : b[j] = g[j]
    BY <1>0
  <2>2. Differs(b, c, NUL, z) <=> \E j \in c + 1 .. c + z : b[j] # NUL
    BY <1>1, DiffersCompares
  <2> QED BY <2>1, <2>2
<1>5. Differs(b, c + z, APPEND_CHAR, a) <=> \E j \in c + z + 1 .. c + z + a : g[j] # APPEND_CHAR
  <2>1. \A j \in c + z + 1 .. c + z + a : b[j] = g[j]
    BY <1>0
  <2>2. Differs(b, c + z, APPEND_CHAR, a) <=> \E j \in c + z + 1 .. c + z + a : b[j] # APPEND_CHAR
    BY <1>1, DiffersCompares
  <2> QED BY <2>1, <2>2
<1>6. Shape(g, c, z, a) <=> HoleOf(g, c, z, a)
  BY HoleRuns
<1> QED BY <1>3, <1>4, <1>5, <1>6 DEF HoleOf, HoleAccepted

\* A shape says all about a file.
LEMMA SameShape ==
    ASSUME NEW f \in Seq(Int), NEW g \in Seq(Int), NEW c \in Nat, NEW z \in Nat, NEW a \in Nat,
           Shape(f, c, z, a), Shape(g, c, z, a)
    PROVE  f = g
<1>1. Len(f) = Len(g) /\ \A i \in 1 .. Len(f) : f[i] = g[i]
  BY DEF Shape
<1> QED BY <1>1, SameElements

\* The two shapes are the two files that the check is meant to accept.
LEMMA CutIsOrder ==
    ASSUME NEW f \in Seq(Int), NEW c \in Nat, NEW z \in Nat, Shape(f, c, 0, z)
    PROVE  f = Rep(CHUNK_CHAR, c) \o Rep(APPEND_CHAR, z)
<1> DEFINE C == Rep(CHUNK_CHAR, c)
<1>0. CHUNK_CHAR \in Int /\ APPEND_CHAR \in Int
  BY SMT DEF CHUNK_CHAR, APPEND_CHAR
<1>1. C \in Seq(Int) /\ Shape(C, c, 0, 0)
  BY <1>0, FileTyped, ShapeOfReset
<1> HIDE DEF C
<1>2. C \o Rep(APPEND_CHAR, z) \in Seq(Int)
  BY <1>0, <1>1, FileTyped
<1>3. Shape(C \o Rep(APPEND_CHAR, z), c, 0, 0 + z) /\ 0 + z = z
  BY <1>1, ShapeOfAppend, SMT
<1> QED BY <1>2, <1>3, SameShape DEF C

\* The one with the hole.
HoleFile(c, z, a) == Rep(CHUNK_CHAR, c) \o Rep(NUL, z) \o Rep(APPEND_CHAR, a)

\* A file of the second shape is that one.
LEMMA HoleIsOrder ==
    ASSUME NEW f \in Seq(Int), NEW c \in Nat, NEW z \in Nat, NEW a \in Nat, Shape(f, c, z, a)
    PROVE  f = HoleFile(c, z, a)
<1> DEFINE C == Rep(CHUNK_CHAR, c)
           H == C \o Rep(NUL, z)
<1>0. CHUNK_CHAR \in Int /\ APPEND_CHAR \in Int /\ NUL \in Int
  BY SMT DEF CHUNK_CHAR, APPEND_CHAR, NUL
<1>1. C \in Seq(Int) /\ Shape(C, c, 0, 0)
  BY <1>0, FileTyped, ShapeOfReset
<1> HIDE DEF C
<1>2. H \in Seq(Int) /\ Shape(H, c, z, 0)
  BY <1>0, <1>1, FileTyped, ShapeOfNuls
<1> HIDE DEF H
<1>3. H \o Rep(APPEND_CHAR, a) \in Seq(Int)
  BY <1>0, <1>2, FileTyped
<1>4. Shape(H \o Rep(APPEND_CHAR, a), c, z, 0 + a) /\ 0 + a = a
  BY <1>2, ShapeOfAppend, SMT
<1>5. f = H \o Rep(APPEND_CHAR, a)
  BY <1>3, <1>4, SameShape
<1> QED BY <1>5 DEF C, H, HoleFile

\* What a verdict f says of the file.
Judged(f, c, z, a) ==
    /\ f.error = 1 => f.bad
    /\ Shape(file, c, 0, z) \/ Shape(file, c, z, a) => ~ f.bad
    /\ ~ f.bad /\ Len(file) = c + z => Shape(file, c, 0, z)
    /\ ~ f.bad /\ Len(file) = c + z + a => Shape(file, c, z, a)

\* Rank 0 accepts a file of one of the two shapes, and when it has the length of one
\* of them and is accepted it has that shape; an error of 1 comes with a message.
LEMMA VerdictOnFile ==
    ASSUME file \in Seq(Int), NEW b \in Seq(Int), \A k \in 1 .. Len(file) : b[k] = file[k],
           NEW d, NEW c \in Nat, NEW z \in Nat, NEW a \in Nat,
           d.chunk = c, d.trunc = c + z, d.append = a, a > 0, c + z + a <= Len(b),
           d.trunc - d.chunk = z, NEW f \in Findings(d, b)
    PROVE  Judged(f, c, z, a)
<1> DEFINE chunkbad == Differs(b, 0, CHUNK_CHAR, c)
           tailbad == Differs(b, c, NUL, z) \/ Differs(b, c + z, APPEND_CHAR, a)
<1>1. CASE Len(file) = c + z
  <2>1. PICK e \in memcmp(b, c, APPEND_CHAR, z) : f = [error |-> e, bad |-> chunkbad \/ e # 0]
    BY <1>1 DEF Findings
  <2>2. f.error = e /\ (f.bad <=> (chunkbad \/ e # 0))
    BY <2>1
  <2>3. \A k \in 1 .. c + z : b[k] = file[k]
    BY <1>1
  <2>4. c + z <= Len(b)
    BY SMT
  <2>5. (~ chunkbad /\ e = 0) <=> Shape(file, c, 0, z)
    BY <1>1, <2>3, <2>4, CutJudged, ZenonT(40)
  <2>6. ~ Shape(file, c, z, a) /\ Len(file) # c + z + a
    BY <1>1, SMT DEF Shape
  <2> HIDE DEF chunkbad
  <2>7. e = 1 => e # 0
    BY SMT
  <2> QED BY <2>2, <2>5, <2>6, <2>7 DEF Judged
<1>2. CASE Len(file) # c + z
  <2>1. f = [error |-> IF chunkbad \/ tailbad THEN 1 ELSE 0, bad |-> chunkbad \/ tailbad]
    <3>1. TailBad(d, b) <=> tailbad
      BY DEF TailBad
    <3>2. f = [error |-> IF chunkbad \/ TailBad(d, b) THEN 1 ELSE 0, bad |-> chunkbad \/ TailBad(d, b)]
      BY <1>2 DEF Findings
    <3> QED BY <3>1, <3>2
  <2>2. (f.bad <=> (chunkbad \/ tailbad)) /\ f.error = IF chunkbad \/ tailbad THEN 1 ELSE 0
    BY <2>1
  <2>3. ASSUME Len(file) = c + z + a PROVE ~ (chunkbad \/ tailbad) <=> Shape(file, c, z, a)
    <3>1. \A k \in 1 .. c + z + a : b[k] = file[k]
      BY <2>3
    <3>2. HoleAccepted(b, c, z, a) <=> Shape(file, c, z, a)
      BY <2>3, <3>1, HoleJudged
    <3> QED BY <3>2 DEF HoleAccepted
  <2>4. ~ Shape(file, c, 0, z)
    BY <1>2, SMT DEF Shape
  <2>5. Shape(file, c, z, a) => Len(file) = c + z + a
    BY DEF Shape
  <2> HIDE DEF chunkbad, tailbad
  <2>6. f.error = 1 => f.bad
    <3>1. ASSUME ~ (chunkbad \/ tailbad) PROVE f.error # 1
      BY <2>2, <3>1, SMT
    <3> QED BY <2>2, <3>1
  <2> QED BY <1>2, <2>2, <2>3, <2>4, <2>5, <2>6 DEF Judged
<1> QED BY <1>1, <1>2

-----------------------------------------------------------------------------
\* The two ranks that race.
LEMMA Roles ==
    ASSUME ConstantsOK, TypeInv
    PROVE  /\ pc \in [Ranks -> Outside \cup InLoop] /\ 0 \in Ranks /\ n[0] \in Nat
           /\ Appender \in Ranks /\ Truncater \in Ranks /\ Appender # Truncater
           /\ n \in [Ranks -> Nat]
<1>1. 0 \in Ranks /\ nloops \in Nat /\ \A k \in Nat : k % size \in Ranks /\ k % size # (k + 1) % size
  BY Numbers DEF TypeInv
<1>2. n[0] \in Nat /\ n \in [Ranks -> Nat]
  BY <1>1, SMT DEF TypeInv
<1>3. n[0] + 1 \in Nat
  BY <1>2, SMT
<1> QED BY <1>1, <1>2, <1>3 DEF TypeInv, Appender, Truncater

\* A step that moves rank r outside of the race, or to its part in it, and leaves the
\* file and what is said of it alone.
LEMMA QuietKeepsData ==
    ASSUME ConstantsOK, SyncInv, DataInv, ~ aborted, NEW r \in Ranks, NEW l, Goto(r, l),
           UNCHANGED <<job, draw, file, done, error, bad, damaged, split, aborted>>,
           n' \in [Ranks -> Nat], \A q \in Ranks \ {r} : n'[q] = n[q], n'[0] = n[0],
           pc[r] # "append", l = "append" => done < Sizes(r)'.append,
           r \in {Appender, Truncater} => (Past(r)' <=> Past(r)),
           r = 0 => (Racing' <=> Racing) /\ l # "bcast" /\ pc[0] # "bcast"
    PROVE  DataInv'
<1>0. /\ pc \in [Ranks -> Outside \cup InLoop] /\ 0 \in Ranks /\ n[0] \in Nat
      /\ Appender \in Ranks /\ Truncater \in Ranks
  BY Roles DEF SyncInv
<1>1. /\ Ranks' = Ranks /\ size' = size /\ pc' = [pc EXCEPT ![r] = l] /\ pc'[r] = l
      /\ \A q \in Ranks \ {r} : pc'[q] = pc[q]
  BY <1>0 DEF Ranks, size, Goto
<1>2. /\ Appender' = Appender /\ Truncater' = Truncater /\ Sizes(0)' = Sizes(0)
      /\ \A q \in Ranks \ {r} : draw'[n'[q]] = draw[n[q]]
  BY <1>1 DEF Appender, Truncater, Sizes
<1>3. (Past(Appender)' <=> Past(Appender)) /\ (Past(Truncater)' <=> Past(Truncater))
  <2>1. ASSUME NEW q \in {Appender, Truncater} PROVE Past(q)' <=> Past(q)
    <3>1. CASE q = r
      BY <2>1, <3>1
    <3>2. CASE q # r
      BY <1>0, <1>1, <2>1, <3>2 DEF Past
    <3> QED BY <3>1, <3>2
  <2> QED BY <1>2, <2>1 DEF Past
<1>4. Racing' <=> Racing
  BY <1>0, <1>1 DEF Racing
<1>5. Appended' = Appended
  BY <1>2, <1>3 DEF Appended
<1>6. DoneInv'
  <2>1. done' # 0 => pc'[Appender'] = "append"
    BY <1>0, <1>1, <1>2 DEF DataInv, DoneInv
  <2>2. ASSUME NEW q \in Ranks, pc'[q] = "append" PROVE done' < draw'[n'[q]].append
    <3>1. CASE q = r
      BY <1>1, <2>2, <3>1 DEF Sizes
    <3>2. CASE q # r
      BY <1>1, <1>2, <2>2, <3>2 DEF DataInv, DoneInv, Sizes
    <3> QED BY <3>1, <3>2
  <2> QED BY <1>1, <2>1, <2>2 DEF DataInv, DoneInv, Sizes
<1>7. FileInv'
  BY <1>2, <1>3, <1>4, <1>5 DEF DataInv, FileInv, Shape
<1>8. FreshInv'
  BY <1>3, <1>4 DEF DataInv, FreshInv
<1>9. pc'[0] = "bcast" <=> pc[0] = "bcast"
  BY <1>0, <1>1
<1>10. ErrorInv' /\ NoFalseAlarm'
  BY <1>9 DEF DataInv, ErrorInv, NoFalseAlarm
<1>11. WrongBytesNoticed'
  BY <1>2, <1>9 DEF DataInv, WrongBytesNoticed, AppendTruncate, TruncateAppend
<1> QED BY <1>6, <1>7, <1>8, <1>10, <1>11 DEF DataInv

\* The barriers.
LEMMA BarrierKeepsData ==
    ASSUME ConstantsOK, SyncInv, DataInv, ~ aborted, NEW r \in Ranks,
           \/ Enter(r, "to_prep", "in_prep") \/ Enter(r, "to_start", "in_start")
           \/ Enter(r, "to_end", "in_end")
           \/ PrepLeave(r) \/ StartLeave(r) \/ EndLeave(r)
    PROVE  DataInv'
<1>0. /\ pc \in [Ranks -> Outside \cup InLoop] /\ 0 \in Ranks /\ n[0] \in Nat
      /\ n \in [Ranks -> Nat] /\ n[r] \in Nat /\ Appender \in Ranks /\ Truncater \in Ranks
  BY Roles DEF SyncInv
<1>1. UNCHANGED <<job, n, draw, file, done, error, bad, damaged, split, aborted>>
  BY DEF Enter, PrepLeave, StartLeave, EndLeave
<1>2. /\ n' \in [Ranks -> Nat] /\ \A q \in Ranks \ {r} : n'[q] = n[q]
      /\ n'[0] = n[0]
  BY <1>0, <1>1
<1>3. Sizes(r)' = Sizes(r)
  BY <1>1 DEF Sizes
<1>4. ASSUME NEW l, Goto(r, l), <<pc[r], l>> \in {<<"to_prep", "in_prep">>, <<"to_start", "in_start">>,
                 <<"to_end", "in_end">>, <<"in_prep", "reset">>, <<"in_start", "truncate">>, <<"in_end", "check">>,
                 <<"in_end", "bcast">>, <<"in_start", "append">>, <<"in_start", "to_end">>},
             <<pc[r], l>> = <<"in_end", "bcast">> => r # 0,
             <<pc[r], l>> = <<"in_start", "append">> => done < Sizes(r).append,
             <<pc[r], l>> = <<"in_start", "to_end">> => r \notin {Appender, Truncater}
      PROVE  DataInv'
  <2>1. pc'[r] = l /\ \A q \in Ranks \ {r} : pc'[q] = pc[q]
    BY <1>0, <1>4 DEF Goto
  <2>2. r \in {Appender, Truncater} => (Past(r)' <=> Past(r))
    BY <1>0, <1>1, <1>4, <2>1 DEF Past
  <2>3. r = 0 => (Racing' <=> Racing) /\ l # "bcast" /\ pc[0] # "bcast"
    BY <1>0, <1>4, <2>1 DEF Racing, InLoop
  <2>4. pc[r] # "append" /\ (l = "append" => done < Sizes(r)'.append)
    BY <1>3, <1>4
  <2> QED BY <1>1, <1>2, <1>4, <2>2, <2>3, <2>4, QuietKeepsData
<1>5. ASSUME NEW at, NEW in, Enter(r, at, in),
             <<at, in>> \in {<<"to_prep", "in_prep">>, <<"to_start", "in_start">>, <<"to_end", "in_end">>}
      PROVE  DataInv'
  BY <1>4, <1>5 DEF Enter
<1>6. CASE PrepLeave(r)
  BY <1>4, <1>6 DEF PrepLeave
<1>7. CASE EndLeave(r)
  <2>1. CASE r = 0
    BY <1>4, <1>7, <2>1 DEF EndLeave
  <2>2. CASE r # 0
    BY <1>4, <1>7, <2>2 DEF EndLeave
  <2> QED BY <2>1, <2>2
<1>8. CASE StartLeave(r)
  <2>1. pc[r] = "in_start" /\ n[r] = n[0]
    BY <1>8, StarterMeetsRoot DEF StartLeave
  <2>2. CASE r = n[r] % size
    <3>1. Goto(r, "append")
      BY <1>8, <2>2 DEF StartLeave
    <3>2. Appender = r
      BY <2>1, <2>2 DEF Appender
    <3>3. done = 0
      BY <2>1, <3>2 DEF DataInv, DoneInv
    <3>4. n[r] < nloops
      BY <2>1 DEF SyncInv, PosOK, InLoop
    <3>5. 0 < Sizes(r).append
      BY <3>4, DrawSizes DEF SyncInv
    <3> QED BY <1>4, <2>1, <3>1, <3>3, <3>5
  <2>3. CASE r # n[r] % size /\ r = (n[r] + 1) % size
    <3>1. Goto(r, "truncate")
      BY <1>8, <2>3 DEF StartLeave
    <3> QED BY <1>4, <2>1, <3>1
  <2>4. CASE r # n[r] % size /\ r # (n[r] + 1) % size
    <3>1. Goto(r, "to_end")
      BY <1>8, <2>4 DEF StartLeave
    <3>2. r \notin {Appender, Truncater}
      BY <2>1, <2>4 DEF Appender, Truncater
    <3> QED BY <1>4, <2>1, <3>1, <3>2
  <2> QED BY <2>2, <2>3, <2>4
<1> QED BY <1>5, <1>6, <1>7, <1>8

\* The head of the loop.
LEMMA ResetKeepsData ==
    ASSUME ConstantsOK, SyncInv, DataInv, ~ aborted, NEW r \in Ranks, Reset(r)
    PROVE  DataInv'
<1>0. /\ pc \in [Ranks -> Outside \cup InLoop] /\ 0 \in Ranks /\ n[0] \in Nat
      /\ n \in [Ranks -> Nat] /\ Appender \in Ranks /\ Truncater \in Ranks
  BY Roles DEF SyncInv
<1>1. pc[r] = "reset" /\ UNCHANGED <<job, n, draw, done, error, aborted>>
  BY DEF Reset
<1>2. CASE r # 0 \/ n[r] = nloops
  <2>1. UNCHANGED <<file, bad, damaged, split>>
    BY <1>2 DEF Reset
  <2>2. PICK l \in {"finish", "to_start"} : Goto(r, l) /\ (r = 0 => l = "finish")
    BY <1>2 DEF Reset
  <2>3. pc'[r] = l
    BY <1>0, <2>2 DEF Goto
  <2>4. Past(r)' <=> Past(r)
    BY <1>1, <2>3 DEF Past
  <2>5. r = 0 => (Racing' <=> Racing) /\ l # "bcast" /\ pc[0] # "bcast"
    BY <1>1, <2>2, <2>3 DEF Racing, InLoop
  <2> QED BY <1>0, <1>1, <2>1, <2>2, <2>4, <2>5, QuietKeepsData
<1>3. CASE r = 0 /\ n[0] # nloops
  <2>0. n[0] < nloops /\ nloops \in Nat
    BY <1>0, <1>3, Numbers, SMT DEF SyncInv, TypeInv
  <2>1. /\ file' = Rep(CHUNK_CHAR, Sizes(0).chunk)
        /\ bad' = FALSE /\ damaged' = FALSE /\ split' = FALSE
        /\ pc' = [pc EXCEPT ![0] = "to_start"]
    BY <1>3 DEF Reset, Goto
  <2>2. Sizes(0).chunk \in Nat
    BY <1>0, <2>0, DrawSizes DEF SyncInv
  <2>3. Sizes(0)' = Sizes(0) /\ Appender' = Appender /\ Truncater' = Truncater /\ Ranks' = Ranks
    BY <1>1 DEF Sizes, Appender, Truncater, Ranks, size
  <2>4. \A q \in Ranks : pc[q] # "append"
    BY <1>1, <1>3, RacerMeetsRoot DEF Racing, InLoop
  <2>5. done = 0
    BY <1>0, <2>4 DEF DataInv, DoneInv
  <2>6. \A q \in Ranks : n'[q] = n[q] /\ pc'[q] = IF q = 0 THEN "to_start" ELSE pc[q]
    BY <1>0, <1>1, <2>1
  <2>7. \A q \in Ranks : ~ Past(q)
    BY <1>1, <1>3, ResetIsFirst
  <2>8. ~ Past(Appender)' /\ ~ Past(Truncater)'
    BY <1>0, <2>3, <2>6, <2>7 DEF Past
  <2>9. Appended' = 0
    BY <1>1, <2>5, <2>8 DEF Appended
  <2>10. Shape(file', Sizes(0).chunk, 0, 0)
    BY <2>1, <2>2, ShapeOfReset
  <2>11. DoneInv'
    BY <1>1, <2>3, <2>4, <2>5, <2>6 DEF DataInv, DoneInv
  <2>12. FileInv'
    BY <2>3, <2>8, <2>9, <2>10 DEF FileInv, Shape
  <2>13. FreshInv' /\ NoFalseAlarm'
    BY <1>1, <2>1 DEF FreshInv, NoFalseAlarm
  <2>14. ErrorInv'
    BY <1>1, <1>3 DEF DataInv, ErrorInv
  <2>15. WrongBytesNoticed'
    BY <1>0, <2>6 DEF WrongBytesNoticed
  <2> QED BY <2>11, <2>12, <2>13, <2>14, <2>15 DEF DataInv
<1> QED BY <1>2, <1>3

\* The end of a rank.
LEMMA FinishKeepsData ==
    ASSUME ConstantsOK, SyncInv, DataInv, ~ aborted, NEW r \in Ranks, Finish(r)
    PROVE  DataInv'
<1>0. /\ pc \in [Ranks -> Outside \cup InLoop] /\ 0 \in Ranks /\ n[0] \in Nat
      /\ n \in [Ranks -> Nat] /\ Appender \in Ranks /\ Truncater \in Ranks
  BY Roles DEF SyncInv
<1>1. /\ pc[r] = "finish" /\ UNCHANGED <<job, n, draw, done, error, bad, damaged, split, aborted>>
      /\ pc' = [pc EXCEPT ![r] = "end"] /\ pc'[r] = "end"
  BY <1>0 DEF Finish, Goto
<1>2. CASE r # 0
  <2>1. file' = file /\ Goto(r, "end")
    BY <1>2 DEF Finish
  <2>2. Past(r)' <=> Past(r)
    BY <1>1 DEF Past
  <2> QED BY <1>0, <1>1, <1>2, <2>1, <2>2, QuietKeepsData
<1>3. CASE r = 0
  <2>1. ~ Racing' /\ pc'[0] # "bcast" /\ pc[0] # "bcast"
    BY <1>1, <1>3 DEF Racing, InLoop
  <2>2. Appender' = Appender /\ Ranks' = Ranks /\ \A q \in Ranks : draw'[n'[q]] = draw[n[q]]
    BY <1>1 DEF Appender, Ranks, size
  <2>3. \A q \in Ranks : pc'[q] = "append" <=> pc[q] = "append"
    BY <1>0, <1>1
  <2>4. DoneInv'
    BY <1>0, <1>1, <2>2, <2>3 DEF DataInv, DoneInv, Sizes
  <2>5. FileInv' /\ FreshInv' /\ WrongBytesNoticed'
    BY <2>1 DEF FileInv, FreshInv, WrongBytesNoticed
  <2>6. ErrorInv' /\ NoFalseAlarm'
    BY <1>1, <2>1 DEF DataInv, ErrorInv, NoFalseAlarm
  <2> QED BY <2>4, <2>5, <2>6 DEF DataInv
<1> QED BY <1>2, <1>3

\* The broadcast.
LEMMA BcastKeepsData ==
    ASSUME ConstantsOK, SyncInv, DataInv, ~ aborted, NEW r \in Ranks, Bcast(r)
    PROVE  DataInv'
<1>0. /\ pc \in [Ranks -> Outside \cup InLoop] /\ 0 \in Ranks /\ n[0] \in Nat
      /\ n \in [Ranks -> Nat] /\ n[r] \in Nat /\ Appender \in Ranks /\ Truncater \in Ranks
  BY Roles DEF SyncInv
<1>1. pc[r] = "bcast" /\ UNCHANGED <<job, draw, file, done, error, bad, damaged, split>>
  BY DEF Bcast
<1>2. CASE error = 1
  <2>1. aborted' = TRUE /\ UNCHANGED <<pc, n>>
    BY <1>2 DEF Bcast
  <2>2. bad
    BY <1>2 DEF DataInv, ErrorInv
  <2> QED BY <1>1, <2>1, <2>2 DEF DataInv, DoneInv, FileInv, FreshInv, ErrorInv, NoFalseAlarm,
             WrongBytesNoticed, Racing, Past, Appender, Truncater, Appended, Sizes, Ranks, size, Shape,
             AppendTruncate, TruncateAppend
<1>3. CASE error # 1
  <2>1. /\ n' = [n EXCEPT ![r] = @ + 1] /\ Goto(r, "reset") /\ UNCHANGED aborted
        /\ (r # 0 => sent > n[r])
    BY <1>3 DEF Bcast
  <2>2. pc' = [pc EXCEPT ![r] = "reset"] /\ pc'[r] = "reset" /\ \A q \in Ranks \ {r} : n'[q] = n[q]
    BY <1>0, <2>1 DEF Goto
  <2>3. CASE r # 0
    <3>1. n' \in [Ranks -> Nat] /\ n'[0] = n[0]
      BY <1>0, <2>1, <2>3, SMT
    <3>2. n[r] # n[0]
      BY <1>0, <2>1, <2>3, SMT DEF SyncInv, SentInv
    <3>3. ~ Past(r) /\ ~ Past(r)'
      BY <2>2, <3>2 DEF Past
    <3> QED BY <1>1, <2>1, <2>2, <2>3, <3>1, <3>3, QuietKeepsData
  <2>4. CASE r = 0
    <3>1. ~ Racing' /\ pc'[0] # "bcast" /\ Ranks' = Ranks
      BY <1>1, <2>2, <2>4 DEF Racing, InLoop, Ranks, size
    <3>2. \A q \in Ranks : pc[q] # "append"
      BY <1>1, <2>4, RacerMeetsRoot DEF Racing, InLoop
    <3>3. done = 0
      BY <1>0, <3>2 DEF DataInv, DoneInv
    <3>4. \A q \in Ranks : pc'[q] # "append"
      BY <1>0, <2>2, <3>2
    <3>5. DoneInv'
      BY <1>1, <3>1, <3>3, <3>4 DEF DoneInv
    <3>6. FileInv' /\ FreshInv' /\ WrongBytesNoticed'
      BY <3>1 DEF FileInv, FreshInv, WrongBytesNoticed
    <3>7. ErrorInv' /\ NoFalseAlarm'
      BY <1>1, <1>3, <2>1 DEF DataInv, ErrorInv, NoFalseAlarm
    <3> QED BY <3>5, <3>6, <3>7 DEF DataInv
  <2> QED BY <2>3, <2>4
<1> QED BY <1>2, <1>3

\* One write of the append.
LEMMA AppendKeepsData ==
    ASSUME ConstantsOK, SyncInv, DataInv, ~ aborted, NEW r \in Ranks, AppendWrite(r)
    PROVE  DataInv'
<1>0. /\ pc \in [Ranks -> Outside \cup InLoop] /\ 0 \in Ranks /\ n[0] \in Nat
      /\ n \in [Ranks -> Nat] /\ Appender \in Ranks /\ Truncater \in Ranks /\ Appender # Truncater
      /\ file \in Seq(Int) /\ done \in Nat
  BY Roles DEF SyncInv, TypeInv
<1>1. pc[r] = "append" /\ UNCHANGED <<job, n, draw, error, bad, damaged, split, aborted>>
  BY DEF AppendWrite
<1>2. n[r] = n[0] /\ Racing /\ pc[0] # "check"
  BY <1>1, RacerMeetsRoot
<1>3. r = Appender /\ r # Truncater /\ n[r] < nloops /\ \A q \in Ranks : pc[q] = "append" => q = Appender
  <2>1. \A q \in Ranks : pc[q] = "append" => q = n[q] % size /\ n[q] = n[0]
    BY RacerMeetsRoot DEF SyncInv, PosOK
  <2>2. \A q \in Ranks : pc[q] = "append" => q = Appender
    BY <2>1 DEF Appender
  <2>3. n[r] < nloops
    BY <1>1 DEF SyncInv, PosOK, InLoop
  <2> QED BY <1>0, <1>1, <2>2, <2>3
<1> DEFINE d == Sizes(0)
<1>4. /\ Sizes(r) = d /\ d.chunk \in Nat /\ d.append \in Nat /\ d.trunc \in Nat
      /\ d.append > 0 /\ d.chunk <= d.trunc /\ d.trunc - d.chunk \in Nat
  <2>1. n[0] < nloops /\ TypeInv
    BY <1>2, <1>3 DEF SyncInv
  <2>2. /\ d.chunk \in Nat /\ d.append \in Nat /\ d.trunc \in Nat
        /\ d.append > 0 /\ d.chunk <= d.trunc
    BY <1>0, <2>1, DrawSizes
  <2>3. Sizes(r) = d
    BY <1>2 DEF Sizes
  <2> QED BY <2>2, <2>3, SMT
<1>5. done < d.append /\ (~ job.short => done = 0)
  BY <1>1, <1>4 DEF DataInv, DoneInv
<1> DEFINE Write(k) == /\ file' = file \o Rep(APPEND_CHAR, k)
                       /\ IF done + k = d.append THEN done' = 0 /\ Goto(r, "to_end")
                                                 ELSE done' = done + k /\ UNCHANGED pc
<1>6. PICK k \in Nat : Write(k) /\ done + k <= d.append /\ (~ job.short => done + k = d.append)
  <2>1. PICK k \in IF job.short THEN 1 .. d.append - done ELSE {d.append} : Write(k)
    BY <1>4 DEF AppendWrite
  <2> HIDE DEF Write, d
  <2>2. k \in Nat /\ done + k <= d.append /\ (~ job.short => done + k = d.append)
    <3>1. CASE job.short
      <4>1. k \in 1 .. d.append - done
        BY <2>1, <3>1
      <4>2. k \in Nat /\ done + k <= d.append
        BY <1>0, <1>4, <4>1, SMT
      <4> QED BY <3>1, <4>2
    <3>2. CASE ~ job.short
      <4>1. k = d.append /\ done = 0
        BY <1>5, <2>1, <3>2
      <4> QED BY <1>4, <4>1, SMT
    <3> QED BY <3>1, <3>2
  <2> QED BY <2>1, <2>2
<1>7. /\ Sizes(0)' = d /\ Appender' = Appender /\ Truncater' = Truncater /\ Ranks' = Ranks
      /\ \A q \in Ranks : draw'[n'[q]] = draw[n[q]]
  BY <1>1 DEF Sizes, Appender, Truncater, Ranks, size
<1>8. /\ \A q \in Ranks \ {r} : pc'[q] = pc[q]
      /\ done + k = d.append => pc'[r] = "to_end" /\ done' = 0
      /\ done + k # d.append => pc'[r] = "append" /\ done' = done + k
  BY <1>0, <1>1, <1>6 DEF Goto
<1>9. ~ Past(Appender) /\ Appended = done
  BY <1>1, <1>3 DEF Past, Appended
<1>10. Appended' = done + k
  <2>1. CASE done + k = d.append
    BY <1>1, <1>2, <1>3, <1>7, <1>8, <2>1 DEF Past, Appended
  <2>2. CASE done + k # d.append
    BY <1>3, <1>7, <1>8, <2>2 DEF Past, Appended
  <2> QED BY <2>1, <2>2
<1>11. Past(Truncater)' <=> Past(Truncater)
  BY <1>0, <1>1, <1>3, <1>7, <1>8 DEF Past
<1>12. ASSUME NEW z \in Nat, Shape(file, d.chunk, z, done)
       PROVE  Shape(file', d.chunk, z, done + k)
  BY <1>0, <1>4, <1>6, <1>12, ShapeOfAppend
<1> HIDE DEF Write, d
<1>13. FileInv'
  <2> SUFFICES ASSUME ~ damaged, ~ split
               PROVE  IF Past(Truncater)
                      THEN \/ Shape(file', d.chunk, d.trunc - d.chunk, done + k)
                           \/ done + k = d.append /\ Shape(file', d.chunk, 0, d.trunc - d.chunk)
                      ELSE Shape(file', d.chunk, 0, done + k)
    BY <1>1, <1>7, <1>10, <1>11 DEF FileInv, Shape
  <2>1. IF Past(Truncater)
        THEN \/ Shape(file, d.chunk, d.trunc - d.chunk, done)
             \/ done = d.append /\ Shape(file, d.chunk, 0, d.trunc - d.chunk)
        ELSE Shape(file, d.chunk, 0, done)
    BY <1>2, <1>9 DEF DataInv, FileInv, d
  <2>2. done # d.append
    BY <1>0, <1>4, <1>5, SMT
  <2>3. 0 \in Nat
    OBVIOUS
  <2> QED BY <1>4, <1>12, <2>1, <2>2, <2>3
<1>14. DoneInv'
  <2>1. CASE done + k = d.append
    <3>1. \A q \in Ranks : pc'[q] # "append"
      BY <1>3, <1>8, <2>1
    <3> QED BY <1>7, <1>8, <2>1, <3>1 DEF DoneInv
  <2>2. CASE done + k # d.append
    <3>1. pc'[Appender] = "append" /\ done' < d.append /\ job.short
      BY <1>0, <1>3, <1>4, <1>6, <1>8, <2>2, SMTT(30)
    <3>2. \A q \in Ranks : pc'[q] = "append" => q = Appender
      BY <1>3, <1>8
    <3>3. draw'[n'[Appender]] = d
      BY <1>0, <1>3, <1>4, <1>7 DEF Sizes
    <3> QED BY <1>1, <1>7, <3>1, <3>2, <3>3 DEF DoneInv, Sizes
  <2> QED BY <2>1, <2>2
<1>15. (Racing' <=> Racing) /\ pc'[0] # "bcast"
  BY <1>0, <1>1, <1>2, <1>8 DEF Racing, InLoop
<1>16. FreshInv' /\ WrongBytesNoticed' /\ NoFalseAlarm'
  BY <1>1, <1>11, <1>15 DEF DataInv, FreshInv, WrongBytesNoticed, NoFalseAlarm
<1>17. ErrorInv'
  BY <1>1, <1>2 DEF DataInv, ErrorInv, Racing
<1> QED BY <1>13, <1>14, <1>16, <1>17 DEF DataInv

\* The truncate.
LEMMA TruncateKeepsData ==
    ASSUME ConstantsOK, SyncInv, DataInv, ~ aborted, NEW r \in Ranks, Truncate(r)
    PROVE  DataInv'
<1>0. /\ pc \in [Ranks -> Outside \cup InLoop] /\ 0 \in Ranks /\ n[0] \in Nat
      /\ n \in [Ranks -> Nat] /\ Appender \in Ranks /\ Truncater \in Ranks /\ Appender # Truncater
      /\ file \in Seq(Int) /\ done \in Nat
  BY Roles DEF SyncInv, TypeInv
<1>1. /\ pc[r] = "truncate" /\ UNCHANGED <<job, n, draw, done, error, bad, damaged, aborted>>
      /\ pc' = [pc EXCEPT ![r] = "to_end"] /\ file' = TruncateTo(file, Sizes(r).trunc)
      /\ split' = (done > 0)
  BY DEF Truncate, Goto
<1>2. n[r] = n[0] /\ Racing /\ pc[0] # "check"
  BY <1>1, RacerMeetsRoot
<1>3. r = Truncater /\ r # Appender /\ n[r] < nloops
  <2>1. r = (n[r] + 1) % size /\ n[r] < nloops
    BY <1>1 DEF SyncInv, PosOK, InLoop
  <2> QED BY <1>0, <1>2, <2>1 DEF Truncater
<1> DEFINE d == Sizes(0)
<1>4. /\ Sizes(r) = d /\ d.chunk \in Nat /\ d.append \in Nat /\ d.trunc \in Nat
      /\ d.append > 0 /\ d.chunk <= d.trunc /\ d.trunc - d.chunk \in Nat
      /\ d.trunc <= d.chunk + d.append
  <2>1. n[0] < nloops /\ TypeInv
    BY <1>2, <1>3 DEF SyncInv
  <2>2. /\ d.chunk \in Nat /\ d.append \in Nat /\ d.trunc \in Nat
        /\ d.append > 0 /\ d.chunk <= d.trunc /\ d.trunc < d.chunk + d.append
    BY <1>0, <2>1, DrawSizes
  <2>3. Sizes(r) = d
    BY <1>2 DEF Sizes
  <2> QED BY <2>2, <2>3, SMT
<1>5. /\ Sizes(0)' = d /\ Appender' = Appender /\ Truncater' = Truncater /\ Ranks' = Ranks
      /\ \A q \in Ranks : draw'[n'[q]] = draw[n[q]]
  BY <1>1 DEF Sizes, Appender, Truncater, Ranks, size
<1>6. pc'[r] = "to_end" /\ \A q \in Ranks \ {r} : pc'[q] = pc[q]
  BY <1>0, <1>1
<1>7. Past(Truncater)' /\ ~ Past(Truncater) /\ (Past(Appender)' <=> Past(Appender))
  BY <1>0, <1>1, <1>2, <1>3, <1>5, <1>6 DEF Past
<1>8. Appended' = Appended
  BY <1>1, <1>5, <1>7 DEF Appended
<1>9. ~ bad /\ ~ split
  BY <1>2, <1>7 DEF DataInv, FreshInv
<1> HIDE DEF d
<1>10. FileInv'
  <2> SUFFICES ASSUME ~ damaged, ~ split'
               PROVE  \/ Shape(file', d.chunk, d.trunc - d.chunk, Appended)
                      \/ Appended = d.append /\ Shape(file', d.chunk, 0, d.trunc - d.chunk)
    BY <1>1, <1>5, <1>7, <1>8 DEF FileInv, Shape
  <2>1. done = 0
    <3>1. ~ (done > 0)
      BY <1>1
    <3> QED BY <1>0, <3>1, SMT
  <2>2. Shape(file, d.chunk, 0, Appended)
    BY <1>2, <1>7, <1>9 DEF DataInv, FileInv, d
  <2>3. CASE Past(Appender)
    <3>1. Appended = d.append
      BY <2>3 DEF Appended, d
    <3>2. Shape(file', d.chunk, 0, d.trunc - d.chunk)
      BY <1>0, <1>1, <1>4, <2>2, <3>1, ShapeOfCut
    <3> QED BY <3>1, <3>2
  <2>4. CASE ~ Past(Appender)
    <3>1. Appended = 0
      BY <2>1, <2>4 DEF Appended
    <3>2. Shape(file', d.chunk, d.trunc - d.chunk, 0)
      BY <1>0, <1>1, <1>4, <2>2, <3>1, ShapeOfHole
    <3> QED BY <3>1, <3>2
  <2> QED BY <2>3, <2>4
<1>11. \A q \in Ranks : pc'[q] = "append" <=> pc[q] = "append"
  BY <1>1, <1>6
<1>12. DoneInv'
  BY <1>0, <1>1, <1>5, <1>11 DEF DataInv, DoneInv, Sizes
<1>13. (Racing' <=> Racing) /\ pc'[0] # "bcast"
  BY <1>0, <1>1, <1>2, <1>6 DEF Racing, InLoop
<1>14. FreshInv' /\ WrongBytesNoticed' /\ NoFalseAlarm'
  BY <1>1, <1>7, <1>9, <1>13 DEF FreshInv, WrongBytesNoticed, NoFalseAlarm
<1>15. ErrorInv'
  BY <1>1, <1>2 DEF DataInv, ErrorInv, Racing
<1> QED BY <1>10, <1>12, <1>14, <1>15 DEF DataInv

\* The check.
LEMMA CheckKeepsData ==
    ASSUME ConstantsOK, SyncInv, DataInv, ~ aborted, NEW r \in Ranks, Check(r)
    PROVE  DataInv'
<1>0. /\ pc \in [Ranks -> Outside \cup InLoop] /\ 0 \in Ranks /\ n[0] \in Nat
      /\ n \in [Ranks -> Nat] /\ Appender \in Ranks /\ Truncater \in Ranks /\ Appender # Truncater
      /\ file \in Seq(Int) /\ read_buf \in Seq(Int) /\ Len(read_buf) >= BufSize
      /\ BufSize \in Nat
  BY Roles DEF SyncInv, TypeInv, ConstantsOK
<1>1. /\ pc[r] = "check" /\ UNCHANGED <<job, n, draw, file, done, damaged, split, aborted>>
      /\ pc' = [pc EXCEPT ![r] = "bcast"] /\ r = 0
      /\ read_buf' = file \o SubSeq(read_buf, Len(file) + 1, BufSize)
  BY DEF Check, Goto, SyncInv, PosOK
<1> DEFINE d == Sizes(0)
           c == d.chunk
           z == d.trunc - d.chunk
           a == d.append
           b == read_buf'
<1>2. n[0] < nloops
  BY <1>0, <1>1 DEF SyncInv, PosOK, InLoop
<1>3. /\ d.chunk \in Nat /\ d.append \in Nat /\ d.trunc \in Nat /\ d.append > 0 /\ d.chunk <= d.trunc
      /\ d.trunc < d.chunk + d.append /\ d.chunk + 2 * d.append <= BufSize
  BY <1>0, <1>2, DrawSizes DEF SyncInv
<1>4. b \in Seq(Int) /\ Len(b) >= BufSize /\ \A k \in 1 .. Len(file) : b[k] = file[k]
  BY <1>0, <1>1, BufferTyped
<1>5. PICK f \in Findings(d, b) : error' = f.error /\ bad' = f.bad
  BY <1>1 DEF Check
<1> HIDE DEF d, b
<1>6. c \in Nat /\ z \in Nat /\ a \in Nat /\ d.chunk = c /\ d.trunc = c + z /\ d.append = a /\ a > 0
      /\ c + z + a <= Len(b) /\ d.trunc - d.chunk = z
  <2>1. c \in Nat /\ z \in Nat /\ a \in Nat /\ a > 0
    BY <1>3, SMT
  <2>2. d.chunk = c /\ d.append = a /\ d.trunc - d.chunk = z
    OBVIOUS
  <2>3. d.trunc = c + z
    BY <1>3, SMT
  <2> HIDE DEF c, z, a
  <2>4. z < a /\ c + 2 * a <= BufSize
    BY <1>3, <2>1, <2>2, <2>3, SMT
  <2>5. Len(b) \in Nat /\ Len(b) >= BufSize
    BY <1>4, SMT
  <2>6. c + z + a <= Len(b)
    BY ONLY <1>0, <2>1, <2>4, <2>5, SMT
  <2> QED BY <2>1, <2>2, <2>3, <2>6
<1> HIDE DEF c, z, a
<1>7. Judged(f, c, z, a)
  BY <1>0, <1>4, <1>5, <1>6, VerdictOnFile
<1>8. Past(Appender) /\ Past(Truncater) /\ Racing
  BY <1>0, <1>1, CheckIsLast DEF Racing, InLoop
<1>9. ~ damaged /\ ~ split => Shape(file, c, 0, z) \/ Shape(file, c, z, a)
  <2>1. Appended = a
    BY <1>8 DEF Appended, a, d
  <2> QED BY <1>8, <2>1 DEF DataInv, FileInv, c, z, d
<1>10. NoFalseAlarm'
  <2>1. bad' => damaged \/ split
    BY <1>5, <1>7, <1>9 DEF Judged
  <2> QED BY <1>1, <2>1 DEF NoFalseAlarm
<1>11. pc'[0] = "bcast" /\ ~ Racing'
  BY <1>0, <1>1 DEF Racing, InLoop
<1>12. ErrorInv'
  BY <1>5, <1>7, <1>11 DEF ErrorInv, Judged
<1>13. FileInv' /\ FreshInv'
  BY <1>11 DEF FileInv, FreshInv
<1>14. DoneInv'
  <2>1. Appender' = Appender /\ Ranks' = Ranks /\ \A q \in Ranks : draw'[n'[q]] = draw[n[q]]
    BY <1>1 DEF Appender, Ranks, size
  <2>2. \A q \in Ranks : pc'[q] = "append" <=> pc[q] = "append"
    BY <1>0, <1>1
  <2> QED BY <1>0, <1>1, <2>1, <2>2 DEF DataInv, DoneInv, Sizes
<1>15. WrongBytesNoticed'
  <2>1. Sizes(0)' = d /\ file' = file
    BY <1>1 DEF Sizes, d
  <2>2. ASSUME Len(file) \in {d.trunc, d.trunc + d.append}, ~ bad'
        PROVE  file \in {AppendTruncate(d), TruncateAppend(d)}
    <3>1. ~ f.bad
      BY <1>5, <2>2
    <3>2. Len(file) = c + z \/ Len(file) = c + z + a
      BY <1>6, <2>2
    <3>3. Shape(file, c, 0, z) \/ Shape(file, c, z, a)
      BY <1>7, <3>1, <3>2 DEF Judged
    <3>4. AppendTruncate(d) = Rep(CHUNK_CHAR, c) \o Rep(APPEND_CHAR, z)
      BY DEF AppendTruncate, c, z
    <3>5. TruncateAppend(d) = HoleFile(c, z, a)
      BY DEF TruncateAppend, HoleFile, c, z, a
    <3>6. ASSUME Shape(file, c, 0, z) PROVE file = AppendTruncate(d)
      BY <1>0, <1>6, <3>4, <3>6, CutIsOrder
    <3>7. ASSUME Shape(file, c, z, a) PROVE file = TruncateAppend(d)
      BY <1>0, <1>6, <3>5, <3>7, HoleIsOrder, SMTT(30)
    <3> QED BY <3>3, <3>6, <3>7
  <2> QED BY <2>1, <2>2 DEF WrongBytesNoticed, AppendTruncate, TruncateAppend
<1> QED BY <1>10, <1>12, <1>13, <1>14, <1>15 DEF DataInv

-----------------------------------------------------------------------------
\* Nothing has happened when the job starts.
LEMMA InitInv ==
    ASSUME ConstantsOK, Init
    PROVE  IInv
<1>0. size \in Nat /\ size >= 2 /\ nloops \in Nat /\ nloops >= 1 /\ Ranks \subseteq Nat /\ 0 \in Ranks
  BY Numbers DEF Init
<1>1. TypeInv
  <2>1. read_buf \in Seq(Int) /\ Len(read_buf) >= BufSize
    <3>1. NUL \in Int /\ APPEND_CHAR \in Int /\ BufSize \in Nat
      BY SMT DEF NUL, APPEND_CHAR, ConstantsOK
    <3>2. /\ Rep(NUL, BufSize) \in Seq(Int) /\ Len(Rep(NUL, BufSize)) = BufSize
          /\ Rep(APPEND_CHAR, BufSize) \in Seq(Int) /\ Len(Rep(APPEND_CHAR, BufSize)) = BufSize
      BY <3>1, RepBytes
    <3> QED BY <3>1, <3>2, SMT DEF Init
  <2>2. file \in Seq(Int) /\ done \in Nat
    BY SMT DEF Init
  <2>3. pc \in [Ranks -> Outside \cup InLoop] /\ epoch \in [Ranks -> Nat] /\ n \in [Ranks -> 0 .. nloops]
    BY <1>0, SMT DEF Init, Outside
  <2> QED BY <2>1, <2>2, <2>3 DEF Init, TypeInv
<1>2. \A r \in Ranks : pc[r] = "to_prep" /\ epoch[r] = 0 /\ n[r] = 0
  BY DEF Init
<1>3. SyncInv
  <2>1. \A r \in Ranks : PosOK(r) /\ EpochOK(r)
    BY <1>2 DEF PosOK, EpochOK, InLoop
  <2>2. \A r \in Ranks : Left(r) = 0
    BY <1>2 DEF Left, InBarrier
  <2>3. BarrierInv
    BY <1>2, <2>2, SMT DEF BarrierInv
  <2>4. SentInv
    BY <1>0, <1>2, SMT DEF Init, SentInv
  <2> QED BY <1>1, <2>1, <2>3, <2>4 DEF SyncInv
<1>4. ~ Racing /\ pc[0] # "bcast"
  BY <1>0, <1>2 DEF Racing, InLoop
<1>5. DataInv
  <2>1. DoneInv /\ ErrorInv /\ NoFalseAlarm
    BY <1>2, SMT DEF Init, DoneInv, ErrorInv, NoFalseAlarm
  <2>2. FileInv /\ FreshInv /\ WrongBytesNoticed
    BY <1>4 DEF FileInv, FreshInv, WrongBytesNoticed
  <2> QED BY <2>1, <2>2 DEF DataInv
<1> QED BY <1>3, <1>5 DEF IInv

\* No step of a rank, no failing call and no damage breaks the invariant.
LEMMA NextInv ==
    ASSUME ConstantsOK, IInv, [Next]_vars
    PROVE  IInv'
<1>1. SyncInv'
  BY NextKeepsSync DEF IInv
<1>2. CASE UNCHANGED vars
  <2>1. UNCHANGED <<job, pc, n, draw, file, done, error, bad, damaged, split, aborted>>
    BY <1>2 DEF vars
  <2>2. DoneInv' /\ FreshInv' /\ ErrorInv' /\ NoFalseAlarm'
    BY <2>1 DEF IInv, DataInv, DoneInv, FreshInv, ErrorInv, NoFalseAlarm, Racing, Past, Appender,
                Truncater, Sizes, Ranks, size
  <2>3. FileInv'
    BY <2>1 DEF IInv, DataInv, FileInv, Racing, Past, Appender, Truncater, Appended, Sizes, size, Shape
  <2>4. WrongBytesNoticed'
    BY <2>1 DEF IInv, DataInv, WrongBytesNoticed, Sizes, AppendTruncate, TruncateAppend
  <2> QED BY <1>1, <2>2, <2>3, <2>4 DEF IInv, DataInv
<1>3. ASSUME NEW r \in Ranks, Step(r) PROVE DataInv'
  BY <1>3, BarrierKeepsData, ResetKeepsData, AppendKeepsData, TruncateKeepsData, CheckKeepsData,
     BcastKeepsData, FinishKeepsData DEF IInv, Step
<1>4. ASSUME NEW r \in Ranks, ~ aborted, CallFails(r) PROVE DataInv'
  BY <1>4 DEF IInv, CallFails, DataInv, DoneInv, FileInv, FreshInv, ErrorInv, NoFalseAlarm,
     WrongBytesNoticed, Racing, Past, Appender, Truncater, Appended, Sizes, Ranks, size, Shape,
     AppendTruncate, TruncateAppend
<1>5. ASSUME ~ aborted, FsDamages PROVE DataInv'
  <2>1. /\ pc[0] = "check" /\ damaged' = TRUE
        /\ UNCHANGED <<job, pc, n, draw, done, error, bad, split, aborted>>
    BY <1>5 DEF FsDamages
  <2> QED BY <2>1 DEF IInv, DataInv, DoneInv, FileInv, FreshInv, ErrorInv, NoFalseAlarm,
             WrongBytesNoticed, Racing, Past, Appender, Truncater, Sizes, Ranks, size
<1> QED BY <1>1, <1>2, <1>3, <1>4, <1>5 DEF IInv, Next, vars

\* Rank 0 never finds fault with a file that the file system kept right: in every job,
\* with any number of ranks and loops and all sizes that rand() may draw.
THEOREM AppendNoFalseAlarm == ConstantsOK => (Spec => []NoFalseAlarm)
<1> SUFFICES ASSUME ConstantsOK PROVE Spec => []NoFalseAlarm
  OBVIOUS
<1>1. Init => IInv
  BY InitInv
<1>2. IInv /\ [Next]_vars => IInv'
  BY NextInv
<1>3. IInv => NoFalseAlarm
  BY DEF IInv, DataInv
<1> QED BY <1>1, <1>2, <1>3, PTL DEF Spec

\* Rank 0 never passes over wrong bytes in a file of the right length.
THEOREM AppendLossIsNoticed == ConstantsOK => (Spec => []WrongBytesNoticed)
<1> SUFFICES ASSUME ConstantsOK PROVE Spec => []WrongBytesNoticed
  OBVIOUS
<1>1. Init => IInv
  BY InitInv
<1>2. IInv /\ [Next]_vars => IInv'
  BY NextInv
<1>3. IInv => WrongBytesNoticed
  BY DEF IInv, DataInv
<1> QED BY <1>1, <1>2, <1>3, PTL DEF Spec
===============================================================================
