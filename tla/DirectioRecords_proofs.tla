------------------------ MODULE DirectioRecords_proofs ------------------------
(***************************************************************************)
(* Proofs about DirectioTest for every number of children, of chunks and   *)
(* every mode: the file holds what the records say, and the verification   *)
(* raises no alarm without a cause.  They rest on the invariant of         *)
(* DirectioTest_proofs.                                                    *)
(***************************************************************************)
EXTENDS DirectioTest_proofs

\* Zenon is the prover of a leaf that names none.
USE Zenon

\* Two sequences put together.
LEMMA SeqConcat ==
    ASSUME NEW S, NEW s \in Seq(S), NEW t \in Seq(S)
    PROVE  /\ s \o t \in Seq(S) /\ Len(s \o t) = Len(s) + Len(t)
           /\ t = <<>> => s \o t = s
           /\ \A n \in 1 .. Len(s) + Len(t) :
                  (s \o t)[n] = IF n <= Len(s) THEN s[n] ELSE t[n - Len(s)]
BY SMT

\* A sequence is its length and its elements.
LEMMA SeqElements ==
    ASSUME NEW S, NEW s \in Seq(S)
    PROVE  /\ Len(s) \in Nat /\ DOMAIN s = 1 .. Len(s)
           /\ \A n \in 1 .. Len(s) : s[n] \in S
           /\ s # <<>> => Len(s) > 0
           /\ \A t \in Seq(S) : Len(s) = Len(t) /\ (\A n \in 1 .. Len(s) : s[n] = t[n]) => s = t
BY SMT

\* The records sent, whether or not they are with the listener.
Recs == log \o sock

\* By the records l, chunk i holds unit u: that of its last record, or o, what it
\* held at the start.
ShowsIn(l, i, o, u) ==
    \/ \E k \in 1 .. Len(l) : l[k] = u /\ u.no = i /\ Latest(l, k)
    \/ (\A k \in 1 .. Len(l) : l[k].no # i) /\ u = o

Shows(i, u) == ShowsIn(Recs, i, Original(2 * i), u)

\* The stamps of the records do not decrease, since the stamp is taken under
\* the semaphore.
StampInv ==
    /\ \A k \in 1 .. Len(Recs) : Recs[k].ts <= clock /\ \A m \in 1 .. k : Recs[m].ts <= Recs[k].ts
    /\ \A c \in Children : pc[c] \in {"head", "tail", "log"} => wu[c].ts = clock

\* Every chunk shows what the records say, but for the one a child is writing or
\* has written and not logged, and for those whose record was lost.
ShowInv ==
    AllWell /\ (phase = "run" \/ lost = {}) =>
        /\ \A i \in Chunks : \/ Shows(i, file[2 * i])
                             \/ file[2 * i] \in lost
                             \/ \E c \in Children : pc[c] \in {"tail", "log"} /\ wu[c].no = i
        /\ \A c \in Children : pc[c] = "log" => file[2 * wu[c].no] = wu[c]

\* A child that has been through log_write has left a record, and one of them
\* has when the verification starts.
SentInv ==
    /\ AllWell /\ lost = {} /\ Recs = <<>> =>
           \A c \in Children : j[c] = 0 /\ pc[c] \in {"p", "head", "tail", "log"}
    /\ phase # "run" => \E c \in Children : pc[c] \in {"sysrq", "exited"}

\* Which records are still on their way.
SockInv ==
    /\ test_flags # "DSCV" => sock = <<>>
    /\ phase = "run" => v_k = 0 /\ v_i = 0 /\ wus = NoRecords(v_chunks)
    /\ phase # "run" => sock = <<>>

\* What the record loop has kept: the last record read of every chunk.
KeptInv ==
    \A i \in 0 .. v_chunks :
        \/ (\A k \in 1 .. v_k : log[k].no # i) /\ wus[i] = [ZeroUnit EXCEPT !.no = i]
        \/ \E k \in 1 .. v_k : /\ log[k].no = i /\ wus[i] = log[k]
                               /\ \A m \in k + 1 .. v_k : log[m].no # i

RInv == StampInv /\ ShowInv /\ SentInv /\ SockInv /\ KeptInv /\ NoFalseAlarm

\* The records are write units.
LEMMA RecsTyped ==
    ASSUME IInv
    PROVE  /\ log \in Seq(Units) /\ sock \in Seq(Units)
           /\ Recs \in Seq(Units) /\ Len(Recs) \in Nat
           /\ \A k \in 1 .. Len(Recs) : Recs[k] \in Units
<1>1. log \in Seq(Units) /\ sock \in Seq(Units) BY DEF IInv, TypeOK
<1>2. Recs \in Seq(Units) BY <1>1, SeqConcat DEF Recs
<1> QED BY <1>1, <1>2, SeqElements

\* What the file held at the start is decided by the mode.
LEMMA OriginalStays ==
    ASSUME UNCHANGED options
    PROVE  test_flags' = test_flags /\ \A h : Original(h)' = Original(h)
BY DEF options, Original

\* Before the first record, every chunk shows its original content.
LEMMA InitRecs == ASSUME ConstantsOK, Init PROVE RInv
<1> USE DEF Init
<1>0. num_chunks \in Nat BY DEF Init, Options
<1>1. Recs = <<>> /\ Len(Recs) = 0 /\ 1 .. Len(Recs) = {} BY SMT DEF Recs
<1>2. StampInv BY <1>1 DEF StampInv
<1>3. ShowInv
  <2>1. \A i \in Chunks : file[2 * i] = Original(2 * i) BY <1>0, HalvesApart
  <2> QED BY <1>1, <2>1 DEF ShowInv, Shows, ShowsIn
<1>4. SentInv BY DEF SentInv
<1>5. SockInv BY DEF SockInv
<1>6. KeptInv BY SMT DEF KeptInv, NoRecords
<1>7. NoFalseAlarm BY DEF NoFalseAlarm
<1> QED BY <1>2, <1>3, <1>4, <1>5, <1>6, <1>7 DEF RInv

\* Until the verification starts nothing is kept.
LEMMA NothingKept ==
    ASSUME SockInv, v_k = 0, wus = NoRecords(v_chunks) PROVE KeptInv
BY SMT DEF KeptInv, NoRecords

Writing == {"head", "tail", "log"}

\* A step of a child that makes no record: it neither starts nor ends a write,
\* or it ends it with a failure.
Quiet(c) ==
    /\ Frame(c) /\ pc[c] # "exited" /\ phase = "run"
    /\ UNCHANGED <<log, sock, lost, file, ret, wus, v_k, v_i, phase>>
    /\ ~ AllWell' \/ (pc[c] \notin Writing /\ pc'[c] # "tail" /\ pc'[c] # "log")
    /\ pc[c] = "p" /\ AllWell' => pc'[c] \in {"p", "head"} /\ j'[c] = j[c]

\* Such a step leaves the chunks showing what the records say.
LEMMA QuietStep ==
    ASSUME ConstantsOK, IInv, RInv, NEW c \in Children, Quiet(c), StampInv',
           UNCHANGED options
    PROVE  RInv'
<1> USE DEF Quiet
<1>z. /\ num_chunks' = num_chunks /\ v_chunks' = v_chunks /\ test_flags' = test_flags
      /\ Chunks' = Chunks /\ Units' = Units /\ \A h : Original(h)' = Original(h)
  BY OptionsStay, OriginalStays
<1>w. AllWell' => AllWell BY WellBefore
<1>r. Recs' = Recs BY DEF Recs
<1>1. ShowInv'
  <2> SUFFICES ASSUME AllWell' PROVE
          /\ \A i \in Chunks : \/ Shows(i, file[2 * i])'
                               \/ (file[2 * i] \in lost)'
                               \/ \E d \in Children : pc'[d] \in {"tail", "log"} /\ wu'[d].no = i
          /\ \A d \in Children : pc'[d] = "log" => file[2 * wu'[d].no] = wu'[d]
    BY <1>z DEF ShowInv
  <2>1. /\ \A i \in Chunks : \/ Shows(i, file[2 * i]) \/ file[2 * i] \in lost
                            \/ \E d \in Children : pc[d] \in {"tail", "log"} /\ wu[d].no = i
        /\ \A d \in Children : pc[d] = "log" => file[2 * wu[d].no] = wu[d]
    BY <1>w DEF RInv, ShowInv
  <2>2. \A i : Shows(i, file[2 * i]) => Shows(i, file[2 * i])' BY <1>z, <1>r DEF Shows
  <2>3. \A d \in Children : pc[d] \in {"tail", "log"} => d # c BY DEF Writing
  <2>4. \A d \in Children : d # c => pc'[d] = pc[d] /\ wu'[d] = wu[d] BY DEF Frame
  <2>5. \A i \in Chunks : \/ Shows(i, file[2 * i])' \/ (file[2 * i] \in lost)'
                          \/ \E d \in Children : pc'[d] \in {"tail", "log"} /\ wu'[d].no = i
    BY <2>1, <2>2, <2>3, <2>4, SMT
  <2>6. pc'[c] # "log" OBVIOUS
  <2> QED BY <2>1, <2>4, <2>5, <2>6, SMT
<1>2. SentInv'
  <2>1. AllWell' /\ lost' = {} /\ Recs' = <<>> =>
            \A d \in Children : j'[d] = 0 /\ pc'[d] \in {"p", "head", "tail", "log"}
    BY <1>w, <1>r DEF RInv, SentInv, Frame, Writing
  <2> QED BY <2>1 DEF SentInv
<1>3. SockInv' BY <1>z DEF RInv, SockInv
<1>4. KeptInv' BY <1>z, SMT DEF RInv, KeptInv
<1>5. NoFalseAlarm' BY DEF NoFalseAlarm
<1> QED BY <1>1, <1>2, <1>3, <1>4, <1>5 DEF RInv

\* The stamps, when the clock does not move and no write starts.
LEMMA StampKept ==
    ASSUME RInv, NEW c \in Children, Frame(c), Recs' = Recs, clock' = clock,
           pc'[c] \in Writing => pc[c] \in Writing /\ wu'[c] = wu[c]
    PROVE  StampInv'
BY SMT DEF RInv, StampInv, Frame, Writing

\* semaphore_p: the new stamp is not smaller than the clock, and nobody else
\* holds a unit.
LEMMA PRecs ==
    ASSUME ConstantsOK, IInv, RInv, NEW c \in Children, P(c), phase = "run", UNCHANGED options PROVE RInv'
<1> USE DEF P, Goto, child, logs, parent, verifier
<1>z. /\ num_chunks' = num_chunks /\ v_chunks' = v_chunks /\ test_flags' = test_flags
      /\ Chunks' = Chunks /\ Units' = Units /\ \A h : Original(h)' = Original(h)
  BY OptionsStay, OriginalStays
<1>a. TypeOK /\ ChildOK(c) /\ (sem > 0 => sem = 1) BY AtChild
<1>f. Frame(c) BY <1>a DEF TypeOK, Frame
<1>r. Recs' = Recs BY DEF Recs
<1>1. StampInv'
  <2>1. PICK u \in Units : u.ts >= clock /\ wu' = [wu EXCEPT ![c] = u] /\ clock' = u.ts OBVIOUS
  <2>2. wu'[c].ts = clock' /\ u.ts \in Nat /\ clock \in Nat BY <1>a, <2>1, SMT DEF TypeOK, Units
  <2>3. \A d \in Children : pc[d] \notin Writing
    BY <1>a DEF IInv, MutexInv, ChildOK, Writing
  <2>4. \A d \in Children : pc'[d] \in Writing => wu'[d].ts = clock'
    BY <1>f, <2>2, <2>3 DEF Frame
  <2>s. \A k \in 1 .. Len(Recs) : Recs[k].ts <= clock BY DEF RInv, StampInv
  <2>t. \A r \in Units : r.ts \in Nat BY SMT DEF Units
  <2>5. \A k \in 1 .. Len(Recs) : Recs[k].ts \in Nat /\ Recs[k].ts <= clock
    BY <2>s, <2>t, RecsTyped
  <2>6. \A k \in 1 .. Len(Recs) : Recs[k].ts <= clock' BY <2>1, <2>2, <2>5, SMT
  <2>7. \A k \in 1 .. Len(Recs) : \A m \in 1 .. k : Recs[m].ts <= Recs[k].ts
    BY DEF RInv, StampInv
  <2> HIDE DEF P
  <2> QED BY <1>r, <2>4, <2>6, <2>7 DEF StampInv, Writing
<1>2. Quiet(c)
  <2>1. pc'[c] = "head" /\ j'[c] = j[c] BY <1>a DEF TypeOK
  <2> QED BY <1>f, <2>1 DEF Quiet, Writing
<1> QED BY <1>1, <1>2, QuietStep

\* The head of a chunk is written: the child is in the middle of that chunk.
LEMMA WriteHeadRecs ==
    ASSUME ConstantsOK, IInv, RInv, NEW c \in Children, WriteHead(c), phase = "run", UNCHANGED options PROVE RInv'
<1> USE DEF WriteHead, PutHalf, Goto, child, logs, parent, verifier
<1>z. /\ num_chunks' = num_chunks /\ v_chunks' = v_chunks /\ test_flags' = test_flags
      /\ Chunks' = Chunks /\ Units' = Units /\ \A h : Original(h)' = Original(h)
  BY OptionsStay, OriginalStays
<1>a. TypeOK /\ ChildOK(c) /\ num_chunks \in Nat BY AtChild
<1>f. Frame(c) BY <1>a DEF TypeOK, Frame
<1>r. Recs' = Recs BY DEF Recs
<1>p. pc'[c] = "tail" /\ wu'[c] = wu[c] BY <1>a DEF TypeOK
<1>1. StampInv' BY <1>f, <1>r, <1>p, StampKept DEF Writing
<1>2. ShowInv'
  <2> SUFFICES ASSUME AllWell' PROVE
          /\ \A i \in Chunks : \/ Shows(i, file[2 * i])'
                               \/ (file[2 * i] \in lost)'
                               \/ \E d \in Children : pc'[d] \in {"tail", "log"} /\ wu'[d].no = i
          /\ \A d \in Children : pc'[d] # "log"
    BY <1>z DEF ShowInv
  <2>1. \A d \in Children : d # c => pc[d] \notin Writing
    BY <1>a DEF IInv, MutexInv, ChildOK, Writing
  <2>2. \A d \in Children : pc'[d] # "log" /\ (pc[d] \notin {"tail", "log"})
    BY <1>f, <1>p, <2>1 DEF Frame, Writing
  <2>3. AllWell BY <1>f, WellBefore
  <2>4. ASSUME NEW i \in Chunks, wu[c].no # i PROVE Shows(i, file[2 * i])' \/ (file[2 * i] \in lost)'
    <3>1. Shows(i, file[2 * i]) \/ file[2 * i] \in lost BY <2>2, <2>3 DEF RInv, ShowInv
    <3>2. wu[c].no \in Chunks BY <1>a DEF ChildOK, Units
    <3>3. file'[2 * i] = file[2 * i] BY <1>a, <2>4, <3>2, HalvesApart DEF TypeOK
    <3>4. lost' = lost /\ Recs' = Recs /\ Original(2 * i)' = Original(2 * i) BY <1>z, <1>r
    <3> HIDE DEF WriteHead, PutHalf
    <3> QED BY <3>1, <3>3, <3>4 DEF Shows
  <2> QED BY <1>p, <2>2, <2>4
<1>3. SentInv'
  <2>1. AllWell' => AllWell BY <1>f, WellBefore
  <2> QED BY <1>f, <1>r, <1>p, <2>1 DEF RInv, SentInv, Frame
<1>4. SockInv' BY <1>z DEF RInv, SockInv
<1>5. KeptInv' BY <1>z, SMT DEF RInv, KeptInv
<1>6. NoFalseAlarm' BY DEF NoFalseAlarm
<1> QED BY <1>1, <1>2, <1>3, <1>4, <1>5, <1>6 DEF RInv

\* The tail of a chunk is written: the chunk holds the child's unit.
LEMMA WriteTailRecs ==
    ASSUME ConstantsOK, IInv, RInv, NEW c \in Children, WriteTail(c), phase = "run", UNCHANGED options PROVE RInv'
<1> USE DEF WriteTail, PutHalf, Goto, child, logs, parent, verifier
<1>z. /\ num_chunks' = num_chunks /\ v_chunks' = v_chunks /\ test_flags' = test_flags
      /\ Chunks' = Chunks /\ Units' = Units /\ \A h : Original(h)' = Original(h)
  BY OptionsStay, OriginalStays
<1>a. TypeOK /\ ChildOK(c) /\ num_chunks \in Nat BY AtChild
<1>f. Frame(c) BY <1>a DEF TypeOK, Frame
<1>r. Recs' = Recs BY DEF Recs
<1>p. pc'[c] = "log" /\ wu'[c] = wu[c] BY <1>a DEF TypeOK
<1>1. StampInv' BY <1>f, <1>r, <1>p, StampKept DEF Writing
<1>2. ShowInv'
  <2> SUFFICES ASSUME AllWell' PROVE
          /\ \A i \in Chunks : \/ Shows(i, file[2 * i])'
                               \/ (file[2 * i] \in lost)'
                               \/ \E d \in Children : pc'[d] \in {"tail", "log"} /\ wu'[d].no = i
          /\ \A d \in Children : pc'[d] = "log" => file'[2 * wu'[d].no] = wu'[d]
    BY <1>z DEF ShowInv
  <2>1. \A d \in Children : d # c => pc[d] \notin Writing
    BY <1>a DEF IInv, MutexInv, ChildOK, Writing
  <2>3. AllWell BY <1>f, WellBefore
  <2>4. wu[c].no \in Chunks /\ file[2 * wu[c].no] = wu[c] BY <1>a DEF ChildOK, Units
  <2>5. \A i \in Chunks : file'[2 * i] = file[2 * i]
    BY <1>a, <2>4, HalvesApart DEF TypeOK
  <2>6. ASSUME NEW i \in Chunks, wu[c].no # i PROVE Shows(i, file[2 * i])' \/ (file[2 * i] \in lost)'
    <3>1. Shows(i, file[2 * i]) \/ file[2 * i] \in lost BY <2>1, <2>3, <2>6 DEF RInv, ShowInv, Writing
    <3>2. /\ file'[2 * i] = file[2 * i] /\ lost' = lost /\ Recs' = Recs
          /\ Original(2 * i)' = Original(2 * i)
      BY <1>z, <1>r, <2>5
    <3> HIDE DEF WriteTail, PutHalf
    <3> QED BY <3>1, <3>2 DEF Shows
  <2>7. \A d \in Children : pc'[d] = "log" => d = c BY <1>f, <2>1 DEF Frame, Writing
  <2>8. file'[2 * wu'[c].no] = wu'[c] BY <1>p, <2>4, <2>5
  <2> QED BY <1>p, <2>6, <2>7, <2>8
<1>3. SentInv'
  <2>1. AllWell' => AllWell BY <1>f, WellBefore
  <2> QED BY <1>f, <1>r, <1>p, <2>1 DEF RInv, SentInv, Frame
<1>4. SockInv' BY <1>z DEF RInv, SockInv
<1>5. KeptInv' BY <1>z, SMT DEF RInv, KeptInv
<1>6. NoFalseAlarm' BY DEF NoFalseAlarm
<1> QED BY <1>1, <1>2, <1>3, <1>4, <1>5, <1>6 DEF RInv

\* The other steps of a child make no record.
LEMMA QuietRecs ==
    ASSUME ConstantsOK, IInv, RInv, NEW c \in Children, phase = "run", UNCHANGED options,
           \/ IOFails(c) \/ V(c) \/ Continue(c) \/ ReadyToCrash(c) \/ CrashP(c)
           \/ SysrqDenied(c) \/ SysrqNoShell(c)
    PROVE  RInv'
<1> USE DEF Goto, Exit, NextChunk, child, logs, parent, verifier
<1>a. TypeOK /\ ChildOK(c) BY AtChild
<1>f. Frame(c) /\ pc[c] \notin {"p", "exited"} /\ pc'[c] \notin Writing
  BY <1>a, SMTT(30) DEF TypeOK, Frame, IOFails, V, Continue, ReadyToCrash, CrashP, SysrqDenied,
     SysrqNoShell, Writing
<1>u. UNCHANGED <<clock, log, sock, lost, file, ret, wus, v_k, v_i, phase>>
  BY DEF IOFails, V, Continue, ReadyToCrash, CrashP, SysrqDenied, SysrqNoShell
<1>w. pc[c] \in Writing => exit'[c] = 1
  BY <1>a DEF TypeOK, IOFails, V, Continue, ReadyToCrash, CrashP, SysrqDenied,
     SysrqNoShell, Writing
<1>q. Quiet(c) BY <1>f, <1>u, <1>w, SMT DEF Quiet, AllWell, Writing
<1>r. Recs' = Recs BY <1>u DEF Recs
<1> QED BY <1>f, <1>u, <1>r, <1>q, StampKept, QuietStep

\* A record at the end of the socket, or of the log when the socket is empty, is
\* the last of the records.
LEMMA AppendLast ==
    ASSUME NEW S, NEW s \in Seq(S), NEW t \in Seq(S), NEW u \in S
    PROVE  /\ s \o Append(t, u) = Append(s \o t, u)
           /\ t = <<>> => Append(s, u) \o t = Append(s \o t, u)
<1>1. s \o Append(t, u) = Append(s \o t, u) BY SMT
<1>2. t = <<>> => Append(s, u) \o t = Append(s \o t, u) BY SMT
<1> QED BY <1>1, <1>2

\* A record moves from the socket to the log.
LEMMA MoveHead ==
    ASSUME NEW S, NEW s \in Seq(S), NEW t \in Seq(S), t # <<>>
    PROVE  Append(s, Head(t)) \o Tail(t) = s \o t
BY SMTT(30)

\* A new record of another chunk leaves what chunk i shows.
LEMMA ShowsKept ==
    ASSUME NEW l \in Seq(Units), NEW u \in Units, NEW i, i # u.no, NEW o, NEW x,
           ShowsIn(l, i, o, x)
    PROVE  ShowsIn(Append(l, u), i, o, x)
<1> DEFINE l2 == Append(l, u)
<1>0. Len(l) \in Nat /\ Len(l2) = Len(l) + 1 /\ l2[Len(l) + 1] = u
      /\ \A k \in 1 .. Len(l) : l2[k] = l[k]
  BY SMT
<1> HIDE DEF l2
<1>4. \A k \in 1 .. Len(l2) : k \in 1 .. Len(l) \/ k = Len(l) + 1 BY <1>0, SMT
<1>5. CASE \E k \in 1 .. Len(l) : l[k] = x /\ x.no = i /\ Latest(l, k)
  <2>1. PICK k \in 1 .. Len(l) : l[k] = x /\ x.no = i /\ Latest(l, k) BY <1>5
  <2>2. k \in 1 .. Len(l2) /\ l2[k] = x BY <1>0, <2>1, SMT
  <2>3. \A m \in k + 1 .. Len(l2) : m \in k + 1 .. Len(l) \/ m = Len(l) + 1 BY <1>0, SMT
  <2>4. \A m \in k + 1 .. Len(l) : m \in 1 .. Len(l) BY <1>0, SMT
  <2>5. \A m \in k + 1 .. Len(l2) : l2[m].no # x.no
    BY <1>0, <2>1, <2>3, <2>4 DEF Latest
  <2>6. ShowsIn(l2, i, o, x) BY <2>1, <2>2, <2>5 DEF Latest, ShowsIn
  <2> QED BY <2>6 DEF l2
<1>6. CASE (\A k \in 1 .. Len(l) : l[k].no # i) /\ x = Original(2 * i)
  <2>1. ShowsIn(l2, i, o, x) BY <1>0, <1>4, <1>6 DEF ShowsIn
  <2> QED BY <2>1 DEF l2
<1> QED BY <1>5, <1>6, SMT DEF ShowsIn

\* The chunk of the new record shows it.
LEMMA LastShows ==
    ASSUME NEW l \in Seq(Units), NEW u \in Units, NEW o PROVE ShowsIn(Append(l, u), u.no, o, u)
<1> DEFINE l2 == Append(l, u)
<1>1. Len(l) \in Nat /\ Len(l2) = Len(l) + 1 /\ l2[Len(l) + 1] = u BY SMT
<1> HIDE DEF l2
<1>2. Len(l) + 1 \in 1 .. Len(l2) /\ Latest(l2, Len(l) + 1) BY <1>1, SMT DEF Latest
<1>3. ShowsIn(l2, u.no, o, u) BY <1>1, <1>2 DEF ShowsIn
<1> QED BY <1>3 DEF l2

\* log_write: the record is the last of its chunk, and the chunk holds its unit.
LEMMA log_writeRecs ==
    ASSUME ConstantsOK, IInv, RInv, NEW c \in Children, log_write(c), phase = "run", UNCHANGED options PROVE RInv'
<1> USE DEF log_write, Goto, child, logs, parent, verifier
<1>z. /\ num_chunks' = num_chunks /\ v_chunks' = v_chunks /\ test_flags' = test_flags
      /\ Chunks' = Chunks /\ Units' = Units /\ \A h : Original(h)' = Original(h)
  BY OptionsStay, OriginalStays
<1>a. TypeOK /\ ChildOK(c) /\ num_chunks \in Nat BY AtChild
<1>f. Frame(c) BY <1>a DEF TypeOK, Frame
<1>u. wu[c] \in Units BY <1>a DEF ChildOK
<1>s. log \in Seq(Units) /\ sock \in Seq(Units) /\ Recs \in Seq(Units) /\ Len(Recs) \in Nat
  BY RecsTyped
<1>r. Recs' = Append(Recs, wu[c])
  <2>0. /\ log \o Append(sock, wu[c]) = Append(log \o sock, wu[c])
        /\ sock = <<>> => Append(log, wu[c]) \o sock = Append(log \o sock, wu[c])
    BY <1>u, <1>s, AppendLast, SMTT(30)
  <2>1. CASE test_flags = "DSCV" BY <2>0, <2>1 DEF Recs
  <2>2. CASE test_flags # "DSCV"
    <3>1. sock = <<>> BY <2>2 DEF RInv, SockInv
    <3> QED BY <2>0, <2>2, <3>1 DEF Recs
  <2> QED BY <2>1, <2>2
<1>l. Len(Recs') = Len(Recs) + 1 /\ Recs'[Len(Recs) + 1] = wu[c]
      /\ \A k \in 1 .. Len(Recs) : Recs'[k] = Recs[k]
  BY <1>u, <1>s, <1>r, SMT
<1>p. pc'[c] = "v" BY <1>a DEF TypeOK
<1>o. \A d \in Children : d # c => pc[d] \notin Writing
  BY <1>a DEF IInv, MutexInv, ChildOK, Writing
<1>q. \A d \in Children : pc'[d] \notin Writing BY <1>f, <1>p, <1>o DEF Frame, Writing
<1>1. StampInv'
  <2>1. wu[c].ts = clock /\ clock' = clock /\ clock \in Nat
    BY <1>a, SMT DEF RInv, StampInv, TypeOK
  <2>2. \A k \in 1 .. Len(Recs) : Recs[k].ts <= clock /\ \A m \in 1 .. k : Recs[m].ts <= Recs[k].ts
    BY DEF RInv, StampInv
  <2>3. ASSUME NEW k \in 1 .. Len(Recs')
        PROVE  Recs'[k].ts <= clock /\ \A m \in 1 .. k : Recs'[m].ts <= Recs'[k].ts
    <3>1. CASE k \in 1 .. Len(Recs)
      <4>1. \A m \in 1 .. k : m \in 1 .. Len(Recs) BY <1>s, <3>1, SMT
      <4> QED BY <1>l, <2>2, <3>1, <4>1
    <3>2. CASE k = Len(Recs) + 1
      <4>1. \A m \in 1 .. k : m \in 1 .. Len(Recs) \/ m = k BY <1>s, <3>2, SMT
      <4> QED BY <1>l, <2>1, <2>2, <3>2, <4>1, SMTT(30)
    <3> QED BY <1>s, <1>l, <3>1, <3>2, SMT
  <2> QED BY <1>q, <2>1, <2>3 DEF StampInv, Writing
<1>2. ShowInv'
  <2> SUFFICES ASSUME AllWell', NEW i \in Chunks
               PROVE  Shows(i, file[2 * i])' \/ (file[2 * i] \in lost)'
    BY <1>z, <1>q DEF ShowInv, Writing
  <2>1. AllWell BY <1>f, WellBefore
  <2>2. CASE i = wu[c].no
    <3>1. file[2 * i] = wu[c] BY <2>1, <2>2 DEF RInv, ShowInv
    <3>2. ShowsIn(Append(Recs, wu[c]), wu[c].no, Original(2 * i), wu[c]) BY <1>u, <1>s, LastShows
    <3> QED BY <1>z, <1>r, <2>2, <3>1, <3>2 DEF Shows
  <2>3. CASE i # wu[c].no
    <3>1. Shows(i, file[2 * i]) \/ file[2 * i] \in lost BY <1>o, <2>1, <2>3 DEF RInv, ShowInv, Writing
    <3>2. Shows(i, file[2 * i]) => ShowsIn(Append(Recs, wu[c]), i, Original(2 * i), file[2 * i])
      BY <1>u, <1>s, <2>3, ShowsKept DEF Shows
    <3> QED BY <1>z, <1>r, <3>1, <3>2 DEF Shows
  <2> QED BY <2>2, <2>3
<1>3. SentInv'
  <2>1. Recs' # <<>> BY <1>s, <1>l, SMT
  <2> QED BY <2>1 DEF SentInv
<1>4. SockInv' BY <1>z DEF RInv, SockInv
<1>5. KeptInv' BY <1>z, <1>4, NothingKept, SMT DEF RInv, SockInv, KeptInv, NoRecords
<1>6. NoFalseAlarm' BY DEF NoFalseAlarm
<1> QED BY <1>1, <1>2, <1>3, <1>4, <1>5, <1>6 DEF RInv

\* A record is lost: its chunk holds the lost unit.
LEMMA LogLostRecs ==
    ASSUME ConstantsOK, IInv, RInv, NEW c \in Children, LogLost(c), phase = "run", UNCHANGED options PROVE RInv'
<1> USE DEF LogLost, Goto, child, logs, parent, verifier
<1>z. /\ num_chunks' = num_chunks /\ v_chunks' = v_chunks /\ test_flags' = test_flags
      /\ Chunks' = Chunks /\ Units' = Units /\ \A h : Original(h)' = Original(h)
  BY OptionsStay, OriginalStays
<1>a. TypeOK /\ ChildOK(c) BY AtChild
<1>f. Frame(c) BY <1>a DEF TypeOK, Frame
<1>r. Recs' = Recs BY DEF Recs
<1>p. pc'[c] = "v" BY <1>a DEF TypeOK
<1>o. \A d \in Children : d # c => pc[d] \notin Writing
  BY <1>a DEF IInv, MutexInv, ChildOK, Writing
<1>q. \A d \in Children : pc'[d] \notin Writing BY <1>f, <1>p, <1>o DEF Frame, Writing
<1>1. StampInv' BY <1>f, <1>r, <1>p, StampKept DEF Writing
<1>2. ShowInv'
  <2> SUFFICES ASSUME AllWell', NEW i \in Chunks
               PROVE  Shows(i, file[2 * i])' \/ (file[2 * i] \in lost)'
    BY <1>z, <1>q DEF ShowInv, Writing
  <2>1. AllWell BY <1>f, WellBefore
  <2>2. CASE i = wu[c].no
    BY <2>1, <2>2 DEF RInv, ShowInv
  <2>3. CASE i # wu[c].no
    <3>1. Shows(i, file[2 * i]) \/ file[2 * i] \in lost BY <1>o, <2>1, <2>3 DEF RInv, ShowInv, Writing
    <3> QED BY <1>z, <1>r, <3>1 DEF Shows
  <2> QED BY <2>2, <2>3
<1>3. SentInv' BY DEF SentInv
<1>4. SockInv' BY <1>z DEF RInv, SockInv
<1>5. KeptInv' BY <1>z, SMT DEF RInv, KeptInv
<1>6. NoFalseAlarm' BY DEF NoFalseAlarm
<1> QED BY <1>1, <1>2, <1>3, <1>4, <1>5, <1>6 DEF RInv

\* The reset: the records that the listener has are the first of those sent.
LEMMA SysrqRecs ==
    ASSUME ConstantsOK, IInv, RInv, NEW c \in Children, Sysrq(c), phase = "run", UNCHANGED options PROVE RInv'
<1> USE DEF Sysrq, child, logs, parent, verifier
<1>z. /\ num_chunks' = num_chunks /\ v_chunks' = v_chunks /\ test_flags' = test_flags
      /\ Chunks' = Chunks /\ Units' = Units /\ \A h : Original(h)' = Original(h)
  BY OptionsStay, OriginalStays
<1>s. log \in Seq(Units) /\ sock \in Seq(Units) /\ Recs \in Seq(Units)
      /\ Len(log) \in Nat /\ Len(sock) \in Nat
  BY RecsTyped, SMT
<1>r. Recs' = log /\ Len(Recs) = Len(log) + Len(sock)
      /\ \A k \in 1 .. Len(log) : k \in 1 .. Len(Recs) /\ Recs[k] = log[k]
  BY <1>s, SeqConcat, SMT DEF Recs
<1>l. lost' = {} => Recs' = Recs /\ lost = {}
  <2>1. lost' = {} => sock = <<>>
    <3>1. sock # <<>> => Len(sock) \in Nat /\ Len(sock) > 0 /\ sock[1] \in {sock[k] : k \in DOMAIN sock}
      BY <1>s, SeqElements, SMT
    <3> QED BY <3>1
  <2>2. sock = <<>> => Recs = log BY <1>s, SeqConcat DEF Recs
  <2> QED BY <1>r, <2>1, <2>2 DEF RInv, SockInv
<1>1. StampInv'
  <2>1. \A k \in 1 .. Len(Recs) : Recs[k].ts <= clock /\ \A m \in 1 .. k : Recs[m].ts <= Recs[k].ts
    BY DEF RInv, StampInv
  <2>2. \A k \in 1 .. Len(log) : \A m \in 1 .. k : m \in 1 .. Len(log) BY <1>s, SMT
  <2>3. \A k \in 1 .. Len(log) : log[k].ts <= clock /\ \A m \in 1 .. k : log[m].ts <= log[k].ts
    BY <1>r, <2>1, <2>2
  <2> QED BY <1>r, <2>3 DEF RInv, StampInv
<1>2. ShowInv' BY <1>z, <1>l DEF RInv, ShowInv, Shows, AllWell
<1>3. SentInv' BY <1>l DEF RInv, SentInv, AllWell
<1>4. SockInv' BY DEF RInv, SockInv
<1>5. KeptInv' BY <1>z, SMT DEF RInv, KeptInv
<1>6. NoFalseAlarm' BY DEF NoFalseAlarm
<1> QED BY <1>1, <1>2, <1>3, <1>4, <1>5, <1>6 DEF RInv

\* A record reaches the listener.
LEMMA DeliverRecs == ASSUME ConstantsOK, IInv, RInv, Deliver PROVE RInv'
<1> USE DEF Deliver, child, logs, parent, verifier
<1>z. /\ num_chunks' = num_chunks /\ v_chunks' = v_chunks /\ test_flags' = test_flags
      /\ Chunks' = Chunks /\ Units' = Units /\ \A h : Original(h)' = Original(h)
  BY OptionsStay, OriginalStays
<1>s. log \in Seq(Units) /\ sock \in Seq(Units) BY RecsTyped
<1>r. Recs' = Recs
  <2>1. Append(log, Head(sock)) \o Tail(sock) = log \o sock BY <1>s, MoveHead
  <2> QED BY <2>1 DEF Recs
<1>1. StampInv' BY <1>r DEF RInv, StampInv
<1>2. ShowInv' BY <1>z, <1>r DEF RInv, ShowInv, Shows, AllWell
<1>3. SentInv' BY <1>r DEF RInv, SentInv, AllWell
<1>4. SockInv' BY <1>z DEF RInv, SockInv
<1>5. KeptInv' BY <1>z, SMT DEF RInv, SockInv, KeptInv, NoRecords
<1>6. NoFalseAlarm' BY DEF NoFalseAlarm
<1> QED BY <1>1, <1>2, <1>3, <1>4, <1>5, <1>6 DEF RInv

\* The parent's handler and its waitpid do not touch the records.
LEMMA ParentRecs ==
    ASSUME ConstantsOK, IInv, RInv, sigchld_handler \/ Waitpid PROVE RInv'
<1>u. UNCHANGED <<child, logs, wus, v_k, v_i, phase>> /\ phase = "run" /\ UNCHANGED options
  BY DEF sigchld_handler, Waitpid, verifier
<1>z. /\ num_chunks' = num_chunks /\ v_chunks' = v_chunks /\ test_flags' = test_flags
      /\ Chunks' = Chunks /\ Units' = Units /\ \A h : Original(h)' = Original(h)
  BY <1>u, OptionsStay, OriginalStays
<1> USE DEF child, logs
<1>r. Recs' = Recs BY <1>u DEF Recs
<1>1. StampInv' BY <1>u, <1>r DEF RInv, StampInv
<1>2. ShowInv' BY <1>z, <1>u, <1>r DEF RInv, ShowInv, Shows, AllWell
<1>3. SentInv' BY <1>u, <1>r DEF RInv, SentInv, AllWell
<1>4. SockInv' BY <1>z, <1>u DEF RInv, SockInv
<1>5. KeptInv' BY <1>z, <1>u, SMT DEF RInv, KeptInv
<1>6. NoFalseAlarm' BY <1>u DEF NoFalseAlarm
<1> QED BY <1>1, <1>2, <1>3, <1>4, <1>5, <1>6 DEF RInv

\* At the end of the parent every record reaches the listener.
LEMMA TeardownRecs == ASSUME ConstantsOK, IInv, RInv, Teardown PROVE RInv'
<1> USE DEF Teardown, child, logs, parent, verifier
<1>z. /\ num_chunks' = num_chunks /\ v_chunks' = v_chunks /\ test_flags' = test_flags
      /\ Chunks' = Chunks /\ Units' = Units /\ \A h : Original(h)' = Original(h)
  BY OptionsStay, OriginalStays
<1>s. log \in Seq(Units) /\ sock \in Seq(Units) /\ log \o sock \in Seq(Units)
  BY RecsTyped DEF Recs
<1>r. Recs' = Recs BY <1>s, SeqConcat, SMT DEF Recs
<1>1. StampInv' BY <1>r DEF RInv, StampInv
<1>2. ShowInv' BY <1>z, <1>r DEF RInv, ShowInv, Shows, AllWell
<1>3. SentInv'
  <2>1. \A c \in Children : pc[c] = "exited" BY DEF IInv, WaitInv, Children
  <2>2. \E c \in Children : pc'[c] \in {"sysrq", "exited"} BY <2>1, SMT DEF ConstantsOK, Children
  <2> QED BY <1>r, <2>2 DEF RInv, SentInv, AllWell
<1>4. SockInv' BY DEF RInv, SockInv
<1>5. KeptInv' BY <1>z, SMT DEF RInv, SockInv, KeptInv, NoRecords
<1>6. NoFalseAlarm' BY DEF NoFalseAlarm
<1> QED BY <1>1, <1>2, <1>3, <1>4, <1>5, <1>6 DEF RInv

\* A chunk filled from a unit gives that unit back.
LEMMA DumpOfFill == ASSUME NEW u \in Units PROVE dump_pattern(fill_chunk_pattern(u)) = u
BY DEF Units, dump_pattern, fill_chunk_pattern

\* A chunk that prep_orig_file_in_chunks filled has its number.
LEMMA OriginalNo ==
    ASSUME num_chunks \in Nat, NEW i \in Chunks
    PROVE  Original(2 * i) = ZeroUnit \/ Original(2 * i).no = i
<1>1. (2 * i) \div 2 = i BY SMT DEF Chunks
<1> QED BY <1>1 DEF Original, Prepared

\* After a run without failures and without lost records verify_file finds
\* every chunk right.
LEMMA SettledChunk ==
    ASSUME ConstantsOK, IInv, RInv, phase = "verify", AllWell, lost = {}, v_k = Len(log),
           NEW i \in Chunks, i <= v_chunks
    PROVE  ChunkOK(i, Pattern(i), wus)
<1>0. num_chunks \in Nat /\ v_chunks \in Nat /\ MaxTime \in Nat BY SMT DEF ConstantsOK, IInv, TypeOK, Options
<1>1. log \in Seq(Units) /\ Len(log) \in Nat /\ \A k \in 1 .. Len(log) : log[k] \in Units
  BY RecsTyped, SeqElements
<1>2. Recs = log BY <1>1, SeqConcat, SMT DEF RInv, SockInv, Recs
<1>3. \A c \in Children : pc[c] \notin {"tail", "log"} BY DEF IInv, StopInv
<1>4. file[2 * i + 1] = file[2 * i] BY <1>3 DEF IInv, WholeInv
<1>5. ShowsIn(log, i, Original(2 * i), file[2 * i]) BY <1>2, <1>3 DEF RInv, ShowInv, Shows
<1>f. file[2 * i] \in Units \cup {ZeroUnit} BY <1>0, HalvesApart DEF IInv, TypeOK
<1>6. i \in 0 .. v_chunks BY <1>0, SMT DEF Chunks
<1>7. \/ (\A k \in 1 .. Len(log) : log[k].no # i) /\ wus[i] = [ZeroUnit EXCEPT !.no = i]
      \/ \E k \in 1 .. Len(log) : /\ log[k].no = i /\ wus[i] = log[k]
                                  /\ \A m \in k + 1 .. Len(log) : log[m].no # i
  BY <1>6 DEF RInv, KeptInv
<1> DEFINE u == file[2 * i]
<1>8. CASE \E k \in 1 .. Len(log) : log[k] = u /\ u.no = i /\ Latest(log, k)
  <2>1. PICK k \in 1 .. Len(log) : log[k] = u /\ u.no = i /\ Latest(log, k) BY <1>8
  <2>2. PICK k2 \in 1 .. Len(log) : /\ log[k2].no = i /\ wus[i] = log[k2]
                                    /\ \A m \in k2 + 1 .. Len(log) : log[m].no # i
    BY <1>7, <2>1
  <2>3. k = k2
    <3>1. ~ (k < k2) BY <1>1, <2>1, <2>2, SMT DEF Latest
    <3>2. ~ (k2 < k) BY <1>1, <2>1, <2>2, SMT
    <3> QED BY <1>1, <3>1, <3>2, SMT
  <2>4. wus[i] = u /\ u \in Units /\ u.ts \in 1 .. MaxTime BY <1>1, <2>1, <2>2, <2>3 DEF Units
  <2>5. u # ZeroUnit /\ wus[i].ts # 0 BY <1>0, <2>4, SMT DEF ZeroUnit
  <2>6. Pattern(i) = fill_chunk_pattern(u)
    BY <1>4, <2>5 DEF Pattern, HalfPattern, fill_chunk_pattern
  <2>7. RecordedOK(Pattern(i), wus[i]) BY <2>4, <2>6, DumpOfFill DEF RecordedOK
  <2> QED BY <2>5, <2>7 DEF ChunkOK
<1>9. CASE (\A k \in 1 .. Len(log) : log[k].no # i) /\ u = Original(2 * i)
  <2>1. wus[i].ts = 0 BY <1>7, <1>9 DEF ZeroUnit
  <2>2. AbsentOK(i, Pattern(i))
    <3>1. CASE u = ZeroUnit
      BY <1>4, <3>1 DEF AbsentOK, Pattern, HalfPattern, HolePattern, dump_pattern
    <3>2. CASE u # ZeroUnit
      <4>2. u.no = i BY <1>0, <1>9, <3>2, OriginalNo
      <4>3. Pattern(i) = fill_chunk_pattern(u)
        BY <1>4, <3>2 DEF Pattern, HalfPattern, fill_chunk_pattern
      <4>4. u \in Units BY <1>f, <3>2
      <4> QED BY <4>2, <4>3, <4>4, DumpOfFill DEF AbsentOK
    <3> QED BY <3>1, <3>2
  <2> QED BY <2>1, <2>2 DEF ChunkOK
<1> QED BY <1>5, <1>8, <1>9 DEF ShowsIn

\* One record of the log: the stamps do not decrease, so the record is kept.
LEMMA RecordKept ==
    ASSUME ConstantsOK, IInv, RInv, phase = "verify", v_k < Len(log), v_k' = v_k + 1, log' = log, v_chunks' = v_chunks,
           ChunkNoAccepted(log[v_k + 1].no, v_chunks), wus' = KeepRecord(wus, log[v_k + 1])
    PROVE  KeptInv'
<1> DEFINE r == log[v_k + 1]
<1>0. num_chunks \in Nat /\ v_chunks \in Nat /\ MaxTime \in Nat BY SMT DEF ConstantsOK, IInv, TypeOK, Options
<1>1. log \in Seq(Units) /\ Len(log) \in Nat /\ \A k \in 1 .. Len(log) : log[k] \in Units
  BY RecsTyped, SeqElements
<1>2. Recs = log BY <1>1, SeqConcat, SMT DEF RInv, SockInv, Recs
<1>3. v_k \in Nat /\ v_k + 1 \in 1 .. Len(log) BY <1>1, SMTT(30) DEF IInv, TypeOK
<1>4. r \in Units BY <1>1, <1>3
<1>5. r.no \in 0 .. v_chunks /\ r.ts \in Nat BY <1>0, <1>4, SMT DEF Units, Chunks, ChunkNoAccepted
<1>6. DOMAIN wus = 0 .. v_chunks BY DEF IInv, TypeOK
<1>7. r.ts >= wus[r.no].ts
  <2>1. CASE wus[r.no] = [ZeroUnit EXCEPT !.no = r.no] BY <1>5, <2>1, SMT DEF ZeroUnit
  <2>2. CASE \E k \in 1 .. v_k : wus[r.no] = log[k]
    <3>1. PICK k \in 1 .. v_k : wus[r.no] = log[k] BY <2>2
    <3>2. k \in 1 .. v_k + 1 /\ k \in 1 .. Len(log) BY <1>1, <1>3, SMT
    <3>3. log[k].ts <= r.ts BY <1>2, <1>3, <3>2 DEF RInv, StampInv
    <3>4. log[k].ts \in Nat BY <1>0, <1>1, <3>2, SMT DEF Units
    <3> QED BY <1>5, <3>1, <3>3, <3>4
  <2> QED BY <1>5, <2>1, <2>2, SMT DEF RInv, KeptInv
<1>8. wus' = [wus EXCEPT ![r.no] = r] BY <1>7 DEF KeepRecord
<1>9. ASSUME NEW i \in 0 .. v_chunks
      PROVE  \/ (\A k \in 1 .. v_k + 1 : log[k].no # i) /\ wus'[i] = [ZeroUnit EXCEPT !.no = i]
             \/ \E k \in 1 .. v_k + 1 : /\ log[k].no = i /\ wus'[i] = log[k]
                                        /\ \A m \in k + 1 .. v_k + 1 : log[m].no # i
  <2>1. CASE i = r.no
    <3>1. wus'[i] = r BY <1>6, <1>8, <2>1
    <3>2. v_k + 1 \in 1 .. v_k + 1 /\ \A m \in (v_k + 1) + 1 .. v_k + 1 : FALSE BY <1>3, SMT
    <3> QED BY <2>1, <3>1, <3>2
  <2>2. CASE i # r.no
    <3>1. wus'[i] = wus[i] BY <1>6, <1>8, <2>2
    <3>2. \A k \in 1 .. v_k + 1 : k \in 1 .. v_k \/ k = v_k + 1 BY <1>3, SMT
    <3>3. CASE (\A k \in 1 .. v_k : log[k].no # i) /\ wus[i] = [ZeroUnit EXCEPT !.no = i]
      BY <2>2, <3>1, <3>2, <3>3
    <3>4. CASE \E k \in 1 .. v_k : /\ log[k].no = i /\ wus[i] = log[k]
                                   /\ \A m \in k + 1 .. v_k : log[m].no # i
      <4>1. PICK k \in 1 .. v_k : /\ log[k].no = i /\ wus[i] = log[k]
                                  /\ \A m \in k + 1 .. v_k : log[m].no # i
        BY <3>4
      <4>2. k \in 1 .. v_k + 1 BY <1>3, SMT
      <4>3. \A m \in k + 1 .. v_k + 1 : m \in k + 1 .. v_k \/ m = v_k + 1 BY <1>3, SMT
      <4>4. \A m \in k + 1 .. v_k + 1 : log[m].no # i BY <2>2, <4>1, <4>3
      <4> QED BY <3>1, <4>1, <4>2, <4>4
    <3> QED BY <3>3, <3>4 DEF RInv, KeptInv
  <2> QED BY <2>1, <2>2
<1> QED BY <1>9, SMT DEF KeptInv

\* verify_file: after the children's end it gives up only where something was
\* lost or had failed.
LEMMA VerifyRecs == ASSUME ConstantsOK, IInv, RInv, VerifyStep PROVE RInv'
<1> USE DEF VerifyStep, child, logs, parent
<1>z. /\ num_chunks' = num_chunks /\ v_chunks' = v_chunks /\ test_flags' = test_flags
      /\ Chunks' = Chunks /\ Units' = Units /\ \A h : Original(h)' = Original(h)
  BY OptionsStay, OriginalStays
<1>0. num_chunks \in Nat /\ v_chunks \in 0 .. num_chunks BY DEF IInv, TypeOK, Options
<1>r. Recs' = Recs BY DEF Recs
<1>p. phase = "verify" /\ phase' # "run"
  BY DEF ReadRecord, VerifyChunk, VerifyEnds
<1>1. StampInv' BY <1>r DEF RInv, StampInv
<1>2. ShowInv' BY <1>z, <1>r, <1>p DEF RInv, ShowInv, Shows, AllWell
<1>3. SentInv' BY <1>r, <1>p DEF RInv, SentInv, AllWell
<1>4. SockInv' BY <1>p DEF RInv, SockInv
<1>5. KeptInv'
  <2>1. CASE wus' = wus /\ v_k' = v_k BY <1>z, <2>1, SMT DEF RInv, KeptInv
  <2>2. CASE /\ v_k < Len(log) /\ v_k' = v_k + 1 /\ ChunkNoAccepted(log[v_k + 1].no, v_chunks)
             /\ wus' = KeepRecord(wus, log[v_k + 1])
    BY <1>z, <1>p, <2>2, RecordKept
  <2> QED BY <2>1, <2>2 DEF ReadRecord, VerifyChunk, VerifyEnds, ChunkDone
<1>6. NoFalseAlarm'
  <2> SUFFICES ASSUME phase' = "done", ret' # 0, v_chunks = num_chunks, lost = {}, AllWell
               PROVE  FALSE
    BY <1>z DEF NoFalseAlarm, AllWell
  <2>1. log # <<>>
    <3>1. ASSUME log = <<>> PROVE FALSE
      <4>0. log \in Seq(Units) /\ sock = <<>> BY <1>p DEF IInv, TypeOK, RInv, SockInv
      <4>s. Recs = log BY <4>0, SeqConcat, SMT DEF Recs
      <4>1. Recs = <<>> BY <3>1, <4>s
      <4>2. \A c \in Children : pc[c] \in {"p", "head", "tail", "log"} BY <4>1 DEF RInv, SentInv
      <4>3. \E c \in Children : pc[c] \in {"sysrq", "exited"} BY <1>p DEF RInv, SentInv
      <4> QED BY <4>2, <4>3
    <3> QED BY <3>1
  <2>2. log \in Seq(Units) /\ v_k \in Nat /\ Len(log) \in Nat /\ v_i \in Nat BY SMT DEF IInv, TypeOK
  <2>3. CASE v_k < Len(log) /\ ~ ChunkNoAccepted(log[v_k + 1].no, v_chunks)
    <3>1. v_k + 1 \in 1 .. Len(log) BY <2>2, <2>3, SMT
    <3>u. log[v_k + 1] \in Units BY <2>2, <3>1, SeqElements
    <3>2. log[v_k + 1].no \in Chunks BY <3>u DEF Units
    <3> QED BY <1>0, <2>3, <3>2, SMT DEF Chunks, ChunkNoAccepted
  <2>4. CASE v_k = Len(log) /\ v_i < v_chunks /\ ~ ChunkOK(v_i, Pattern(v_i), wus)
    <3>1. v_i \in Chunks /\ v_i <= v_chunks BY <1>0, <2>2, <2>4, SMT DEF Chunks
    <3> QED BY <1>p, <2>4, <3>1, SettledChunk
  <2> QED BY <1>p, <2>1, <2>3, <2>4 DEF ReadRecord, VerifyChunk, VerifyEnds
<1> QED BY <1>1, <1>2, <1>3, <1>4, <1>5, <1>6 DEF RInv

\* Every step keeps the records and the file in agreement.
LEMMA NextRecs == ASSUME ConstantsOK, IInv, RInv, [Next]_vars PROVE RInv'
<1>1. ASSUME NEW c \in Children, ChildStep(c) PROVE RInv'
  BY <1>1, PRecs, WriteHeadRecs, WriteTailRecs, log_writeRecs, LogLostRecs, QuietRecs, SysrqRecs, ZenonT(40) DEF ChildStep
<1>2. CASE UNCHANGED vars
  <2>z. /\ num_chunks' = num_chunks /\ v_chunks' = v_chunks /\ test_flags' = test_flags
        /\ Chunks' = Chunks /\ Units' = Units /\ \A h : Original(h)' = Original(h)
    BY <1>2, OptionsStay, OriginalStays DEF vars
  <2> QED BY <1>2, <2>z, SMT DEF vars, child, logs, parent, verifier, RInv, StampInv, ShowInv, SentInv, SockInv,
              KeptInv, NoFalseAlarm, AllWell, Shows, Recs
<1> QED BY <1>1, <1>2, DeliverRecs, ParentRecs, TeardownRecs, VerifyRecs
        DEF Next, ParentStep, Done

\* The records and the file agree in every reachable state.
LEMMA RecordsInductive == ASSUME ConstantsOK PROVE Spec => []RInv
BY InitRecs, NextRecs, Inductive, PTL DEF Spec

-----------------------------------------------------------------------------
\* Outside the protected section the records say what the file holds.
LEMMA Settled == ASSUME IInv, RInv PROVE FileMatchesRecords
<1> SUFFICES ASSUME sem = 1, phase = "run", AllWell
             PROVE  /\ \A i \in Chunks : file[2 * i] = file[2 * i + 1]
                    /\ \A k \in DOMAIN Recs : Latest(Recs, k) =>
                           file[2 * Recs[k].no] = Recs[k] \/ file[2 * Recs[k].no] \in lost
                    /\ \A i \in Chunks : (\A k \in DOMAIN Recs : Recs[k].no # i)
                           => file[2 * i] = Original(2 * i) \/ file[2 * i] \in lost
                    /\ \A k \in DOMAIN Recs : \A m \in 1 .. k :
                           Recs[m].no = Recs[k].no => Recs[m].ts <= Recs[k].ts
  BY DEF FileMatchesRecords, Recs
<1>1. \A c \in Children : pc[c] \notin Writing BY DEF IInv, MutexInv, ChildOK, Writing
<1>2. \A i \in Chunks : file[2 * i] = file[2 * i + 1] BY <1>1 DEF IInv, WholeInv, Writing
<1>3. /\ Recs \in Seq(Units) /\ Len(Recs) \in Nat /\ DOMAIN Recs = 1 .. Len(Recs)
      /\ \A k \in 1 .. Len(Recs) : Recs[k] \in Units
  BY RecsTyped, SeqElements
<1>4. \A i \in Chunks : ShowsIn(Recs, i, Original(2 * i), file[2 * i]) \/ file[2 * i] \in lost
  BY <1>1 DEF RInv, ShowInv, Shows, Writing
<1>5. ASSUME NEW k \in 1 .. Len(Recs), Latest(Recs, k), file[2 * Recs[k].no] \notin lost
      PROVE  file[2 * Recs[k].no] = Recs[k]
  <2> DEFINE i == Recs[k].no
  <2>1. i \in Chunks BY <1>3 DEF Units
  <2>2. PICK n \in 1 .. Len(Recs) : /\ Recs[n] = file[2 * i] /\ Recs[n].no = i
                                    /\ Latest(Recs, n)
    BY <1>4, <1>5, <2>1, SMT DEF ShowsIn
  <2>3. ~ (k < n) BY <1>3, <1>5, <2>2, SMT DEF Latest
  <2>4. ~ (n < k) BY <1>3, <1>5, <2>2, SMT DEF Latest
  <2>5. n = k BY <1>3, <2>3, <2>4, SMT
  <2> QED BY <2>2, <2>5
<1>6. \A i \in Chunks : (\A k \in 1 .. Len(Recs) : Recs[k].no # i)
          => file[2 * i] = Original(2 * i) \/ file[2 * i] \in lost
  BY <1>4 DEF ShowsIn
<1>7. \A k \in 1 .. Len(Recs) : \A m \in 1 .. k : Recs[m].ts <= Recs[k].ts
  BY DEF RInv, StampInv
<1> QED BY <1>2, <1>3, <1>5, <1>6, <1>7

\* Whenever no child is between semaphore_p and semaphore_v, the file is what the
\* records sent so far say it is, but for writes whose record was lost, and verify_file's record loop will keep the
\* right one of two records of a chunk: for every number of children and chunks
\* and every mode.
THEOREM RecordsMatchFile == ASSUME ConstantsOK PROVE Spec => []FileMatchesRecords
BY Settled, Inductive, RecordsInductive, PTL

\* The reset finds no chunk half written or written and not logged, and verify_file
\* reports a failure only after a child's call failed or when a record was lost, in
\* the reset or on its way to the log file.
THEOREM AlarmsAreReal == ASSUME ConstantsOK PROVE Spec => []AlarmMeansLoss
<1>1. IInv /\ RInv => AlarmMeansLoss BY NoHalfChunk DEF RInv, AlarmMeansLoss
<1> QED BY <1>1, Inductive, RecordsInductive, PTL
===============================================================================
