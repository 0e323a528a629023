------------------------- MODULE WriteAppendTruncate ------------------------
(***************************************************************************)
(* programs/write_append_truncate/write_append_truncate.c: in loop n rank  *)
(* 0 writes a chunk, then one rank appends to the file while another       *)
(* truncates it, and rank 0 checks that the file looks like one of the two *)
(* orders.  The file system is the system under test.                      *)
(*                                                                         *)
(* Bytes are their codes.  rand() is not seeded, so every rank draws the   *)
(* same sizes: they are a function of the loop, chosen in Init.            *)
(***************************************************************************)
EXTENDS MpiDlm, Sequences

CONSTANTS Jobs,      \* the jobs considered: [size, nloops, draws, short]
          BufSize    \* length of read_buf

\* size is MPI_Comm_size, nloops the second argument, draws the possible [chunk, append, trunc];
\* in a job with "short" the append may take several writes.
ConstantsOK ==
    /\ BufSize \in Nat
    /\ \A jb \in Jobs :
         /\ jb.size \in Nat /\ jb.size >= 2 /\ jb.nloops \in Nat \ {0}
         /\ \A d \in jb.draws : /\ d.chunk \in Nat \ {0} /\ d.append \in Nat \ {0}
                                /\ d.trunc \in d.chunk .. d.chunk + d.append - 1
                                /\ d.chunk + 2 * d.append <= BufSize

VARIABLES job,            \* the job
          pc, epoch, n,   \* per rank: place, barriers entered, loop
          draw,           \* draw[k]: the sizes of loop k
          file,           \* the file, a sequence of bytes
          done,           \* bytes the appending rank has written
          read_buf,       \* rank 0's buffer, kept from loop to loop
          error,          \* rank 0's error, what MPI_Bcast sends
          sent,           \* loops whose error has been broadcast
          bad,            \* rank 0 has printed a "bad" message in this loop
          damaged,        \* the file system has damaged the file in this loop
          split,          \* the truncate came between two writes of the append
          aborted

vars == <<job, pc, epoch, n, draw, file, done, read_buf, error, sent, bad, damaged, split, aborted>>

size == job.size
nloops == job.nloops
Ranks == 0 .. size - 1
NUL == 0
APPEND_CHAR == 65
CHUNK_CHAR == 67
Rep(c, k) == [j \in 1 .. k |-> c]

Init ==
    /\ job \in Jobs
    /\ pc = [r \in Ranks |-> "to_prep"]
    /\ epoch = [r \in Ranks |-> 0]
    /\ n = [r \in Ranks |-> 0]
    /\ draw \in [0 .. nloops - 1 -> job.draws]
    /\ file = <<>> /\ done = 0
    /\ read_buf \in {Rep(NUL, BufSize), Rep(APPEND_CHAR, BufSize)}   \* uninitialised
    /\ error = 0 /\ sent = 0 /\ bad = FALSE /\ damaged = FALSE /\ split = FALSE
    /\ aborted = FALSE

Goto(r, l) == pc' = [pc EXCEPT ![r] = l]
Sizes(r) == draw[n[r]]

\* After the prep barrier every rank opens the file that rank 0 has created.
PrepLeave(r) ==
    /\ pc[r] = "in_prep" /\ MayLeave(epoch, r)
    /\ Goto(r, "reset")
    /\ UNCHANGED <<job, epoch, n, draw, file, done, read_buf, error, sent, bad, damaged, split, aborted>>

\* The head of the loop: rank 0 truncates the file to 0 and writes the chunk.
\* The other ranks do not touch the file before the barrier.
Reset(r) ==
    /\ pc[r] = "reset"
    /\ IF n[r] = nloops THEN Goto(r, "finish") /\ UNCHANGED <<file, bad, damaged, split>>
       ELSE /\ Goto(r, "to_start")
            /\ IF r = 0 THEN /\ file' = Rep(CHUNK_CHAR, Sizes(r).chunk)
                             /\ bad' = FALSE /\ damaged' = FALSE /\ split' = FALSE
                        ELSE UNCHANGED <<file, bad, damaged, split>>
    /\ UNCHANGED <<job, epoch, n, draw, done, read_buf, error, sent, aborted>>

Enter(r, at, in) ==
    /\ pc[r] = at
    /\ epoch' = Arrive(epoch, r)
    /\ Goto(r, in)
    /\ UNCHANGED <<job, n, draw, file, done, read_buf, error, sent, bad, damaged, split, aborted>>

StartLeave(r) ==
    /\ pc[r] = "in_start" /\ MayLeave(epoch, r)
    /\ Goto(r, IF r = n[r] % size THEN "append" ELSE IF r = (n[r] + 1) % size THEN "truncate"
               ELSE "to_end")
    /\ UNCHANGED <<job, epoch, n, draw, file, done, read_buf, error, sent, bad, damaged, split, aborted>>

\* One write of the append loop, with O_APPEND.
AppendWrite(r) ==
    /\ pc[r] = "append"
    /\ \E k \in IF job.short THEN 1 .. Sizes(r).append - done ELSE {Sizes(r).append} :
          /\ file' = file \o Rep(APPEND_CHAR, k)
          /\ IF done + k = Sizes(r).append THEN done' = 0 /\ Goto(r, "to_end")
                                           ELSE done' = done + k /\ UNCHANGED pc
    /\ UNCHANGED <<job, epoch, n, draw, read_buf, error, sent, bad, damaged, split, aborted>>

TruncateTo(f, len) == IF len <= Len(f) THEN SubSeq(f, 1, len)
                                       ELSE f \o Rep(NUL, len - Len(f))

Truncate(r) ==
    /\ pc[r] = "truncate"
    /\ file' = TruncateTo(file, Sizes(r).trunc)
    /\ split' = (done > 0)
    /\ Goto(r, "to_end")
    /\ UNCHANGED <<job, epoch, n, draw, done, read_buf, error, sent, bad, damaged, aborted>>

\* A file system that does not do what it should: one byte is wrong, or the end
\* of the file is lost.
FsDamages ==
    /\ pc[0] = "check" /\ ~ damaged /\ file # <<>>
    /\ \/ \E k \in DOMAIN file, b \in {NUL, 66} : file[k] # b /\ file' = [file EXCEPT ![k] = b]
       \/ file' = SubSeq(file, 1, Len(file) - 1)
    /\ damaged' = TRUE
    /\ UNCHANGED <<job, pc, epoch, n, draw, done, read_buf, error, sent, bad, split, aborted>>

EndLeave(r) ==
    /\ pc[r] = "in_end" /\ MayLeave(epoch, r)
    /\ Goto(r, IF r = 0 THEN "check" ELSE "bcast")
    /\ UNCHANGED <<job, epoch, n, draw, file, done, read_buf, error, sent, bad, damaged, split, aborted>>

\* What memcmp may return: 0, or for the first difference its sign or its value.
memcmp(buf, from, c, k) ==
    LET diff == {j \in from + 1 .. from + k : buf[j] # c}
        first == {j \in diff : \A m \in diff : j <= m}
    IN  IF diff = {} THEN {0}
        ELSE UNION {{buf[j] - c, IF buf[j] > c THEN 1 ELSE -1} : j \in first}

Differs(buf, from, c, k) == 0 \notin memcmp(buf, from, c, k)

\* The length of the appended part is taken for its end.
TailBadShort(d, buf) ==
    \/ Differs(buf, d.chunk, NUL, d.trunc - d.chunk)
    \/ Differs(buf, d.trunc, APPEND_CHAR, d.append - d.trunc)

\* Case 2, first truncate then append: a hole, then what was appended.
TailBad(d, buf) ==
    \/ Differs(buf, d.chunk, NUL, d.trunc - d.chunk)
    \/ Differs(buf, d.trunc, APPEND_CHAR, d.append)

\* The values error may have after the check, and whether a message was printed.
\* Case 1, first append then truncate, overwrites the error of the base chunk.
Findings(d, buf) ==
    LET chunkbad == Differs(buf, 0, CHUNK_CHAR, d.chunk)
    IN  IF Len(file) = d.trunc
        THEN {[error |-> e, bad |-> chunkbad \/ e # 0] :
                 e \in memcmp(buf, d.chunk, APPEND_CHAR, d.trunc - d.chunk)}
        ELSE {[error |-> IF chunkbad \/ TailBad(d, buf) THEN 1 ELSE 0,
               bad |-> chunkbad \/ TailBad(d, buf)]}

\* stat, the read loop and the comparisons.  What lies in read_buf beyond the end
\* of the file is left from earlier loops.
Check(r) ==
    /\ pc[r] = "check"
    /\ read_buf' = file \o SubSeq(read_buf, Len(file) + 1, BufSize)
    /\ \E f \in Findings(Sizes(r), read_buf') : error' = f.error /\ bad' = f.bad
    /\ Goto(r, "bcast")
    /\ UNCHANGED <<job, epoch, n, draw, file, done, sent, damaged, split, aborted>>

\* Rank 0 leaves its loop on an error, before it has told the others.
BcastSkipped(r) ==
    /\ pc[r] = "bcast"
    /\ IF r = 0 THEN sent' = (IF error = 1 THEN sent ELSE n[0] + 1)
                ELSE sent > n[r] /\ UNCHANGED sent
    /\ n' = [n EXCEPT ![r] = @ + 1]
    /\ Goto(r, IF error = 1 THEN "finish" ELSE "reset")
    /\ UNCHANGED <<job, epoch, draw, file, done, read_buf, error, bad, damaged, split, aborted>>

\* MPI_Bcast from rank 0, and the test of what was sent.
Bcast(r) ==
    /\ pc[r] = "bcast"
    /\ IF r = 0 THEN sent' = n[0] + 1 ELSE sent > n[r] /\ UNCHANGED sent
    /\ IF error = 1 THEN aborted' = TRUE /\ UNCHANGED <<pc, n>>
       ELSE /\ n' = [n EXCEPT ![r] = @ + 1]
            /\ Goto(r, "reset")
            /\ UNCHANGED aborted
    /\ UNCHANGED <<job, epoch, draw, file, done, read_buf, error, bad, damaged, split>>

\* The end: rank 0 removes the file.
Finish(r) ==
    /\ pc[r] = "finish"
    /\ file' = IF r = 0 THEN <<>> ELSE file
    /\ Goto(r, "end")
    /\ UNCHANGED <<job, epoch, n, draw, done, read_buf, error, sent, bad, damaged, split, aborted>>

\* A call fails: rprintf ends the job.
CallFails(r) ==
    /\ pc[r] # "end"
    /\ damaged' = TRUE /\ aborted' = TRUE
    /\ UNCHANGED <<job, pc, epoch, n, draw, file, done, read_buf, error, sent, bad, split>>

Step(r) ==
    /\ ~ aborted
    /\ \/ Enter(r, "to_prep", "in_prep") \/ PrepLeave(r)
       \/ Reset(r) \/ Enter(r, "to_start", "in_start") \/ StartLeave(r)
       \/ AppendWrite(r) \/ Truncate(r)
       \/ Enter(r, "to_end", "in_end") \/ EndLeave(r) \/ Check(r) \/ Bcast(r)
       \/ Finish(r)

Over == aborted \/ \A r \in Ranks : pc[r] = "end"

Next ==
    \/ \E r \in Ranks : Step(r) \/ (~ aborted /\ CallFails(r))
    \/ ~ aborted /\ FsDamages
    \/ Over /\ UNCHANGED vars

Spec == Init /\ [][Next]_vars

-----------------------------------------------------------------------------
\* Rank 0 finds fault with the file, or the job is aborted, only when the file
\* system or a call failed, or when the truncate came between two writes of one
\* append: the barriers keep the reset, the race and the check apart although the
\* parts of appender, truncater and checker move from rank to rank.
NoFalseAlarm == bad \/ aborted => damaged \/ split

AppendTruncate(d) == Rep(CHUNK_CHAR, d.chunk) \o Rep(APPEND_CHAR, d.trunc - d.chunk)
TruncateAppend(d) == Rep(CHUNK_CHAR, d.chunk) \o Rep(NUL, d.trunc - d.chunk)
                         \o Rep(APPEND_CHAR, d.append)

\* A file that has the length of one of the two orders, and not its bytes, is
\* always noticed: rank 0 prints a message whatever is left in its buffer.
WrongBytesNoticed ==
    LET d == Sizes(0)
    IN  (/\ pc[0] = "bcast"
         /\ Len(file) \in {d.trunc, d.trunc + d.append}
         /\ file \notin {AppendTruncate(d), TruncateAppend(d)}) => bad
=============================================================================
