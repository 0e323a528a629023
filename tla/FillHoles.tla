----------------------------- MODULE FillHoles ------------------------------
(***************************************************************************)
(* programs/fill_verify_holes/fill_holes.c: random (or replayed) writes to *)
(* a file of zeros, each one logged before it is made.  Files above 2 GiB  *)
(* are written one 2 GiB chunk after the other.                            *)
(*                                                                         *)
(* pwrite and mmap writes are modelled; the aio mode and the alignment of  *)
(* the direct I/O mode are not.  The model starts after the opens of main, *)
(* each of which ends the program when it fails.                           *)
(***************************************************************************)
EXTENDS WriteRecords

CONSTANTS TWO_GIGA_BYTE,   \* size of a chunk
          ShortWrites      \* TRUE: pwrite may write less than it is asked to

ConstantsOK ==
    /\ TWO_GIGA_BYTE \in Nat /\ TWO_GIGA_BYTE > 1
    /\ HeaderOK /\ ShortWrites \in BOOLEAN

VARIABLES size,                 \* the SIZE argument
          max_iter,             \* -i ITER
          replaying,            \* -r was given
          i,                    \* the loop counter of main
          cur_iter_per_chunk,
          cur_iter_offset,
          wu,                   \* the write unit
          replay,               \* what is left of the replay log
          log, file,
          pc,                   \* "loop", "log", "write", "done"
          ret,                  \* exit status
          asserted              \* an assert failed

args == <<size, max_iter, replaying>>
vars == <<args, i, cur_iter_per_chunk, cur_iter_offset, wu, replay, log, file, pc, ret, asserted>>

Bytes == 0 .. size - 1

\* main: file_size is rounded down to whole chunks once it exceeds one.
num_chunks == size \div TWO_GIGA_BYTE
rounded_size == IF size > TWO_GIGA_BYTE THEN num_chunks * TWO_GIGA_BYTE ELSE size

max_iter_per_chunk ==
    IF size > TWO_GIGA_BYTE THEN max_iter \div num_chunks ELSE 0

\* What a REPLAYLOG holds: the writes of an earlier run on a file of this size.
Units == {u \in [ch : Chars, off : Bytes, len : 1 .. size] : End(u) <= size}

Init ==
    /\ size \in Nat \ {0} /\ max_iter \in Nat
    /\ i = 0
    /\ cur_iter_per_chunk = 0
    /\ cur_iter_offset = 0
    /\ wu = [ch |-> NUL, off |-> 0, len |-> 0]
    /\ replaying \in BOOLEAN
    /\ replay \in Seq(Units) /\ (~ replaying => replay = <<>>)
    /\ log = <<>>
    /\ file = [b \in Bytes |-> NUL]
    /\ pc = "loop"
    /\ ret = 0
    /\ asserted = FALSE

Stop(rc) == pc' = "done" /\ ret' = rc

\* rand() % max, the least value being dropped by the retries.
fh_get_rand(max) == IF max = 0 THEN {0} ELSE 0 .. max - 1

\* The part of fh_prep_rand_write_unit that draws offset and length.
Draw(max_range, base) ==
    \E r \in fh_get_rand(max_range), l \in fh_get_rand(MAX_WRITE_SIZE), c \in Chars :
        LET off == r + base
            len == IF off + l > rounded_size THEN rounded_size - off ELSE l
        IN  /\ len # 0
            /\ wu' = [ch |-> c, off |-> off, len |-> len]
            /\ asserted' = (asserted \/ ~ (0 < len /\ len <= MAX_WRITE_SIZE))
            /\ IF asserted' THEN Stop(1) ELSE pc' = "log" /\ UNCHANGED ret

\* The counter is incremented before it is tested.
ChunkTurnEarly ==
    IF cur_iter_per_chunk + 1 = max_iter_per_chunk
    THEN /\ cur_iter_offset' = cur_iter_offset + TWO_GIGA_BYTE
         /\ cur_iter_per_chunk' = 0
    ELSE /\ cur_iter_per_chunk' = cur_iter_per_chunk + 1
         /\ UNCHANGED cur_iter_offset

ChunkTurn ==
    IF cur_iter_per_chunk = max_iter_per_chunk
    THEN /\ cur_iter_offset' = cur_iter_offset + TWO_GIGA_BYTE
         /\ cur_iter_per_chunk' = 0
    ELSE /\ cur_iter_per_chunk' = cur_iter_per_chunk + 1
         /\ UNCHANGED cur_iter_offset

fh_prep_rand_write_unit ==
    \/ /\ max_iter_per_chunk > 0
       /\ ChunkTurn
       /\ Draw(TWO_GIGA_BYTE - 1, cur_iter_offset')
    \/ /\ max_iter_per_chunk = 0 /\ rounded_size <= TWO_GIGA_BYTE
       /\ Draw(rounded_size - 1, cur_iter_offset)
       /\ UNCHANGED <<cur_iter_offset, cur_iter_per_chunk>>
    \/ /\ max_iter_per_chunk = 0 /\ rounded_size > TWO_GIGA_BYTE
       /\ asserted' = TRUE
       /\ Stop(1)
       /\ UNCHANGED <<cur_iter_offset, cur_iter_per_chunk, wu>>

\* The head of main's loop and fh_prep_write_unit.  fscanf's "\n" eats up to the
\* next record, so that feof is true after the last one; an empty replay log is
\* noticed by the fscanf that fails.
Prepare ==
    /\ pc = "loop" /\ i < max_iter
    /\ \/ ~ replaying /\ fh_prep_rand_write_unit /\ UNCHANGED replay
       \/ /\ replaying /\ (i = 0 \/ replay # <<>>)
          /\ IF replay = <<>>
             THEN Stop(1) /\ UNCHANGED <<wu, replay>>
             ELSE /\ wu' = Head(replay) /\ replay' = Tail(replay)
                  /\ pc' = "log" /\ UNCHANGED ret
          /\ UNCHANGED <<cur_iter_offset, cur_iter_per_chunk, asserted>>
    /\ UNCHANGED <<args, i, log, file>>

Finish ==
    /\ pc = "loop"
    /\ i = max_iter \/ (replaying /\ replay = <<>> /\ i > 0)
    /\ Stop(0)
    /\ UNCHANGED <<args, i, cur_iter_per_chunk, cur_iter_offset, wu, replay, log, file, asserted>>

\* A log that keeps the records in memory while the loop still runs.
LogOnceInAWhile ==
    /\ pc = "log"
    /\ log' = IF i = 0 THEN log ELSE Append(log, wu)
    /\ pc' = "write"
    /\ UNCHANGED <<args, i, cur_iter_per_chunk, cur_iter_offset, wu, replay, file, ret, asserted>>

fh_log_write ==
    /\ pc = "log"
    /\ log' = Append(log, wu)
    /\ pc' = "write"
    /\ UNCHANGED <<args, i, cur_iter_per_chunk, cur_iter_offset, wu, replay, file, ret, asserted>>

\* fh_do_write: pwrite fails, or writes n bytes.  Only -1 counts as a failure.
fh_do_write ==
    /\ pc = "write"
    /\ \/ UNCHANGED <<file, i>> /\ Stop(1)
       \/ /\ \E n \in 0 .. wu.len :
                 /\ n < wu.len => ShortWrites
                 /\ file' = ApplyWrite(file, [wu EXCEPT !.len = n])
          /\ i' = i + 1
          /\ pc' = "loop" /\ UNCHANGED ret
    /\ UNCHANGED <<args, cur_iter_per_chunk, cur_iter_offset, wu, replay, log, asserted>>

Step == Prepare \/ Finish \/ fh_log_write \/ fh_do_write

Done == pc = "done" /\ UNCHANGED vars

Next == Step \/ Done

Spec == Init /\ [][Next]_vars

-----------------------------------------------------------------------------
\* Every variable has its type; the chunk counter never passes its limit.
TypeOK ==
    /\ i \in 0 .. max_iter
    /\ cur_iter_per_chunk \in 0 .. max_iter_per_chunk
    /\ cur_iter_offset \in Nat
    /\ pc \in {"loop", "log", "write", "done"}
    /\ ret \in 0 .. 1
    /\ asserted \in BOOLEAN
    /\ DOMAIN file = Bytes

\* Before each pwrite the log says what the file is about to become, and after
\* it what it is (fh_log_write comes first): a fill_holes -f killed at any moment
\* leaves a log whose last record alone may be missing from the file, and one
\* that ends with 0 leaves a log verify_holes accepts.
FileFollowsLog ==
    LET done == IF pc = "write" THEN SubSeq(log, 1, Len(log) - 1) ELSE log
    IN  (pc # "done" \/ ret = 0) => file = LastWriterWins(Bytes, done)

\* However the iterations are shared out over the 2 GiB chunks, the last chunk is
\* never left: a random write lies inside the file and has an allowed length.
WritesStayInFile ==
    (pc \in {"log", "write"} /\ ~ replaying) =>
        wu.off >= 0 /\ End(wu) <= rounded_size /\ wu.len \in 1 .. MAX_WRITE_SIZE

\* Of the asserts of fh_prep_rand_write_unit only the one on the file size can
\* fail, and only when there are fewer iterations than chunks.
OnlySizeAssertFails == asserted => (max_iter < num_chunks /\ log = <<>>)

\* How fh_prep_rand_write_unit shares the writes out: the first chunk gets
\* max_iter_per_chunk of them and every later one max_iter_per_chunk + 1, since
\* the counter is tested before it is incremented.  The last chunks may get none.
ChunkSchedule ==
    (pc \in {"log", "write"} /\ ~ replaying /\ max_iter_per_chunk > 0) =>
        wu.off \div TWO_GIGA_BYTE = (i + 1) \div (max_iter_per_chunk + 1)
=============================================================================
