--------------------------- MODULE DirectioVerify ---------------------------
(***************************************************************************)
(* programs/directio_test/directio_utils.c: the layout of a chunk and      *)
(* verify_file, which compares the chunks of the work file with the log of *)
(* the writes.                                                             *)
(*                                                                         *)
(* A write unit is [no, ts, ch]: chunk number, time stamp and fill         *)
(* character.  A chunk is its seven parts in file order; the two fill      *)
(* parts are the first byte, the only one dump_pattern looks at, and the   *)
(* rest.                                                                   *)
(***************************************************************************)
EXTENDS Integers, Sequences, FiniteSets

NUL == "nul"

\* What an unwritten chunk reads as.
ZeroUnit == [no |-> 0, ts |-> 0, ch |-> NUL]

\* crc32_checksum over a run of one character: it tells characters apart.
crc32_checksum(ch) == <<"crc32", ch>>

fill_chunk_pattern(wu) ==
    [hno |-> wu.no, hts |-> wu.ts, hsum |-> crc32_checksum(wu.ch),
     first |-> wu.ch, rest |-> wu.ch,
     tsum |-> crc32_checksum(wu.ch), tts |-> wu.ts, tno |-> wu.no]

\* A hole: every byte is zero, the checksum fields included.
HolePattern ==
    [hno |-> 0, hts |-> 0, hsum |-> <<>>, first |-> NUL, rest |-> NUL,
     tsum |-> <<>>, tts |-> 0, tno |-> 0]

\* The fields at the head are overwritten by the ones at the tail.
dump_pattern(pattern) ==
    [no |-> pattern.tno, ts |-> pattern.tts, ch |-> pattern.first]

\* The test for chunks without a record: holes pass, and the checksum found
\* must be the one of the character found.
AbsentOK(i, pattern) ==
    LET wu == dump_pattern(pattern)
    IN  \/ wu.ts = 0
        \/ /\ wu.no = i
           /\ pattern.tsum = fill_chunk_pattern(wu).tsum

\* RecordedOK that compares the checksums only.
RecordedOKBySum(pattern, wu) ==
    crc32_checksum(dump_pattern(pattern).ch) = crc32_checksum(wu.ch)

\* The test for chunks with a record.  chunk_pattern is filled again from the
\* dumped unit before it is compared.
RecordedOK(pattern, wu) ==
    fill_chunk_pattern(dump_pattern(pattern)) = fill_chunk_pattern(wu)

\* The body of the verification loop for chunk i, wus being the records kept.
ChunkOK(i, pattern, wus) ==
    IF wus[i].ts = 0 THEN AbsentOK(i, pattern) ELSE RecordedOK(pattern, wus[i])

\* KeepRecord for clocks that never repeat a value.
KeepRecordStrict(wus, wu) ==
    IF wu.ts > wus[wu.no].ts THEN [wus EXCEPT ![wu.no] = wu] ELSE wus

\* The record loop: of two records of a chunk the later one in the log wins
\* unless its time stamp is smaller.
KeepRecord(wus, wu) ==
    IF wu.ts >= wus[wu.no].ts THEN [wus EXCEPT ![wu.no] = wu] ELSE wus

\* The range test on a chunk number read from the log.
ChunkNoAccepted(no, num_chunks) == ~ (no > num_chunks)

\* wus before the log is read.  Cell num_chunks is past the end of the array:
\* it stands for the heap word there, which the range test lets through.
NoRecords(num_chunks) == [i \in 0 .. num_chunks |-> [ZeroUnit EXCEPT !.no = i]]
=============================================================================
