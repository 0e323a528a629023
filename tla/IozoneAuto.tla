------------------------------ MODULE IozoneAuto ------------------------------
(***************************************************************************)
(* programs/iozone/.../iozone.c without -t: one process runs the list      *)
(* func[] of tests for every file size and every record size (auto_test,   *)
(* begin), verifies what it reads, and keeps the rates in a table that the *)
(* Excel report prints column by column (store_value, dump_excel).  The    *)
(* Linux build: HAVE_PREAD, no HAVE_PREADV.  Sizes are counted in units of *)
(* the smallest record; a rate is named by the test and the pass it is of. *)
(***************************************************************************)
EXTENDS Integers, Sequences, FiniteSets, SequencesExt

CONSTANTS Options,      \* the command lines of this instance, see OptionSet
          xover,        \* above this file size small records are skipped
          LARGE_REC,    \* the smallest record size above xover
          stride,       \* -j
          MAXBUFFERSIZE, cache_size,   \* of the buffers, and how much of them begin fills
          MAX_Y,        \* rows of report_array
          Faults,       \* see FaultKinds
          FaultBound    \* how many faults one program run meets

\* A short write, a short read, a record the file system loses, and one it
\* stores in place of another.
FaultKinds == {"write", "read", "lost", "misplaced"}

\* func[], the number of rates test_soutput says each test stores, and -i's
\* numbers for them.
func == <<"write", "read", "random", "reverse", "rewriterec", "stride", "fwrite", "fread", "mix",
          "pwrite", "pread">>
test_soutput == <<2, 2, 2, 1, 1, 1, 2, 2, 2, 2, 2>>
TestNames == {func[k] : k \in DOMAIN func}

\* include is empty without -i; s_range and r_range are the sizes given by -s
\* and -r; file and rec are the limits, of -n -g and of -y -q where they are
\* given and not overruled by -s and -r; flags are those of -y, -q and -z;
\* multiplier is that of -+x.
OptionSet ==
    [include : SUBSET TestNames, Eflag : BOOLEAN, mmapflag : BOOLEAN, RWONLYflag : BOOLEAN,
     diag_v : BOOLEAN, multi_buffer : BOOLEAN, noretest : BOOLEAN, no_unlink : BOOLEAN,
     s_range : Seq(Nat), r_range : Seq(Nat), file : Seq(Nat), rec : Seq(Nat),
     flags : SUBSET {"yflag", "qflag", "NOCROSSflag"}, multiplier : Nat \ {0, 1}]

\* The default record sizes begin a power of two below LARGE_REC.
ConstantsOK ==
    /\ xover \in Nat /\ LARGE_REC \in Nat \ {0} /\ stride \in Nat
    /\ MAXBUFFERSIZE \in Nat \ {0} /\ cache_size \in Nat /\ MAX_Y \in Nat
    /\ \A o \in Options :
          /\ o \in OptionSet /\ Len(o.file) = 2 /\ Len(o.rec) = 2
          /\ o.flags \cap {"yflag", "qflag"} = {} =>
                 \E k \in 1..LARGE_REC : LARGE_REC = o.rec[1] * 2 ^ k
          /\ \A r \in ToSet(o.rec \o o.r_range) : r <= MAXBUFFERSIZE
    /\ Faults \subseteq FaultKinds /\ FaultBound \in Nat

VARIABLES
    opt,                    \* the command line
    kilobytes64, reclen,    \* the sizes of this call of begin
    where,                  \* what main does: "size" "test" "open" "loop" "out", or why it ended
    test, j, i, at,         \* the test, its pass, the record counter, the file offset
    file, dummyfile,        \* the two files: whether they exist, and their units
    stripewrap,             \* how often the stride test has started over
    seen,                   \* the record numbers this pass has accessed
    buffers,                \* -m: what mbuffer and buffer point to, and what is filled
    report_array,           \* one row per call of begin
    faults

size  == <<kilobytes64, reclen>>
loop  == <<test, j, i, at, stripewrap, seen>>
vars  == <<opt, size, where, loop, file, dummyfile, buffers, report_array, faults>>

Ends == {"done", "mismatch", "no file", "short read", "interrupted", "bad sizes", "table full"}

Absent == [exists |-> FALSE, data |-> <<>>]
Empty  == [exists |-> TRUE, data |-> <<>>]

-----------------------------------------------------------------------------
(* The sizes. *)

\* l, l * multiplier, ... up to h.
Geometric(l, h, multiplier) ==
    SetToSortSeq({x \in l..h : \E k \in 0..h : x = l * multiplier ^ k}, <)

init_file_sizes(o) ==
    IF o.s_range # <<>> THEN o.s_range ELSE Geometric(o.file[1], o.file[2], o.multiplier)

init_record_sizes(o, min_r_size) ==
    IF o.r_range # <<>> THEN o.r_range ELSE Geometric(min_r_size, o.rec[2], o.multiplier)

min_file_size(o) == IF o.s_range # <<>> THEN o.s_range[1] ELSE o.file[1]
max_file_size(o) == IF o.s_range # <<>> THEN Last(o.s_range) ELSE o.file[2]
min_rec_size(o)  == IF o.r_range # <<>> THEN o.r_range[1] ELSE o.rec[1]

\* Above the crossover the small record sizes are thrown away.  One -s or one
\* -r, -y and -q switch it off; -z and several -s or -r move it to the largest file.
NoCross(o) == "NOCROSSflag" \in o.flags \/ Len(o.s_range) > 1 \/ Len(o.r_range) > 1
Crossover(o, kilosi) ==
    /\ Len(o.s_range) # 1 /\ Len(o.r_range) # 1 /\ o.flags \cap {"yflag", "qflag"} = {}
    /\ kilosi > IF NoCross(o) THEN max_file_size(o) ELSE xover

RecordSizes(o, kilosi) ==
    init_record_sizes(o, IF Crossover(o, kilosi) THEN LARGE_REC ELSE o.rec[1])

\* The first entry above s of a list, 0 when there is none.
get_next_file_size(list, s) ==
    LET above == SelectSeq(list, LAMBDA x : x > s)
    IN  IF above = <<>> THEN 0 ELSE above[1]

get_next_record_size(list, s) ==
    LET above == SelectSeq(list, LAMBDA x : x > s)
    IN  IF above = <<>> THEN 0 ELSE above[1]

numrecs64 == kilobytes64 \div reclen
Records == 0..(numrecs64 - 1)

-----------------------------------------------------------------------------
(* The table. *)

Zero == <<"zero", 0>>
Zeros(n) == [k \in 1..n |-> Zero]
Row(k, r, cells) == [kilos |-> k, rec |-> r, cells |-> cells]

\* current_y is the last row.
store_value(rows, cells) ==
    [rows EXCEPT ![Len(rows)].cells = @ \o cells]

\* current_y of the last row must stay below MAX_Y (a row has fewer columns than
\* MAX_X in every mode).
TableFull(rows) == Len(rows) - 1 >= MAX_Y

\* A mutant: a row too few.
DummyRowsLess(o, kilosi) ==
    LET n == Min({k \in 0..LARGE_REC : \/ LARGE_REC \div 2 ^ (k + 1) = o.rec[1]
                                       \/ o.rec[1] * 2 ^ k > kilosi * 1024})
    IN  [k \in 1..n |-> Row(kilosi, o.rec[1] * 2 ^ (k - 1), Zeros(20))]

\* The rows made up for the record sizes the crossover skips: count1 is halved
\* from LARGE_REC to the smallest size, mult doubled from it, whatever the
\* multiplier.
DummyRows(o, kilosi) ==
    LET n == Min({k \in 0..LARGE_REC : \/ LARGE_REC \div 2 ^ k = o.rec[1]
                                       \/ o.rec[1] * 2 ^ k > kilosi * 1024})
    IN  [k \in 1..n |-> Row(kilosi, o.rec[1] * 2 ^ (k - 1), Zeros(20))]

\* The columns dump_excel prints under the name of each test, pass by pass.
\* The first two columns are the sizes.
dump_excel(o) ==
    LET all == {<<"write", 1, 2>>, <<"write", 2, 3>>, <<"read", 1, 4>>, <<"read", 2, 5>>,
                <<"random", 1, 6>>, <<"random", 2, 7>>, <<"reverse", 1, 8>>,
                <<"rewriterec", 1, 9>>, <<"stride", 1, 10>>, <<"fwrite", 1, 11>>,
                <<"fwrite", 2, 12>>, <<"fread", 1, 13>>, <<"fread", 2, 14>>}
        extended == {<<"pwrite", 1, 15>>, <<"pwrite", 2, 16>>, <<"pread", 1, 17>>, <<"pread", 2, 18>>}
    IN  {c \in all \cup (IF o.Eflag THEN extended ELSE {}) : o.include = {} \/ c[1] \in o.include}

\* dump_report prints one line per run of rows with the same file size, under
\* a heading of all record sizes; the place of row y in its line:
dump_report_place(rows, y) ==
    Cardinality({z \in 1..y : \A x \in z..y : rows[x].kilos = rows[y].kilos})

Heading(o) ==
    LET list == init_record_sizes(o, o.rec[1])
    IN  SelectSeq(list, LAMBDA r : \A s \in DOMAIN list : list[s] = r => \A t \in 1..(s - 1) : list[t] < r)

-----------------------------------------------------------------------------
(* The tests.  _open gives the file a pass starts from (Absent when it      *)
(* cannot be opened) and _record the access one turn of the loop makes: the *)
(* offset, the record number fill_buffer or verify_buffer is told, and      *)
(* where the file offset goes.  _finish lists the rates the test stores.    *)

Access(op, pos, rec, next) == [op |-> op, pos |-> pos, rec |-> rec, next |-> next]
Rates(name) == <<<<name, 1>>, IF opt.noretest THEN Zero ELSE <<name, 2>> >>
Passes(name) == CASE name = "random" -> 2
                  [] name \in {"rewriterec", "stride"} -> 1
                  [] OTHER -> IF opt.noretest THEN 1 ELSE 2

\* Created, truncated and unlinked: the sanity check before the test.
write_perf_test_sanity(f) == Absent
write_perf_test_open(f, pass) == IF pass = 0 THEN [write_perf_test_sanity(f) EXCEPT !.exists = TRUE] ELSE f
\* With multiple buffers the next buffer is filled as record 0, whatever i is.
write_perf_test_record == Access("write", at, IF opt.multi_buffer THEN 0 ELSE i, at + reclen)
write_perf_test_finish == Rates("write")

fwrite_perf_test_open(f, pass) == IF pass = 0 THEN Empty ELSE f
fwrite_perf_test_record == Access("write", at, i, at + reclen)
fwrite_perf_test_finish == Rates("fwrite")

fread_perf_test_open(f) == f
fread_perf_test_record == Access("read", at, i, at + reclen)
fread_perf_test_finish == Rates("fread")

read_perf_test_open(f) == f
read_perf_test_record == Access("read", at, i, at + reclen)
read_perf_test_finish == Rates("read")

random_perf_test_open(f) == f
random_perf_test_read(r) == Access("read", r * reclen, r, (r + 1) * reclen)
random_perf_test_write(r) == Access("write", r * reclen, r, (r + 1) * reclen)
random_perf_test_finish == <<<<"random", 1>>, <<"random", 2>> >>

\* From the end of the file; the seek back is not checked and fails at record 0.
reverse_perf_test_open(f) == IF Len(f.data) < reclen THEN Absent ELSE f
\* A mutant: the records are numbered from 1.
reverse_perf_test_recordOff ==
    Access("read", at, numrecs64 - i, IF at >= reclen THEN at - reclen ELSE at + reclen)
reverse_perf_test_record ==
    Access("read", at, (numrecs64 - 1) - i, IF at >= reclen THEN at - reclen ELSE at + reclen)
reverse_perf_test_finish == <<<<"reverse", 1>> >>

\* On the other file, always record 0.
rewriterec_perf_test_open(f) == Empty
rewriterec_perf_test_record == Access("write", at, 0, 0)
rewriterec_perf_test_finish == <<<<"rewriterec", 1>> >>

read_stride_perf_test_open(f) == f
StrideWraps == at + reclen + stride * reclen >= numrecs64 * reclen - reclen
read_stride_perf_test_next ==
    IF StrideWraps
    THEN IF numrecs64 <= stride THEN 0 ELSE ((stripewrap + 1) % numrecs64) * reclen
    ELSE at + stride * reclen
read_stride_perf_test_record ==
    Access("read", at, at \div reclen, read_stride_perf_test_next)
read_stride_perf_test_finish == <<<<"stride", 1>> >>

pwrite_perf_test_open(f, pass) == IF pass = 0 THEN Empty ELSE f
pwrite_perf_test_record == Access("write", i * reclen, i, at)
pwrite_perf_test_finish == Rates("pwrite")

pread_perf_test_open(f) == f
pread_perf_test_record == Access("read", i * reclen, i, at)
pread_perf_test_finish == Rates("pread")

-----------------------------------------------------------------------------
Name == func[test + 1]
Subject == IF Name = "rewriterec" THEN dummyfile ELSE file

Opened ==
    CASE Name = "write"      -> write_perf_test_open(file, j)
      [] Name = "fwrite"     -> fwrite_perf_test_open(file, j)
      [] Name = "fread"      -> fread_perf_test_open(file)
      [] Name = "read"       -> read_perf_test_open(file)
      [] Name = "random"     -> random_perf_test_open(file)
      [] Name = "reverse"    -> reverse_perf_test_open(file)
      [] Name = "rewriterec" -> rewriterec_perf_test_open(dummyfile)
      [] Name = "stride"     -> read_stride_perf_test_open(file)
      [] Name = "pwrite"     -> pwrite_perf_test_open(file, j)
      [] Name = "pread"      -> pread_perf_test_open(file)

\* The accesses the next turn of the loop may make; only a random one has a choice.
Accesses ==
    CASE Name = "write"      -> {write_perf_test_record}
      [] Name = "fwrite"     -> {fwrite_perf_test_record}
      [] Name = "fread"      -> {fread_perf_test_record}
      [] Name = "read"       -> {read_perf_test_record}
      [] Name = "random"     -> {IF j = 0 THEN random_perf_test_read(r) ELSE random_perf_test_write(r) : r \in Records}
      [] Name = "reverse"    -> {reverse_perf_test_record}
      [] Name = "rewriterec" -> {rewriterec_perf_test_record}
      [] Name = "stride"     -> {read_stride_perf_test_record}
      [] Name = "pwrite"     -> {pwrite_perf_test_record}
      [] Name = "pread"      -> {pread_perf_test_record}

Stored ==
    CASE Name = "write"      -> write_perf_test_finish
      [] Name = "fwrite"     -> fwrite_perf_test_finish
      [] Name = "fread"      -> fread_perf_test_finish
      [] Name = "read"       -> read_perf_test_finish
      [] Name = "random"     -> random_perf_test_finish
      [] Name = "reverse"    -> reverse_perf_test_finish
      [] Name = "rewriterec" -> rewriterec_perf_test_finish
      [] Name = "stride"     -> read_stride_perf_test_finish
      [] Name = "pwrite"     -> pwrite_perf_test_finish
      [] Name = "pread"      -> pread_perf_test_finish

\* What unit k of a record holds: with -+d it depends on the record number.
fill_buffer(rec, k) == IF opt.diag_v THEN <<rec, k>> ELSE <<0, 0>>
verify_buffer(data, pos, rec) == \A k \in 0..(reclen - 1) : data[pos + k + 1] = fill_buffer(rec, k)
Hole == <<-1, -1>>
Blank == <<-2, -2>>

\* -m: the accesses of a test, its passes taken together, go round the slots of
\* mbuffer, the second one first.  A unit of memory is filled once it holds the
\* pattern.
Index == ((j * numrecs64 + i + 1) % (MAXBUFFERSIZE \div reclen)) * reclen
Units(buf, off, n) == {<<buf, off + k>> : k \in 0..(n - 1)}

\* Whether a write fills its buffer itself.  Without -m all do: the one buffer is
\* filled before the loop or, with -+d, in it.
Fills == ~opt.multi_buffer \/ opt.diag_v \/ Name = "write"
Content(rec, k) ==
    IF Fills \/ <<buffers.mbuffer, Index + k>> \in buffers.filled THEN fill_buffer(rec, k) ELSE Blank

\* The start of begin fills the front of buffer and of mbuffer.
begin_fill(r) ==
    LET n == Min({r, cache_size})
    IN  buffers' = IF ~opt.multi_buffer THEN buffers
                   ELSE [buffers EXCEPT !.filled = @ \cup Units(buffers.buffer[1], buffers.buffer[2], n)
                                                     \cup Units(buffers.mbuffer, 0, n)]

\* Before its loop a test goes back to mainbuffer, some of them for good, and one
\* that writes fills a record of it.
buffer_reset ==
    buffers' = IF ~opt.multi_buffer THEN buffers ELSE
        [mbuffer |-> IF Name \in {"reverse", "rewriterec", "stride", "pwrite", "pread"}
                     THEN "main" ELSE buffers.mbuffer,
         buffer  |-> IF Name \in {"fwrite", "fread"} THEN <<"main", 0>> ELSE buffers.buffer,
         filled  |-> IF Name \in {"write", "rewriterec", "fwrite", "pwrite"} \/ (Name = "random" /\ j = 1)
                     THEN buffers.filled \cup Units("main", 0, reclen) ELSE buffers.filled]

\* After a turn of the loop: what was read has been verified.
buffer_used(op) ==
    buffers' = IF ~opt.multi_buffer THEN buffers ELSE
        [buffers EXCEPT !.buffer = IF Name \in {"fwrite", "fread"} THEN <<buffers.mbuffer, Index>> ELSE @,
                        !.filled = IF op = "read" \/ Fills THEN @ \cup Units(buffers.mbuffer, Index, reclen)
                                   ELSE @]

\* write(2) at an offset: a gap before it reads as zeros.
Written(data, pos, rec, lost) ==
    [u \in 1..(IF pos + reclen > Len(data) THEN pos + reclen ELSE Len(data)) |->
        IF u - 1 \in pos..(pos + reclen - 1) THEN IF lost THEN Hole ELSE Content(rec, u - 1 - pos)
        ELSE IF u \in DOMAIN data THEN data[u] ELSE Hole]

-----------------------------------------------------------------------------
Init ==
    /\ opt \in Options
    /\ kilobytes64 = 0 /\ reclen = 0
    /\ where = "size"
    /\ test = 0 /\ j = 0 /\ i = 0 /\ at = 0 /\ stripewrap = 0 /\ seen = {}
    /\ file = Absent /\ dummyfile = Absent
    /\ buffers = [mbuffer |-> "multi", buffer |-> <<"main", 0>>, filled |-> {}]
    /\ report_array = <<>>
    /\ faults = {}

NextRecordSize == get_next_record_size(RecordSizes(opt, kilobytes64), reclen)
FileDone == kilobytes64 = 0 \/ NextRecordSize = 0 \/ NextRecordSize > kilobytes64

\* The outer loop of auto_test, and before it the test of the smallest sizes.
auto_test_file ==
    /\ where = "size" /\ FileDone
    /\ LET next == get_next_file_size(init_file_sizes(opt), kilobytes64)
           rows == report_array \o IF Crossover(opt, next) THEN DummyRows(opt, next) ELSE <<>>
       IN  IF kilobytes64 = 0 /\ min_rec_size(opt) > min_file_size(opt)
           THEN where' = "bad sizes" /\ UNCHANGED <<size, report_array>>
           ELSE IF next = 0 THEN where' = "out" /\ UNCHANGED <<size, report_array>>
           ELSE /\ kilobytes64' = next /\ reclen' = 0
                /\ report_array' = rows
                /\ where' = IF TableFull(rows) THEN "table full" ELSE where
    /\ UNCHANGED <<opt, loop, file, dummyfile, buffers, faults>>

\* The inner loop, and the start of begin.
auto_test_record ==
    /\ where = "size" /\ ~FileDone
    /\ reclen' = NextRecordSize
    /\ report_array' = Append(report_array, Row(kilobytes64, NextRecordSize, <<>>))
    /\ where' = IF TableFull(report_array') THEN "table full" ELSE "test"
    /\ test' = 0
    /\ begin_fill(NextRecordSize)
    /\ UNCHANGED <<opt, kilobytes64, j, i, at, stripewrap, seen, file, dummyfile, faults>>

num_tests ==
    IF opt.RWONLYflag THEN 2
    ELSE Len(func) - (IF opt.Eflag THEN 0 ELSE 2)
                   - (IF ~opt.mmapflag THEN 0 ELSE IF opt.Eflag THEN 4 ELSE 2)

Selected(name) == opt.include = {} \/ name \in opt.include
\* These return at once and store nothing.
Returns(name) == name = "mix" \/ (opt.mmapflag /\ name \in {"fwrite", "fread"})

\* begin: the next entry of func[].
begin ==
    /\ where = "test" /\ test < num_tests
    /\ IF Selected(Name) /\ ~Returns(Name)
       THEN /\ where' = "open" /\ j' = 0
            /\ UNCHANGED <<test, report_array>>
       ELSE /\ report_array' = IF Selected(Name) THEN report_array
                               ELSE store_value(report_array, Zeros(test_soutput[test + 1]))
            /\ test' = test + 1
            /\ UNCHANGED <<where, j>>
    /\ UNCHANGED <<opt, size, i, at, stripewrap, seen, file, dummyfile, buffers, faults>>

begin_end ==
    /\ where = "test" /\ test >= num_tests
    /\ file' = IF opt.no_unlink THEN file ELSE Absent
    /\ where' = "size"
    /\ UNCHANGED <<opt, size, loop, dummyfile, buffers, report_array, faults>>

\* The start of a pass of a test.
Open ==
    /\ where = "open"
    /\ IF Name = "rewriterec" THEN dummyfile' = Opened /\ UNCHANGED file
                              ELSE file' = Opened /\ UNCHANGED dummyfile
    /\ where' = IF Opened.exists THEN "loop" ELSE "no file"
    /\ i' = 0 /\ stripewrap' = 0 /\ seen' = {}
    /\ at' = IF Name = "reverse" THEN Len(file.data) - reclen ELSE 0
    /\ buffer_reset
    /\ UNCHANGED <<opt, size, test, j, report_array, faults>>

Kept(f) == IF opt.no_unlink THEN f ELSE Absent
CanFail(kind) == kind \in Faults /\ Cardinality(faults) < FaultBound

\* One turn of the loop of a test.
Advance(a) ==
    /\ i' = i + 1 /\ at' = a.next
    /\ stripewrap' = IF Name = "stride" /\ StrideWraps THEN stripewrap + 1 ELSE stripewrap
    /\ seen' = seen \cup {a.pos \div reclen}
    /\ buffer_used(a.op)
    /\ UNCHANGED <<opt, size, test, j, report_array>>

Store(data) ==
    IF Name = "rewriterec" THEN dummyfile' = [dummyfile EXCEPT !.data = data] /\ UNCHANGED file
                           ELSE file' = [file EXCEPT !.data = data] /\ UNCHANGED dummyfile

Write(a) ==
    /\ where = "loop" /\ i < numrecs64 /\ a.op = "write"
    /\ \/ Store(Written(Subject.data, a.pos, a.rec, FALSE)) /\ UNCHANGED faults
       \/ /\ CanFail("lost")
          /\ Store(Written(Subject.data, a.pos, a.rec, TRUE))
          /\ faults' = faults \cup {<<"lost", test, j, i>>}
       \/ /\ CanFail("misplaced") /\ numrecs64 > 1
          /\ Store(Written(Subject.data, a.pos, (a.rec + 1) % numrecs64, FALSE))
          /\ faults' = faults \cup {<<"misplaced", test, j, i>>}
    /\ Advance(a) /\ UNCHANGED where

\* A short write calls signal_handler.
signal_handler(a) ==
    /\ where = "loop" /\ i < numrecs64 /\ a.op = "write" /\ CanFail("write")
    /\ faults' = faults \cup {<<"write", test, j, i>>}
    /\ file' = Kept(file) /\ dummyfile' = Kept(dummyfile)
    /\ where' = "interrupted"
    /\ UNCHANGED <<opt, size, loop, buffers, report_array>>

Read(a) ==
    /\ where = "loop" /\ i < numrecs64 /\ a.op = "read"
    /\ a.pos + reclen <= Len(file.data)
    /\ where' = IF verify_buffer(file.data, a.pos, a.rec) THEN "loop" ELSE "mismatch"
    /\ Advance(a) /\ UNCHANGED <<file, dummyfile, faults>>

ShortRead(a) ==
    /\ where = "loop" /\ i < numrecs64 /\ a.op = "read"
    /\ \/ a.pos + reclen > Len(file.data) /\ UNCHANGED faults
       \/ CanFail("read") /\ faults' = faults \cup {<<"read", test, j, i>>}
    /\ where' = "short read"
    /\ UNCHANGED <<opt, size, loop, file, dummyfile, buffers, report_array>>

\* A mutant: the pass is not counted.
FinishAgain ==
    /\ where = "loop" /\ i >= numrecs64
    /\ IF j + 1 < Passes(Name)
       THEN where' = "open" /\ UNCHANGED <<test, report_array>>
       ELSE /\ report_array' = store_value(report_array, Stored)
            /\ test' = test + 1 /\ where' = "test"
    /\ UNCHANGED <<opt, size, i, j, at, stripewrap, seen, file, dummyfile, buffers, faults>>

\* The end of a pass, and after the last one of the test.
Finish ==
    /\ where = "loop" /\ i >= numrecs64
    /\ IF j + 1 < Passes(Name)
       THEN /\ j' = j + 1 /\ where' = "open"
            /\ UNCHANGED <<test, report_array>>
       ELSE /\ report_array' = store_value(report_array, Stored)
            /\ test' = test + 1 /\ where' = "test"
            /\ UNCHANGED j
    /\ UNCHANGED <<opt, size, i, at, stripewrap, seen, file, dummyfile, buffers, faults>>

\* The end of main.
main_out ==
    /\ where = "out" /\ where' = "done"
    /\ dummyfile' = Kept(dummyfile)
    /\ UNCHANGED <<opt, size, loop, file, buffers, report_array, faults>>

Next ==
    \/ auto_test_file \/ auto_test_record \/ begin \/ begin_end \/ Open \/ Finish \/ main_out
    \/ where = "loop" /\ \E a \in Accesses : Write(a) \/ signal_handler(a) \/ Read(a) \/ ShortRead(a)

Spec == Init /\ [][Next]_vars
FairSpec == Spec /\ WF_vars(Next)

Over == where \in Ends

-----------------------------------------------------------------------------
TypeOK ==
    /\ opt \in Options
    /\ kilobytes64 \in Nat /\ reclen \in Nat
    /\ where \in Ends \cup {"size", "test", "open", "loop", "out"}
    /\ test \in 0..Len(func) /\ j \in 0..1 /\ i \in Nat /\ at \in Nat /\ stripewrap \in Nat
    /\ seen \subseteq Nat
    /\ {file.exists, dummyfile.exists} \subseteq BOOLEAN

Damaged == \E f \in faults : f[1] \in {"lost", "misplaced"}

\* The tests that only read, in the order of func[], and those that make the
\* file they read.
Makers  == {"write", "fwrite", "pwrite"}
Readers == {"read", "random", "reverse", "stride", "fread", "pread"}
Number(name) == CHOOSE k \in DOMAIN func : func[k] = name
NoInput == \E r \in Readers : Selected(r) /\ ~\E m \in Makers : Selected(m) /\ Number(m) < Number(r)

\* With -m a record may be written from a buffer that was filled for record 0
\* (write_perf_test, under -+d) or not at all (the others, without it).
WrongBuffer ==
    opt.multi_buffer /\ \E u \in DOMAIN file.data :
        IF opt.diag_v THEN (u - 1) \div reclen # 0 /\ file.data[u] = fill_buffer(0, (u - 1) % reclen)
                      ELSE file.data[u] = Blank

\* The rows all file sizes need.
TableRows(o) ==
    MapThenSumSet(LAMBDA k : Cardinality({r \in ToSet(RecordSizes(o, k)) : r <= k})
                             + (IF Crossover(o, k) THEN Len(DummyRows(o, k)) ELSE 0),
                  ToSet(init_file_sizes(o)))

\* No test stops the benchmark on a file system that does what it is asked:
\* verify_buffer expects in every record, for every record size, order of
\* access and combination of tests, what fill_buffer put there, no read runs
\* past the end of the file, and every file is there when it is opened.  What
\* else stops it: -m, which writes the wrong buffer, a record larger than the
\* smallest file, and more rows than the table has.
OnlyFaultsStop ==
    /\ where = "mismatch" => Damaged \/ WrongBuffer
    /\ where = "bad sizes" => min_rec_size(opt) > min_file_size(opt)
    /\ where = "table full" => TableRows(opt) > MAX_Y
    /\ where = "short read" => \E f \in faults : f[1] = "read"
    /\ where = "interrupted" => \E f \in faults : f[1] = "write"
    /\ where = "no file" => NoInput

PassEnds == where = "loop" /\ i >= numrecs64

\* A pass of read, reread, fread, pread or the reverse test that ends without
\* a complaint has verified the whole file: no record that was lost, or under
\* -+d stored in place of another, is left in it.
PassedFileIsWhole ==
    PassEnds /\ Name \in {"read", "fread", "pread", "reverse"} =>
        \A u \in 1..(numrecs64 * reclen) :
            file.data[u] = fill_buffer((u - 1) \div reclen, (u - 1) % reclen)

\* Every pass over the file of these tests accesses every record once.  (A pass
\* of the stride test may leave records out, against its comment.)
PassCoversFile ==
    PassEnds /\ Name \notin {"random", "stride", "rewriterec"} => seen = Records

RowsOf(k, r) == {y \in DOMAIN report_array : report_array[y].kilos = k /\ report_array[y].rec = r}

\* At the end every file size has been tested with every record size that
\* fits in it, except the small ones above the crossover, and once only.
EveryPairMeasured ==
    where = "done" =>
        \A k \in ToSet(init_file_sizes(opt)) : \A r \in ToSet(RecordSizes(opt, k)) :
            r <= k => Cardinality(RowsOf(k, r)) = 1

\* The Excel tables: the rates printed in a line stand under their own record
\* sizes, also where the crossover left rows out; but the rows made up there are
\* those of multiplier 2, and with any other one the line is shifted.
TablesLineUp ==
    where = "done" => \A k \in ToSet(init_file_sizes(opt)) :
        (Crossover(opt, k) => opt.multiplier = 2) <=>
            \A y \in {z \in DOMAIN report_array : report_array[z].kilos = k} :
                LET place == dump_report_place(report_array, y)
                IN  place \in DOMAIN Heading(opt) /\ Heading(opt)[place] = report_array[y].rec

\* The Excel report prints under the name of a test the rates of that test
\* (or 0 for a pass that was not made), not those of another one.
ReportNamesResults ==
    where = "done" => \A c \in dump_excel(opt) : \A y \in DOMAIN report_array :
        c[3] - 1 \in DOMAIN report_array[y].cells
            => report_array[y].cells[c[3] - 1] \in {Zero, <<c[1], c[2]>>}

\* ... and a test that was run does not disappear from it.
ReportShowsResults ==
    where = "done" => \A c \in dump_excel(opt) : \A y \in DOMAIN report_array :
        <<c[1], c[2]>> \in ToSet(report_array[y].cells)
            => report_array[y].cells[c[3] - 1] = <<c[1], c[2]>>

\* The benchmark ends.
Termination == <>Over
=============================================================================
