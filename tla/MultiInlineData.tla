--------------------------- MODULE MultiInlineData ---------------------------
(***************************************************************************)
(* programs/inline-data/multi-inline-data.c and inline-data-utils.c: what  *)
(* each rank calls in test_regular_file, and what the calls do.  All ranks *)
(* work on one small file whose data the file system keeps in the inode.   *)
(* Rank 0 makes it and sends the pattern it wrote to the others, or the    *)
(* others change it and send their pattern to rank 0: each rank has a copy *)
(* of the pattern.  A unit of it is 0 or the number of the fill_pattern    *)
(* that drew it: two draws are taken to differ.  Sizes are counted in      *)
(* units; open and close are part of the calls between them.               *)
(*                                                                         *)
(* One fault may happen: a call fails, or the file system stores one unit  *)
(* wrong.                                                                  *)
(***************************************************************************)
EXTENDS MpiScript, Functions, TLC

CONSTANTS max_inline_size, PATTERN_SZ, blocksize,
          HasIoctl,     \* the kernel knows OCFS2_IOC_RESVSP and UNRESVSP
          Faults        \* the faults considered: "none", "call", "rot"

ConstantsOK ==
    /\ size \in Nat /\ size >= 2
    /\ max_inline_size \in Nat /\ max_inline_size >= 4
    /\ blocksize > max_inline_size
    /\ PATTERN_SZ >= 2 * max_inline_size

-----------------------------------------------------------------------------
(* What each rank calls: text is the script it follows. *)

\* A call on file f with argument n.  checked: abort_printf when it fails.
On(f, op, n) == [op |-> op, f |-> f, n |-> n, checked |-> TRUE]
Shared == 0                  \* the file of all ranks; r + 1 is the file of rank r
Ranges == {<<off, count>> \in (0 .. max_inline_size - 1) \X (1 .. max_inline_size) :
              off + count <= max_inline_size}

prep_file(n) == <<On(Shared, "prep_file", n)>>
draw_pattern(n) == <<On(Shared, "fill_pattern", n)>>
prep_file_no_fill(n, direct) == <<On(Shared, "prep_file_no_fill", n) @@ [direct |-> direct]>>
write_at(where) == <<On(Shared, "write_at", 0) @@ [where |-> where]>>
truncate_pattern(old, new) == <<On(Shared, "resize", new) @@ [zero |-> <<new, old>>]>>
extend_pattern(old, new) == <<On(Shared, "resize", new) @@ [zero |-> <<old, new>>]>>
try_punch_hole(where) == <<On(Shared, "try_punch_hole", 0) @@ [where |-> where]>>
mmap_write_at(n) == <<On(Shared, "mmap_write_at", n)>>
verify_pattern_fd(n) == <<On(Shared, "verify_pattern_fd", n)>>
verify_pattern_direct(n) == <<On(Shared, "verify_pattern_direct", n)>>

\* The result of verify_pattern is overwritten by 0.
verify_pattern_mmap == <<On(Shared, "sync", 0)>>
fsync == <<On(Shared, "sync", 0)>>
is_file_inlined(should) == <<On(Shared, "is_file_inlined", 0) @@ [should |-> should]>>

\* The calls in s are left out when the ioctl returns ENOTTY.
try_reserve(where, s) == <<On(Shared, "try_reserve", Len(s)) @@ [where |-> where]>> \o s

send_pattern_to_ranks(r) == IF r = 0 THEN Each(size - 1, LAMBDA i : Send(i + 1)) ELSE Send(0)
recv_pattern_from_ranks(r) == IF r = 0 THEN Each(size - 1, LAMBDA i : Recv(i + 1)) ELSE Recv(0)

\* if (rank == 0) { s; send } else { recv }, and the other way round.
FromRoot(r, s) == IF r = 0 THEN s \o send_pattern_to_ranks(r) ELSE recv_pattern_from_ranks(r)
ToRoot(r, s) == IF r # 0 THEN s \o send_pattern_to_ranks(r) ELSE recv_pattern_from_ranks(r)

\* Every rank asks whether the file is inline, and rank 0 compares it.
Judge(r, should, n) == is_file_inlined(should) \o Only(r = 0, verify_pattern_fd(n))

-----------------------------------------------------------------------------
Max_ == max_inline_size
Half == max_inline_size \div 2

write_basic_pattern(r) ==
       FromRoot(r, prep_file(Max_))                        \o Barrier(383)
    \o is_file_inlined(TRUE) \o verify_pattern_fd(Max_)    \o Barrier(402)

rewrite_portion(r) ==
       ToRoot(r, write_at(Ranges))                         \o Barrier(422)
    \o Judge(r, TRUE, Max_)                                \o Barrier(438)

reduce_size(r) ==
       ToRoot(r, truncate_pattern(Max_, Half))             \o Barrier(459)
    \o Judge(r, TRUE, Half)                                \o Barrier(474)

extend_file(r) ==
       ToRoot(r, extend_pattern(Half, Max_))               \o Barrier(494)
    \o Judge(r, TRUE, Max_)                                \o Barrier(508)

double_write(r) ==
       FromRoot(r, draw_pattern(Half) \o prep_file_no_fill(Half \div 2, FALSE)) \o Barrier(526)
    \o ToRoot(r, write_at({<<off, Half - off>> : off \in 1 .. Half \div 2}))    \o Barrier(543)
    \o Judge(r, TRUE, Half)                                \o Barrier(557)

fsync_test(r) ==
       FromRoot(r, prep_file(Max_))                        \o Barrier(572)
    \o Only(r # 0, fsync \o verify_pattern_fd(Max_))
    \o is_file_inlined(TRUE) \o verify_pattern_fd(Max_)    \o Barrier(597)

fdatasync_test(r) ==
       FromRoot(r, prep_file(Max_))                        \o Barrier(611)
    \o Only(r # 0, fsync)
    \o is_file_inlined(TRUE) \o verify_pattern_fd(Max_)    \o Barrier(632)

mmap_reads(r) ==
       FromRoot(r, prep_file(Max_))                        \o Barrier(646)
    \o Only(r # 0, verify_pattern_mmap)
    \o is_file_inlined(TRUE)                               \o Barrier(667)

reserve_space(r) ==
       Only(r # 0, try_reserve(Ranges, verify_pattern_fd(Max_)))
    \o is_file_inlined(TRUE)                               \o Barrier(694)

punch_hole(r) ==
       FromRoot(r, prep_file(Max_))                        \o Barrier(708)
    \o ToRoot(r, try_punch_hole(Ranges))                   \o Barrier(728)
    \o is_file_inlined(TRUE)                               \o Barrier(737)

large_write(r) ==
       FromRoot(r, draw_pattern(PATTERN_SZ) \o prep_file_no_fill(Max_, TRUE))   \o Barrier(754)
    \o ToRoot(r, write_at({<<Max_, PATTERN_SZ - Max_>>}))  \o Barrier(772)
    \o Judge(r, FALSE, PATTERN_SZ)                         \o Barrier(786)

mmap_write(r) ==
       FromRoot(r, prep_file(Max_) \o draw_pattern(Max_) \o mmap_write_at(Max_)) \o Barrier(805)
    \o Only(r # 0, verify_pattern_fd(Max_))
    \o is_file_inlined(FALSE)                              \o Barrier(823)

large_extend(r) ==
       FromRoot(r, prep_file(Max_))                        \o Barrier(838)
    \o ToRoot(r, extend_pattern(Max_, 2 * Max_))           \o Barrier(858)
    \o Judge(r, FALSE, 2 * Max_)                           \o Barrier(872)

\* Here a rank without the ioctl does not send its pattern either.
large_reservation(r) ==
       FromRoot(r, prep_file(Max_))                        \o Barrier(887)
    \o (IF r # 0 THEN try_reserve({<<0, PATTERN_SZ>>},
                          extend_pattern(Max_, PATTERN_SZ) \o send_pattern_to_ranks(r))
        ELSE recv_pattern_from_ranks(r))                   \o Barrier(910)
    \o Judge(r, FALSE, PATTERN_SZ)                         \o Barrier(924)

direct_read(r) ==
       FromRoot(r, prep_file(Max_))                        \o Barrier(939)
    \o Only(r # 0, verify_pattern_direct(Max_))
    \o is_file_inlined(TRUE)                               \o Barrier(957)

direct_write(r) ==
       FromRoot(r, draw_pattern(Max_) \o prep_file_no_fill(Max_, TRUE)) \o Barrier(972)
    \o Only(r # 0, verify_pattern_direct(Max_))            \o Barrier(992)
    \o Only(r = 0, <<On(Shared, "unlink", 0)>>)            \o Barrier(999)

\* Each rank with a file of its own.  Only the result of is_file_inlined is looked at, that of
\* verify_pattern_fd is not.
multiple_files(r) ==
    LET Own(c) == [c EXCEPT !.f = r + 1, !.checked = FALSE]
        Mine(s) == [k \in DOMAIN s |-> Own(s[k])]
    IN Mine(prep_file(Max_))        \o Barrier(1010)
    \o Mine(write_at(Ranges))       \o Barrier(1018)
    \o Mine(is_file_inlined(TRUE))  \o Barrier(1029)
    \o Mine(<<On(Shared, "unlink", 0)>>) \o Barrier(1035)

test_regular_file(r) ==
       Barrier(358)
    \o write_basic_pattern(r) \o rewrite_portion(r) \o reduce_size(r) \o extend_file(r)
    \o double_write(r) \o fsync_test(r) \o fdatasync_test(r) \o mmap_reads(r)
    \o reserve_space(r) \o punch_hole(r) \o large_write(r) \o mmap_write(r)
    \o large_extend(r) \o large_reservation(r) \o direct_read(r) \o direct_write(r)
    \o multiple_files(r) \o Barrier(1043)

text == [r \in 0 .. size - 1 |-> test_regular_file(r)]

-----------------------------------------------------------------------------

VARIABLES pattern,   \* pattern[r]: what rank r thinks is in the file
          files,     \* the files there are: number -> [data, inline]
          fault      \* the fault that may still happen, or what came of it

local == <<pattern, files, fault>>
vars == <<mpi, local>>

Wrong == -1

Init ==
    /\ MpiInit
    /\ pattern = [r \in Ranks |-> [b \in 1 .. PATTERN_SZ |-> 0]]
    /\ files = <<>>
    /\ fault \in Faults

-----------------------------------------------------------------------------
(* The calls. *)

IsCall(r) == ~ Finished(r) /\ "f" \in DOMAIN Call(r)
There(f) == f \in DOMAIN files

fill_pattern(r, n) == [b \in 1 .. PATTERN_SZ |-> IF b <= n THEN pc[r] + 1 ELSE 0]

\* memset(p + range[1], 0, ...) up to range[2].
Zeroed(p, range) == [b \in DOMAIN p |-> IF range[1] < b /\ b <= range[2] THEN 0 ELSE p[b]]

\* The pattern of rank r after call c; where is the range of a punched hole.
PatternAfter(r, c, where) ==
    CASE c.op \in {"prep_file", "fill_pattern"} -> fill_pattern(r, c.n)
      [] c.op = "resize" -> Zeroed(pattern[r], c.zero)
      [] c.op = "try_punch_hole" -> Zeroed(pattern[r], <<where[1], where[1] + where[2]>>)
      [] OTHER -> pattern[r]

Sized(data, n) == [b \in 1 .. n |-> IF b <= Len(data) THEN data[b] ELSE 0]

\* count units of p at offset.
Stored(data, p, offset, count) ==
    [b \in 1 .. Max({Len(data), offset + count}) |->
        IF offset < b /\ b <= offset + count THEN p[b]
        ELSE IF b <= Len(data) THEN data[b] ELSE 0]

\* The file after call c of rank r with pattern p.  The file system keeps small files inline
\* until they grow, are mapped for writing, or are reserved a block.
FileAfter(c, p, where) ==
    LET old == IF There(c.f) THEN files[c.f] ELSE [data |-> <<>>, inline |-> TRUE]
        end == where[1] + where[2]
        Fits(n) == n <= max_inline_size
    IN CASE c.op = "prep_file" -> [data |-> SubSeq(p, 1, c.n), inline |-> Fits(c.n)]
         [] c.op = "prep_file_no_fill" -> [data |-> SubSeq(p, 1, c.n), inline |-> ~ c.direct /\ Fits(c.n)]
         [] c.op = "write_at" -> [data |-> Stored(old.data, p, where[1], where[2]),
                                  inline |-> old.inline /\ Fits(end)]
         [] c.op = "resize" -> [data |-> Sized(old.data, c.n), inline |-> old.inline /\ Fits(c.n)]
         [] c.op = "try_reserve" -> [old EXCEPT !.inline = @ /\ Fits(end)]
         [] c.op = "try_punch_hole" -> [old EXCEPT !.data = Zeroed(@, <<where[1], end>>)]
         [] c.op = "mmap_write_at" -> [data |-> Stored(old.data, p, 0, c.n), inline |-> FALSE]
         [] OTHER -> old

\* Whether a call without an error says that all is well.
Succeeds(r, c) ==
    LET data == files[c.f].data
        Same(n) == n <= Len(data) /\ \A b \in 1 .. n : data[b] = pattern[r][b]
    IN CASE c.op = "verify_pattern_fd" -> Same(c.n)
         [] c.op = "verify_pattern_direct" -> Same(c.n) /\ Min({Len(data), blocksize}) = c.n
         [] c.op = "is_file_inlined" -> files[c.f].inline = c.should
         [] OTHER -> TRUE

Makes(c) == c.op \in {"prep_file", "prep_file_no_fill"}
Changes(c) == Makes(c) \/ c.op \in {"write_at", "resize", "try_reserve", "try_punch_hole", "mmap_write_at"}
Ioctl(c) == c.op \in {"try_reserve", "try_punch_hole"}
Where(c) == IF "where" \in DOMAIN c THEN c.where ELSE {<<0, 0>>}

\* The call returns; a changing call may store one unit wrong.
Return(r) ==
    /\ IsCall(r) /\ (Ioctl(Call(r)) => HasIoctl)
    /\ LET c == Call(r) IN
       \/ /\ Changes(c) \/ c.op = "fill_pattern"
          /\ Skip(r, 0) /\ UNCHANGED <<epoch, mail, aborted>>
          /\ \E where \in Where(c) :
                LET p == PatternAfter(r, c, where)
                    file == FileAfter(c, p, where)
                IN /\ pattern' = [pattern EXCEPT ![r] = p]
                   /\ \/ /\ files' = IF Changes(c) /\ (Makes(c) \/ There(c.f)) THEN (c.f :> file) @@ files ELSE files
                         /\ UNCHANGED fault
                      \/ /\ fault = "rot" /\ Changes(c) /\ fault' = "rotten"
                         /\ \E b \in DOMAIN file.data :
                               files' = (c.f :> [file EXCEPT !.data[b] = Wrong]) @@ files
       \/ /\ c.op = "unlink"
          /\ Skip(r, 0) /\ UNCHANGED <<epoch, mail, aborted>>
          /\ files' = Restrict(files, DOMAIN files \ {c.f})
          /\ UNCHANGED <<pattern, fault>>
       \/ /\ ~ Changes(c) /\ c.op \notin {"fill_pattern", "unlink"} /\ There(c.f)
          /\ IF Succeeds(r, c) THEN Skip(r, 0) /\ UNCHANGED <<epoch, mail, aborted>> ELSE MPI_Abort
          /\ UNCHANGED local

\* ENOTTY: the pattern has a hole, the file has none.
Enotty(r) ==
    /\ IsCall(r) /\ Ioctl(Call(r)) /\ ~ HasIoctl
    /\ Skip(r, Call(r).n)
    /\ \E where \in Where(Call(r)) : pattern' = [pattern EXCEPT ![r] = PatternAfter(r, Call(r), where)]
    /\ UNCHANGED <<epoch, mail, aborted, files, fault>>

\* A file that could not be made is looked up without success, and is_file_inlined reads a
\* block nobody has filled.
Missing(r) ==
    /\ IsCall(r) /\ Call(r).op = "is_file_inlined" /\ ~ There(Call(r).f)
    /\ (Skip(r, 0) /\ UNCHANGED <<epoch, mail, aborted>>) \/ MPI_Abort
    /\ UNCHANGED local

\* A system call fails: the job is aborted, or in multiple_files nobody notices.  An error of
\* is_file_inlined is taken for "inlined", or missed and a block judged that was not read.
Fail(r) ==
    /\ fault = "call" /\ IsCall(r) /\ Call(r).op \notin {"fill_pattern", "unlink"}
    /\ fault' = "failed"
    /\ LET asks == Call(r).op = "is_file_inlined" IN
       \/ (Call(r).checked \/ asks) /\ MPI_Abort
       \/ (~ Call(r).checked \/ asks) /\ Skip(r, 0) /\ UNCHANGED <<epoch, mail, aborted>>
    /\ UNCHANGED <<pattern, files>>

\* MPI_Irecv overwrites the pattern with the one that arrives.
Communicate(r) ==
    \/ MPI_Barrier(r) /\ UNCHANGED local
    \/ MPI_Isend(r, pattern[r]) /\ UNCHANGED local
    \/ /\ MPI_Irecv(r)
       /\ pattern' = [pattern EXCEPT ![r] = Head(mail[<<Call(r).from, r>>])]
       /\ UNCHANGED <<files, fault>>
    \/ \E q \in Ranks :
          Meet(r, q) /\ pattern' = [pattern EXCEPT ![r] = pattern[q]] /\ UNCHANGED <<files, fault>>

Next == \E r \in Ranks : ~ aborted /\ (Return(r) \/ Enotty(r) \/ Missing(r) \/ Fail(r) \/ Communicate(r))

Spec == Init /\ [][Next]_vars

-----------------------------------------------------------------------------
TypeOK ==
    /\ fault \in Faults \cup {"failed", "rotten"}
    /\ \A f \in DOMAIN files : Len(files[f].data) <= PATTERN_SZ /\ files[f].inline \in BOOLEAN

\* A file system that works passes every test, although all ranks write, truncate and extend the
\* file at once: what they write is the same, and rank 0's pattern is the one of the last sender.
NoFalseAlarm == aborted => fault \in {"failed", "rotten"}

\* try_reserve has returned ENOTTY in large_reservation: rank 0 waits for patterns that the
\* others, in the next barrier by now, have not sent (multi-inline-data.c:899).
Unsent ==
    /\ ~ HasIoctl /\ At(0, "recv")
    /\ \A r \in Ranks \ {0} : At(r, "barrier") /\ Call(r).line = 910

Over == JobOver \/ Unsent

\* With the ioctl nobody waits for ever.  Without it every job that is not aborted before does
\* so in large_reservation, and nowhere else.
NobodyLeftBehind == BarriersMeet /\ (Stuck => Unsent)

\* At the end of a test the file is what the pattern says or somebody has complained, but for
\* the mapped reads, whose result is lost, and the punched holes, which nobody looks at.
Verifying == {402, 438, 474, 508, 557, 597, 632, 786, 823, 872, 924, 957, 992}
                 \cup (IF HasIoctl THEN {694} ELSE {})
RotIsFound ==
    (\A r \in Ranks : At(r, "barrier") /\ Call(r).line \in Verifying)
        => \A b \in DOMAIN files[0].data : files[0].data[b] = pattern[0][b]
=============================================================================
