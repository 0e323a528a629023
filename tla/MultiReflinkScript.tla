------------------------- MODULE MultiReflinkScript -------------------------
(***************************************************************************)
(* programs/reflink_tests/multi_reflink_test.c: what each rank calls.      *)
(* Rank 0 writes an original file of a known pattern; the ranks make       *)
(* reflinks of it and write, append to, truncate and unlink them, all at   *)
(* the same time; rank 0 reads the original again.  A barrier carries the  *)
(* line it stands in.  The calls are functions of reflink_test_utils.c and *)
(* xattr_test_utils.c.                                                     *)
(***************************************************************************)
EXTENDS MpiScript, TLC

CONSTANTS test_flags,    \* the tests chosen: "BASC", "MMAP", "ODCT", ...
          ref_counts,    \* -n
          ref_trees,     \* -p
          Blocks         \* blocks of the original (file_size)

(***************************************************************************)
(* Calls.  "fail" lists what a failing system call in it can lead to: -1   *)
(* is a negative result, which should_exit takes for an error; n >= 0 is a *)
(* positive errno or a 0, which it does not, and the n calls left of the   *)
(* function that returned it are skipped.                                  *)
(***************************************************************************)
File(prefix, i) == Append(prefix, i)
Orig == <<"orig", 0, 0>>
Target == <<"target", 0, 0>>
OfOrig == <<"orig-r", 0>>        \* prefix of the reflinks of the original,
OfTarget == <<"target-r", 0>>    \* and of the target

On(op, f, fail) == [op |-> op, f |-> f, fail |-> fail]
Aborts == {-1}

prep_orig_file(f) == <<On("prep", f, Aborts)>>
prep_orig_file_dio(f) == <<On("prep", f, {-1, 0})>>
reflink(f, g) == <<On("reflink", g, Aborts) @@ [from |-> f]>>
verify_orig_file == <<On("verify", Orig, IF "MMAP" \in test_flags THEN {-1, 0} ELSE Aborts)>>
do_unlink(f) == <<On("unlink", f, Aborts)>>
write_at_file(f, b) == <<On("write", f, Aborts) @@ [b |-> b]>>
read_at_file(f, b) == <<On("read", f, Aborts) @@ [b |-> b]>>
truncate(f, Lens) == <<On("truncate", f, Aborts) @@ [lens |-> Lens]>>
append(f) == <<On("append", f, Aborts)>>

\* A pass over the file: while (offset < file_size) ... offset += size + interval.
Pass(Do(_, _), f) == Each(Blocks, LAMBDA b : Do(f, b + 1))

\* The file a new reflink is made from: the source itself, or the reflink before.
do_reflinks(src, pfx, manner) ==
    Each(ref_counts, LAMBDA i :
        reflink(IF manner = 0 \/ i <= 1 THEN src ELSE File(pfx, i - 1), File(pfx, i)))

do_cows_on_write(pfx) ==
    Each(ref_counts, LAMBDA i : Only(i % 3 # 0, Pass(write_at_file, File(pfx, i))))

do_reads_on_reflinks(pfx) ==
    Each(ref_counts, LAMBDA i : Only(i % 3 # 0, Pass(read_at_file, File(pfx, i))))

do_appends(pfx) == Each(ref_counts, LAMBDA i : append(File(pfx, i)))

\* A failing open makes it return the errno, which nobody takes for an error.
do_cows_on_ftruncate(pfx) ==
    Each(ref_counts, LAMBDA i :
        <<On("truncate", File(pfx, i), {-1, ref_counts - 1 - i})
              @@ [lens |-> {(Blocks \div ref_counts) * i}]>>)

do_unlinks(pfx) == Each(ref_counts, LAMBDA i : do_unlink(File(pfx, i)))

-----------------------------------------------------------------------------
(***************************************************************************)
(* Extended attributes.  One attribute stands for the xattr_nums of them:  *)
(* it is Absent, its value is Built by xattr_value_constructor, which      *)
(* xattr_value_validator accepts, or Plain, the work of                    *)
(* xattr_value_generator alone, which the validator does not accept.       *)
(***************************************************************************)
Absent == 0
Plain == 1
Built == 2

add_or_update_ea(f, Values, fail) == <<On("setea", f, fail) @@ [values |-> Values]>>
read_ea_and_validate(f) == <<On("checkea", f, Aborts)>>

-----------------------------------------------------------------------------
(* multi_reflink_test.c *)

Mine(r) == <<"shared-r", r>>     \* prefix of the reflinks of rank r's shared inode
dest(r) == <<"dest", r, 0>>

\* A mutant: nobody waits for the original.
basic_test_cowEarly(r) ==
       Only(r = 0, prep_orig_file(Orig))
    \o Only(r # 0, reflink(Orig, dest(r)))       \o Barrier(382)
    \o Only(r = 0, verify_orig_file)          \o Barrier(390)
    \o Only(r # 0, Pass(write_at_file, dest(r))) \o Barrier(432)
    \o Only(r = 0, verify_orig_file)          \o Barrier(440)
    \o Only(r # 0, Pass(read_at_file, dest(r)))  \o Barrier(481)
    \o Only(r = 0, verify_orig_file)          \o Barrier(489)

basic_test_cow(r) ==
       Only(r = 0, prep_orig_file(Orig))      \o Barrier(365)
    \o Only(r # 0, reflink(Orig, dest(r)))       \o Barrier(382)
    \o Only(r = 0, verify_orig_file)          \o Barrier(390)
    \o Only(r # 0, Pass(write_at_file, dest(r))) \o Barrier(432)
    \o Only(r = 0, verify_orig_file)          \o Barrier(440)
    \o Only(r # 0, Pass(read_at_file, dest(r)))  \o Barrier(481)
    \o Only(r = 0, verify_orig_file)          \o Barrier(489)

basic_test_resize(r) ==
       Only(r # 0, append(dest(r)))              \o Barrier(537)
    \o Only(r = 0, verify_orig_file)          \o Barrier(545)
    \o Only(r # 0, truncate(dest(r), {Blocks \div (r + 1)})) \o Barrier(576)
    \o Only(r = 0, verify_orig_file)          \o Barrier(584)

\* A mutant: only rank 0 runs the second half.
basic_testSkips(r) ==
       basic_test_cow(r)
    \o Only("MMAP" \notin test_flags /\ r = 0, basic_test_resize(r))
    \o do_unlink(IF r # 0 THEN dest(r) ELSE Orig) \o Barrier(600)

\* With MMAP_TEST basic_test jumps over appending and truncating.
basic_test(r) ==
       basic_test_cow(r)
    \o Only("MMAP" \notin test_flags, basic_test_resize(r))
    \o do_unlink(IF r # 0 THEN dest(r) ELSE Orig) \o Barrier(600)

\* Every other slice.
write_slices(f) == Each(Blocks, LAMBDA b : Only(b % 2 = 0, write_at_file(f, b + 1)))
read_slices(f)  == Each(Blocks, LAMBDA b : Only(b % 2 = 0, read_at_file(f, b + 1)))

directio_test(r) ==
       Only(r = 0, prep_orig_file_dio(Orig))    \o Barrier(652)
    \o Only(r # 0, reflink(Orig, dest(r)))         \o Barrier(668)
    \o Only(r # 0, write_slices(dest(r))) \o Barrier(700)
    \o Only(r # 0, read_slices(dest(r)))  \o Barrier(730)
    \o Only(r # 0, append(dest(r)))                \o Barrier(763)
    \o Only(r # 0, truncate(dest(r), 0 .. Blocks)) \o Barrier(788)
    \o do_unlink(IF r # 0 THEN dest(r) ELSE Orig)  \o Barrier(804)

\* Rank 1 works on reflinks of the target, the others on those of the original.
comp_test(r) ==
       Only(r = 0, prep_orig_file(Orig) \o do_reflinks(Orig, OfOrig, 0) \o reflink(Orig, Target))
    \o Barrier(832)
    \o Only(r = 1, do_reflinks(Target, OfTarget, 0) \o do_cows_on_write(OfTarget) \o do_unlinks(OfTarget))
    \o Only(r % 6 = 2, do_cows_on_write(OfOrig))
    \o Only(r % 6 = 3, do_reads_on_reflinks(OfOrig))
    \o Only(r % 6 = 4, do_appends(OfOrig))
    \o Only(r % 6 = 5, do_cows_on_ftruncate(OfOrig))
    \o Only(r = 0, Each(size, LAMBDA i : verify_orig_file))
    \o Barrier(886)
    \o Only(r = 0, verify_orig_file \o do_unlinks(OfOrig) \o do_unlink(Orig) \o do_unlink(Target))
    \o Barrier(900)

-----------------------------------------------------------------------------
(* Extended attributes. *)

do_xattr_cows(pfx) ==
    Each(ref_counts, LAMBDA i : add_or_update_ea(File(pfx, i), {Built, Plain}, {-1, 0}))

do_xattr_reads(pfx) == Each(ref_counts, LAMBDA i : <<On("readea", File(pfx, i), {-1, 0})>>)

\* Removes the attribute and, half of the time, adds it again.
do_xattr_removes(pfx) ==
    Each(ref_counts, LAMBDA i :
        add_or_update_ea(File(pfx, i), {Absent, Built, Plain}, {-1, 0}))

\* When open fails, the list of the file before is compared once more.
do_xattr_lists(pfx) == Each(ref_counts, LAMBDA i : <<On("listea", File(pfx, i), {-1, 0})>>)

\* A failing open ends the function with the result of the file before; a failing update
\* ends this file's turn, and is returned if this is the last file.
do_xattr_data_cows(pfx) ==
    Each(ref_counts, LAMBDA i :
           add_or_update_ea(File(pfx, i), {Built, Plain},
                            {IF i = ref_counts - 1 THEN -1 ELSE 2, 2 + 3 * (ref_counts - 1 - i)})
        \o read_ea_and_validate(File(pfx, i))
        \o write_at_file(File(pfx, i), 1))

\* Rank 0 makes up a name and sends it to everyone.
xattr_names(r) ==
    IF r = 0 THEN Each(size - 1, LAMBDA j : Send(j + 1)) ELSE Recv(0)

xattr_roles(r) ==
       Only(r % 6 = 1, do_reflinks(Target, OfTarget, 0) \o do_xattr_cows(OfTarget) \o do_unlinks(OfTarget))
    \o Only(r % 6 = 2, do_xattr_cows(OfOrig))
    \o Only(r % 6 = 3, do_xattr_data_cows(OfOrig))
    \o Only(r % 6 = 4, do_xattr_reads(OfOrig))
    \o Only(r % 6 = 5, do_xattr_lists(OfOrig))

xattr_basic_test(r) ==
       Only(r = 0, prep_orig_file(Orig)) \o Barrier(1183)
    \o xattr_names(r)                    \o Barrier(1226)
    \o Only(r = 0, add_or_update_ea(Orig, {Built}, Aborts) \o read_ea_and_validate(Orig)
                      \o do_reflinks(Orig, OfOrig, 0) \o reflink(Orig, Target))
    \o Barrier(1255)
    \o xattr_roles(r)                    \o Barrier(1305)
    \o Only(r = 0, do_xattr_removes(OfOrig)) \o Barrier(1316)
    \o Only(r = 0, do_unlinks(OfOrig) \o do_unlink(Target) \o do_unlink(Orig))

xattr_test(r) == xattr_basic_test(r) \o xattr_basic_test(r)

-----------------------------------------------------------------------------
(* stress_test: many trees, many reflinks of one tree, a chain of reflinks. *)

\* if (get_rand(0, 1)) continue;
Perhaps(s) == <<[op |-> "coin", n |-> Len(s)]>> \o s

Tree(r, i) == <<"tree", r, i>>
TreeTarget(r, i) == <<"treetarget", r, i>>

stress_trees(r) ==
       Each(ref_trees, LAMBDA i : prep_orig_file(Tree(r, i)) \o reflink(Tree(r, i), TreeTarget(r, i)))
    \o Each(ref_trees, LAMBDA i : write_at_file(TreeTarget(r, i), 1))
    \o Each(ref_trees, LAMBDA i : do_unlink(Tree(r, i)) \o do_unlink(TreeTarget(r, i)))
    \o Barrier(1406)

Shared(r) == <<"shared", r, 0>>

stress_inodes(r) ==
       Only(r = 0, prep_orig_file(Orig)
                     \o Each(size - 1, LAMBDA i : reflink(Orig, Shared(i + 1))))
    \o Barrier(1429)
    \o Only(r # 0, do_reflinks(Shared(r), Mine(r), 1)
                     \o Each(ref_counts, LAMBDA i : Perhaps(write_at_file(File(Mine(r), i), 1))))
    \o Barrier(1461)
    \o Only(r # 0, Each(ref_counts, LAMBDA i : Perhaps(truncate(File(Mine(r), i), {0}))))
    \o Barrier(1481)
    \o (IF r # 0 THEN do_unlinks(Mine(r))
        ELSE Each(size - 1, LAMBDA i : do_unlink(Shared(i + 1))) \o do_unlink(Orig))
    \o Barrier(1505)

\* A reflink of the one before, which is read, and read again after a write to the new one.
Link(r, i) == IF i = 0 THEN Orig ELSE <<"link", r, i>>
chain_link(r, b) ==
       reflink(Link(r, b), Link(r, b + 1))
    \o <<On("remember", Link(r, b), Aborts)>>
    \o write_at_file(Link(r, b + 1), b + 1)
    \o <<On("compare", Link(r, b), Aborts)>>

stress_huge(r) ==
       Only(r = 0, prep_orig_file(Orig) \o reflink(Orig, Target))
    \o Barrier(1524)
    \o Only(r # 0, Each(Blocks, LAMBDA b : chain_link(r, b))
                     \o Each(Blocks, LAMBDA b : do_unlink(Link(r, b + 1)))
                     \o Pass(write_at_file, Target))
    \o Barrier(1609)
    \o Only(r = 0, do_unlink(Target) \o do_unlink(Orig))

\* The other ranks reflink and unlink until the node they run on is brought down.
dest_test(r) ==
       Only(r = 0, prep_orig_file(Orig)) \o Barrier(1669)
    \o Only(r # 0, reflink(Orig, dest(r)) \o do_unlink(dest(r))
                     \o <<[op |-> "loop", n |-> 2]>>)
    \o Barrier(1689)
    \o Only(r = 0, verify_orig_file \o do_unlink(Orig))

run_test(r) ==
       Only("BASC" \in test_flags, basic_test(r))
    \o Only("RAND" \in test_flags, basic_test(r))
    \o Only("MMAP" \in test_flags, basic_test(r))
    \o Only("ODCT" \in test_flags, directio_test(r))
    \o Only("XATR" \in test_flags, xattr_test(r))
    \o Only("STRS" \in test_flags, stress_trees(r) \o stress_inodes(r) \o stress_huge(r))
    \o Only("DEST" \in test_flags, dest_test(r))
    \o Only("COMP" \in test_flags, comp_test(r))

text == [r \in 0 .. size - 1 |-> Barrier(282) \o run_test(r)]
=============================================================================
