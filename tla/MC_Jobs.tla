------------------------------- MODULE MC_Jobs -------------------------------
(***************************************************************************)
(* Model checking of the MPI programs whose ranks follow a script.  "what" *)
(* chooses the instance:                                                   *)
(*   reflink_*  multi_reflink_test, one test each; six ranks are the least *)
(*              for every role of comp_test;                               *)
(*   inline_*   multi-inline-dirs with one rank and with two ranks at work *)
(*              on the directory of rank 0;                                *)
(*   index_*    multi_index_dir, likewise; two instances of it have two    *)
(*              tests in a row, the second of which finds a directory;     *)
(*   data_*     multi-inline-data, with and without the ioctls for         *)
(*              reserving space;                                           *)
(*   ea_*       xattr-multi-test with its options;                         *)
(*   quota_*    quota_multi_tests: three ranks; two ranks with room        *)
(*              between the soft and the hard limit; two rounds.           *)
(***************************************************************************)
EXTENDS Integers

CONSTANT What    \* the instances of this run

VARIABLES what, pc, epoch, mail, aborted,
          files, mem, fault,
          dirents, num_dirents, disk, at, said,
          pattern, eas, there,
          quota, real, igrace, late, made, removed, leftover, reg, clusters, workplace

mpi == <<pc, epoch, mail, aborted>>
reflink == <<files, mem, fault>>
table == <<dirents, num_dirents, disk, at>>
small == <<pattern, eas, there>>
quotas == <<quota, real, igrace, late, made, removed, leftover, reg, clusters, workplace>>
vars == <<what, mpi, reflink, table, said, small, quotas>>

-----------------------------------------------------------------------------
(* Each script is a definition of this module: TLC computes it once. *)

BasicText == INSTANCE MultiReflinkScript WITH test_flags <- {"BASC"}, size <- 3,
             ref_counts <- 2, ref_trees <- 1, Blocks <- 2, script <- <<>>, Sync <- FALSE
BasicScript == BasicText!text
Basic == INSTANCE ReflinkFiles WITH size <- 3, script <- BasicScript, Sync <- FALSE, test_flags <- {"BASC"},
             ref_counts <- 2, ref_trees <- 1, Blocks <- 2, Faults <- {"none", "leak", "shrink", "call"}

MmapText == INSTANCE MultiReflinkScript WITH test_flags <- {"MMAP"}, size <- 3,
             ref_counts <- 2, ref_trees <- 1, Blocks <- 2, script <- <<>>, Sync <- FALSE
MmapScript == MmapText!text
Mmap == INSTANCE ReflinkFiles WITH size <- 3, script <- MmapScript, Sync <- FALSE, test_flags <- {"MMAP"},
             ref_counts <- 2, ref_trees <- 1, Blocks <- 2, Faults <- {"none", "leak", "call"}

DirectText == INSTANCE MultiReflinkScript WITH test_flags <- {"ODCT"}, size <- 3,
             ref_counts <- 2, ref_trees <- 1, Blocks <- 2, script <- <<>>, Sync <- FALSE
DirectScript == DirectText!text
Direct == INSTANCE ReflinkFiles WITH size <- 3, script <- DirectScript, Sync <- FALSE, test_flags <- {"ODCT"},
             ref_counts <- 2, ref_trees <- 1, Blocks <- 2, Faults <- {"none", "call"}

XattrText == INSTANCE MultiReflinkScript WITH test_flags <- {"XATR"}, size <- 4,
             ref_counts <- 1, ref_trees <- 1, Blocks <- 1, script <- <<>>, Sync <- FALSE
XattrScript == XattrText!text
Xattr == INSTANCE ReflinkFiles WITH size <- 4, script <- XattrScript, Sync <- TRUE, test_flags <- {"XATR"},
             ref_counts <- 1, ref_trees <- 1, Blocks <- 1, Faults <- {"none", "call"}

StressText == INSTANCE MultiReflinkScript WITH test_flags <- {"STRS"}, size <- 2,
             ref_counts <- 2, ref_trees <- 1, Blocks <- 2, script <- <<>>, Sync <- FALSE
StressScript == StressText!text
Stress == INSTANCE ReflinkFiles WITH size <- 2, script <- StressScript, Sync <- FALSE, test_flags <- {"STRS"},
             ref_counts <- 2, ref_trees <- 1, Blocks <- 2, Faults <- {"none", "call"}

DestroyText == INSTANCE MultiReflinkScript WITH test_flags <- {"DEST"}, size <- 3,
             ref_counts <- 2, ref_trees <- 1, Blocks <- 2, script <- <<>>, Sync <- FALSE
DestroyScript == DestroyText!text
Destroy == INSTANCE ReflinkFiles WITH size <- 3, script <- DestroyScript, Sync <- FALSE, test_flags <- {"DEST"},
             ref_counts <- 2, ref_trees <- 1, Blocks <- 2, Faults <- {"none", "call"}

CompText == INSTANCE MultiReflinkScript WITH test_flags <- {"COMP"}, size <- 6,
             ref_counts <- 2, ref_trees <- 1, Blocks <- 2, script <- <<>>, Sync <- FALSE
CompScript == CompText!text
Comp == INSTANCE ReflinkFiles WITH size <- 6, script <- CompScript, Sync <- FALSE, test_flags <- {"COMP"},
             ref_counts <- 2, ref_trees <- 1, Blocks <- 2, Faults <- {"none", "leak"}

InlineOneText == INSTANCE MultiInlineDirs WITH script <- <<>>, size <- 2, operated_entries <- 2,
             Entries <- 4, Sync <- FALSE
InlineOneScript == InlineOneText!text
InlineOne == INSTANCE MultiInlineDirs WITH script <- InlineOneScript, size <- 2,
             operated_entries <- 2, Entries <- 4, Sync <- FALSE

InlineTwoText == INSTANCE MultiInlineDirs WITH script <- <<>>, size <- 3, operated_entries <- 1,
             Entries <- 3, Sync <- FALSE
InlineTwoScript == InlineTwoText!text
InlineTwo == INSTANCE MultiInlineDirs WITH script <- InlineTwoScript, size <- 3,
             operated_entries <- 1, Entries <- 3, Sync <- FALSE

IndexGrowText == INSTANCE MultiIndexDir WITH script <- <<>>, size <- 2, operated_entries <- 2,
             test_flags <- {"GROW", "STRS"}, Sync <- FALSE, MAX_DIRENTS <- 5, RandNames <- 2
IndexGrowScript == IndexGrowText!text
IndexGrow == INSTANCE MultiIndexDir WITH script <- IndexGrowScript, size <- 2,
             operated_entries <- 2, test_flags <- {"GROW", "STRS"}, Sync <- FALSE, MAX_DIRENTS <- 5,
             RandNames <- 2

IndexOneText == INSTANCE MultiIndexDir WITH script <- <<>>, size <- 2, operated_entries <- 4,
             test_flags <- {"RENM", "READ", "ULNK", "FLUP", "STRS"}, Sync <- FALSE,
             MAX_DIRENTS <- 9, RandNames <- 3
IndexOneScript == IndexOneText!text
IndexOne == INSTANCE MultiIndexDir WITH script <- IndexOneScript, size <- 2, operated_entries <- 4,
             test_flags <- {"RENM", "READ", "ULNK", "FLUP", "STRS"}, Sync <- FALSE,
             MAX_DIRENTS <- 9, RandNames <- 3

IndexGrowTwoText == INSTANCE MultiIndexDir WITH script <- <<>>, size <- 3, operated_entries <- 2,
             test_flags <- {"GROW"}, Sync <- FALSE, MAX_DIRENTS <- 7, RandNames <- 2
IndexGrowTwoScript == IndexGrowTwoText!text
IndexGrowTwo == INSTANCE MultiIndexDir WITH script <- IndexGrowTwoScript, size <- 3,
             operated_entries <- 2, test_flags <- {"GROW"}, Sync <- FALSE, MAX_DIRENTS <- 7,
             RandNames <- 2

IndexRenameTwoText == INSTANCE MultiIndexDir WITH script <- <<>>, size <- 3, operated_entries <- 3,
             test_flags <- {"RENM"}, Sync <- FALSE, MAX_DIRENTS <- 10, RandNames <- 2
IndexRenameTwoScript == IndexRenameTwoText!text
IndexRenameTwo == INSTANCE MultiIndexDir WITH script <- IndexRenameTwoScript, size <- 3,
             operated_entries <- 3, test_flags <- {"RENM"}, Sync <- FALSE, MAX_DIRENTS <- 10,
             RandNames <- 2

IndexUnlinkTwoText == INSTANCE MultiIndexDir WITH script <- <<>>, size <- 3, operated_entries <- 3,
             test_flags <- {"ULNK", "FLUP"}, Sync <- FALSE, MAX_DIRENTS <- 10, RandNames <- 2
IndexUnlinkTwoScript == IndexUnlinkTwoText!text
IndexUnlinkTwo == INSTANCE MultiIndexDir WITH script <- IndexUnlinkTwoScript, size <- 3,
             operated_entries <- 3, test_flags <- {"ULNK", "FLUP"}, Sync <- FALSE,
             MAX_DIRENTS <- 10, RandNames <- 2

DataText == INSTANCE MultiInlineData WITH script <- <<>>, size <- 3, max_inline_size <- 4,
             PATTERN_SZ <- 9, Sync <- FALSE, blocksize <- 5, HasIoctl <- TRUE,
             Faults <- {"none", "call", "rot"}
DataScript == DataText!text
Data == INSTANCE MultiInlineData WITH script <- DataScript, size <- 3, max_inline_size <- 4,
             PATTERN_SZ <- 9, Sync <- FALSE, blocksize <- 5, HasIoctl <- TRUE,
             Faults <- {"none", "call", "rot"}

DataOldText == INSTANCE MultiInlineData WITH script <- <<>>, size <- 2, max_inline_size <- 4,
             PATTERN_SZ <- 9, Sync <- TRUE, blocksize <- 5, HasIoctl <- FALSE,
             Faults <- {"none", "call", "rot"}
DataOldScript == DataOldText!text
DataOld == INSTANCE MultiInlineData WITH script <- DataOldScript, size <- 2, max_inline_size <- 4,
             PATTERN_SZ <- 9, Sync <- TRUE, blocksize <- 5, HasIoctl <- FALSE,
             Faults <- {"none", "call", "rot"}

EaFaults == {"none", "call", "forget", "spoil", "drop", "stay"}

EaAllText == INSTANCE XattrMulti WITH script <- <<>>, size <- 3, iter_nums <- 1, xattr_nums <- 2,
             only_do_add_test <- FALSE, do_list <- TRUE, keep_ea <- FALSE, NumberKept <- TRUE,
             Sync <- FALSE, ft <- "normal", Left <- {<<9, 0>>}, Faults <- EaFaults
EaAllScript == EaAllText!text
EaAll == INSTANCE XattrMulti WITH script <- EaAllScript, size <- 3, iter_nums <- 1, xattr_nums <- 2,
             only_do_add_test <- FALSE, do_list <- TRUE, keep_ea <- FALSE, NumberKept <- TRUE,
             Sync <- FALSE, ft <- "normal", Left <- {<<9, 0>>}, Faults <- EaFaults

EaKeepText == INSTANCE XattrMulti WITH script <- <<>>, size <- 2, iter_nums <- 2, xattr_nums <- 2,
             only_do_add_test <- FALSE, do_list <- FALSE, keep_ea <- TRUE, NumberKept <- TRUE,
             Sync <- TRUE, ft <- "directory", Left <- {}, Faults <- EaFaults
EaKeepScript == EaKeepText!text
EaKeep == INSTANCE XattrMulti WITH script <- EaKeepScript, size <- 2, iter_nums <- 2,
             xattr_nums <- 2, only_do_add_test <- FALSE, do_list <- FALSE, keep_ea <- TRUE,
             NumberKept <- TRUE, Sync <- TRUE, ft <- "directory", Left <- {}, Faults <- EaFaults

EaAddText == INSTANCE XattrMulti WITH script <- <<>>, size <- 3, iter_nums <- 1, xattr_nums <- 2,
             only_do_add_test <- TRUE, do_list <- FALSE, keep_ea <- FALSE, NumberKept <- TRUE,
             Sync <- FALSE, ft <- "normal", Left <- {<<1, 0>>}, Faults <- EaFaults
EaAddScript == EaAddText!text
EaAdd == INSTANCE XattrMulti WITH script <- EaAddScript, size <- 3, iter_nums <- 1, xattr_nums <- 2,
             only_do_add_test <- TRUE, do_list <- FALSE, keep_ea <- FALSE, NumberKept <- TRUE,
             Sync <- FALSE, ft <- "normal", Left <- {<<1, 0>>}, Faults <- EaFaults

EaCutText == INSTANCE XattrMulti WITH script <- <<>>, size <- 2, iter_nums <- 1, xattr_nums <- 2,
             only_do_add_test <- TRUE, do_list <- FALSE, keep_ea <- FALSE, NumberKept <- FALSE,
             Sync <- FALSE, ft <- "symlink", Left <- {}, Faults <- EaFaults
EaCutScript == EaCutText!text
EaCut == INSTANCE XattrMulti WITH script <- EaCutScript, size <- 2, iter_nums <- 1, xattr_nums <- 2,
             only_do_add_test <- TRUE, do_list <- FALSE, keep_ea <- FALSE, NumberKept <- FALSE,
             Sync <- FALSE, ft <- "symlink", Left <- {}, Faults <- EaFaults

QuotaThreeText == INSTANCE QuotaScript WITH size <- 3, iterations <- 1, user_nums <- 1, group_nums <- 1,
             isoftlimit <- 1, bhardlimit <- 2, user_num <- 2, rm_nums <- 1
QuotaThreeScript == QuotaThreeText!script
QuotaThree == INSTANCE QuotaMulti WITH size <- 3, script <- QuotaThreeScript, Sync <- FALSE,
             isoftlimit <- 1, bhardlimit <- 2, rm_nums <- 1, Faults <- {"none"}

QuotaTwoText == INSTANCE QuotaScript WITH size <- 2, iterations <- 1, user_nums <- 1, group_nums <- 1,
             isoftlimit <- 2, bhardlimit <- 2, user_num <- 2, rm_nums <- 2
QuotaTwoScript == QuotaTwoText!script
QuotaTwo == INSTANCE QuotaMulti WITH size <- 2, script <- QuotaTwoScript, Sync <- TRUE,
             isoftlimit <- 2, bhardlimit <- 2, rm_nums <- 2, Faults <- {"none", "call", "unset", "miscount"}

QuotaAgainText == INSTANCE QuotaScript WITH size <- 2, iterations <- 2, user_nums <- 1, group_nums <- 1,
             isoftlimit <- 1, bhardlimit <- 2, user_num <- 2, rm_nums <- 1
QuotaAgainScript == QuotaAgainText!script
QuotaAgain == INSTANCE QuotaMulti WITH size <- 2, script <- QuotaAgainScript, Sync <- FALSE,
             isoftlimit <- 1, bhardlimit <- 2, rm_nums <- 1, Faults <- {"none"}

ASSUME Basic!ConstantsOK /\ Mmap!ConstantsOK /\ Direct!ConstantsOK /\ Xattr!ConstantsOK
    /\ Stress!ConstantsOK /\ Destroy!ConstantsOK /\ Comp!ConstantsOK
ASSUME InlineOne!ConstantsOK /\ InlineTwo!ConstantsOK
ASSUME IndexGrow!ConstantsOK /\ IndexOne!ConstantsOK /\ IndexGrowTwo!ConstantsOK
    /\ IndexRenameTwo!ConstantsOK /\ IndexUnlinkTwo!ConstantsOK
ASSUME Data!ConstantsOK /\ DataOld!ConstantsOK
ASSUME EaAll!ConstantsOK /\ EaKeep!ConstantsOK /\ EaAdd!ConstantsOK /\ EaCut!ConstantsOK
ASSUME QuotaThree!ConstantsOK /\ QuotaTwo!ConstantsOK /\ QuotaAgain!ConstantsOK

-----------------------------------------------------------------------------
IdleReflink == files = <<>> /\ mem = <<>> /\ fault = "none"
IdleTable == dirents = <<>> /\ num_dirents = 0 /\ disk = {} /\ at = <<>>
IdleEas == eas = <<>> /\ there = FALSE
IdleQuota ==
    /\ quota = <<>> /\ real = <<>> /\ igrace = FALSE /\ late = {} /\ made = {} /\ removed = {}
    /\ leftover = FALSE /\ reg = <<>> /\ clusters = 0 /\ workplace = FALSE

OnlyReflink == IdleTable /\ said = {} /\ pattern = <<>> /\ IdleEas /\ IdleQuota
OnlyIndex == IdleReflink /\ pattern = <<>> /\ IdleEas /\ IdleQuota
OnlyInline == OnlyIndex /\ said = {}
OnlyData == mem = <<>> /\ IdleTable /\ said = {} /\ IdleEas /\ IdleQuota
OnlyEas == files = <<>> /\ mem = <<>> /\ IdleTable /\ said = {} /\ pattern = <<>> /\ IdleQuota
OnlyQuota == files = <<>> /\ mem = <<>> /\ IdleTable /\ said = {} /\ pattern = <<>> /\ IdleEas

Init ==
    /\ what \in What
    /\ \/ what = "reflink_basic" /\ Basic!Init /\ OnlyReflink
       \/ what = "reflink_mmap" /\ Mmap!Init /\ OnlyReflink
       \/ what = "reflink_directio" /\ Direct!Init /\ OnlyReflink
       \/ what = "reflink_xattr" /\ Xattr!Init /\ OnlyReflink
       \/ what = "reflink_stress" /\ Stress!Init /\ OnlyReflink
       \/ what = "reflink_destroy" /\ Destroy!Init /\ OnlyReflink
       \/ what = "reflink_comp" /\ Comp!Init /\ OnlyReflink
       \/ what = "inline_one" /\ InlineOne!Init /\ OnlyInline
       \/ what = "inline_two" /\ InlineTwo!Init /\ OnlyInline
       \/ what = "index_grow" /\ IndexGrow!Init /\ OnlyIndex
       \/ what = "index_one" /\ IndexOne!Init /\ OnlyIndex
       \/ what = "index_grow_two" /\ IndexGrowTwo!Init /\ OnlyIndex
       \/ what = "index_rename_two" /\ IndexRenameTwo!Init /\ OnlyIndex
       \/ what = "index_unlink_two" /\ IndexUnlinkTwo!Init /\ OnlyIndex
       \/ what = "data_ioctl" /\ Data!Init /\ OnlyData
       \/ what = "data_enotty" /\ DataOld!Init /\ OnlyData
       \/ what = "ea_all" /\ EaAll!Init /\ OnlyEas
       \/ what = "ea_keep" /\ EaKeep!Init /\ OnlyEas
       \/ what = "ea_add" /\ EaAdd!Init /\ OnlyEas
       \/ what = "ea_cut" /\ EaCut!Init /\ OnlyEas
       \/ what = "quota_three" /\ QuotaThree!Init /\ OnlyQuota
       \/ what = "quota_two" /\ QuotaTwo!Init /\ OnlyQuota
       \/ what = "quota_again" /\ QuotaAgain!Init /\ OnlyQuota

RestReflink == UNCHANGED <<what, table, said, small, quotas>>
RestInline == UNCHANGED <<what, reflink, said, small, quotas>>
RestIndex == UNCHANGED <<what, reflink, small, quotas>>
RestData == UNCHANGED <<what, mem, table, said, eas, there, quotas>>
RestEas == UNCHANGED <<what, files, mem, table, said, pattern, quotas>>
RestQuota == UNCHANGED <<what, files, mem, table, said, small>>

\* The job is over, or in one of the two hangs of the code that NobodyLeftBehind names.
Over ==
    \/ what = "reflink_basic" /\ Basic!Over
    \/ what = "reflink_mmap" /\ Mmap!Over
    \/ what = "reflink_directio" /\ Direct!Over
    \/ what = "reflink_xattr" /\ Xattr!Over
    \/ what = "reflink_stress" /\ Stress!Over
    \/ what = "reflink_destroy" /\ Destroy!Over
    \/ what = "reflink_comp" /\ Comp!Over
    \/ what = "inline_one" /\ InlineOne!Over
    \/ what = "inline_two" /\ InlineTwo!Over
    \/ what = "index_grow" /\ IndexGrow!Over
    \/ what = "index_one" /\ IndexOne!Over
    \/ what = "index_grow_two" /\ IndexGrowTwo!Over
    \/ what = "index_rename_two" /\ IndexRenameTwo!Over
    \/ what = "index_unlink_two" /\ IndexUnlinkTwo!Over
    \/ what = "data_ioctl" /\ Data!Over
    \/ what = "data_enotty" /\ DataOld!Over
    \/ what = "ea_all" /\ EaAll!Over
    \/ what = "ea_keep" /\ EaKeep!Over
    \/ what = "ea_add" /\ EaAdd!Over
    \/ what = "ea_cut" /\ EaCut!Over
    \/ what = "quota_three" /\ QuotaThree!Over
    \/ what = "quota_two" /\ QuotaTwo!Over
    \/ what = "quota_again" /\ QuotaAgain!Over

Next ==
    \/ what = "reflink_basic" /\ Basic!Next /\ RestReflink
    \/ what = "reflink_mmap" /\ Mmap!Next /\ RestReflink
    \/ what = "reflink_directio" /\ Direct!Next /\ RestReflink
    \/ what = "reflink_xattr" /\ Xattr!Next /\ RestReflink
    \/ what = "reflink_stress" /\ Stress!Next /\ RestReflink
    \/ what = "reflink_destroy" /\ Destroy!Next /\ RestReflink
    \/ what = "reflink_comp" /\ Comp!Next /\ RestReflink
    \/ what = "inline_one" /\ InlineOne!Next /\ RestInline
    \/ what = "inline_two" /\ InlineTwo!Next /\ RestInline
    \/ what = "index_grow" /\ IndexGrow!Next /\ RestIndex
    \/ what = "index_one" /\ IndexOne!Next /\ RestIndex
    \/ what = "index_grow_two" /\ IndexGrowTwo!Next /\ RestIndex
    \/ what = "index_rename_two" /\ IndexRenameTwo!Next /\ RestIndex
    \/ what = "index_unlink_two" /\ IndexUnlinkTwo!Next /\ RestIndex
    \/ what = "data_ioctl" /\ Data!Next /\ RestData
    \/ what = "data_enotty" /\ DataOld!Next /\ RestData
    \/ what = "ea_all" /\ EaAll!Next /\ RestEas
    \/ what = "ea_keep" /\ EaKeep!Next /\ RestEas
    \/ what = "ea_add" /\ EaAdd!Next /\ RestEas
    \/ what = "ea_cut" /\ EaCut!Next /\ RestEas
    \/ what = "quota_three" /\ QuotaThree!Next /\ RestQuota
    \/ what = "quota_two" /\ QuotaTwo!Next /\ RestQuota
    \/ what = "quota_again" /\ QuotaAgain!Next /\ RestQuota
    \/ Over /\ UNCHANGED vars

Spec == Init /\ [][Next]_vars

-----------------------------------------------------------------------------
\* No rank waits in a barrier for ranks that wait in another one, for a message nobody sends,
\* or with a message nobody takes: the scripts meet in the same calls of MPI_Barrier, MPI_Isend
\* and MPI_Irecv on every path a failing call can send a rank down.  Two hangs are excepted,
\* each where it is and nowhere else: without the ioctls rank 0 of multi-inline-data waits in
\* large_reservation for patterns that are not sent (multi-inline-data.c:899), and a rank of
\* comp_test of multi_reflink_test reads for ever a file that another one has truncated.
\* Tables, names and file contents stay within their types.
NobodyLeftBehind ==
    /\ what = "reflink_basic" => Basic!TypeOK /\ Basic!NobodyLeftBehind
    /\ what = "reflink_mmap" => Mmap!TypeOK /\ Mmap!NobodyLeftBehind
    /\ what = "reflink_directio" => Direct!TypeOK /\ Direct!NobodyLeftBehind
    /\ what = "reflink_xattr" => Xattr!TypeOK /\ Xattr!NobodyLeftBehind
    /\ what = "reflink_stress" => Stress!TypeOK /\ Stress!NobodyLeftBehind
    /\ what = "reflink_destroy" => Destroy!TypeOK /\ Destroy!NobodyLeftBehind
    /\ what = "reflink_comp" => Comp!TypeOK /\ Comp!NobodyLeftBehind
    /\ what = "inline_one" => InlineOne!TypeOK /\ InlineOne!NobodyLeftBehind
    /\ what = "inline_two" => InlineTwo!TypeOK /\ InlineTwo!NobodyLeftBehind
    /\ what = "index_grow" => IndexGrow!TypeOK /\ IndexGrow!NobodyLeftBehind
    /\ what = "index_one" => IndexOne!TypeOK /\ IndexOne!NobodyLeftBehind
    /\ what = "index_grow_two" => IndexGrowTwo!TypeOK /\ IndexGrowTwo!NobodyLeftBehind
    /\ what = "index_rename_two" => IndexRenameTwo!TypeOK /\ IndexRenameTwo!NobodyLeftBehind
    /\ what = "index_unlink_two" => IndexUnlinkTwo!TypeOK /\ IndexUnlinkTwo!NobodyLeftBehind
    /\ what = "data_ioctl" => Data!TypeOK /\ Data!NobodyLeftBehind
    /\ what = "data_enotty" => DataOld!TypeOK /\ DataOld!NobodyLeftBehind
    /\ what = "ea_all" => EaAll!TypeOK /\ EaAll!NobodyLeftBehind
    /\ what = "ea_keep" => EaKeep!TypeOK /\ EaKeep!NobodyLeftBehind
    /\ what = "ea_add" => EaAdd!TypeOK /\ EaAdd!NobodyLeftBehind
    /\ what = "ea_cut" => EaCut!TypeOK /\ EaCut!NobodyLeftBehind
    /\ what = "quota_three" => QuotaThree!TypeOK /\ QuotaThree!NobodyLeftBehind
    /\ what = "quota_two" => QuotaTwo!TypeOK /\ QuotaTwo!NobodyLeftBehind
    /\ what = "quota_again" => QuotaAgain!TypeOK /\ QuotaAgain!NobodyLeftBehind

\* With a file system that works no test of multi_reflink_test is aborted, but for the validator
\* of do_xattr_data_cows, which reads an attribute another rank is updating; multi-inline-dirs
\* with one rank at work is aborted only by a rank that looks at a directory rank 0 has removed;
\* multi_index_dir only when a test before has left its directory behind.  multi-inline-data
\* passes; xattr-multi-test fails on what an earlier run left on its file, or when the names of
\* -o are cut off; quota_multi_tests in the five cases named in QuotaMulti.
NoFalseAlarm ==
    /\ what = "reflink_basic" => Basic!NoFalseAlarm
    /\ what = "reflink_mmap" => Mmap!NoFalseAlarm
    /\ what = "reflink_directio" => Direct!NoFalseAlarm
    /\ what = "reflink_xattr" => Xattr!NoFalseAlarm
    /\ what = "reflink_stress" => Stress!NoFalseAlarm
    /\ what = "reflink_destroy" => Destroy!NoFalseAlarm
    /\ what = "reflink_comp" => Comp!NoFalseAlarm
    /\ what = "inline_one" => InlineOne!OnlyLateLookAborts
    /\ what = "index_grow" => IndexGrow!OnlyLeftoversAbort
    /\ what = "index_one" => IndexOne!OnlyLeftoversAbort
    /\ what = "index_grow_two" => IndexGrowTwo!OnlyLeftoversAbort
    /\ what = "index_rename_two" => IndexRenameTwo!OnlyLeftoversAbort
    /\ what = "index_unlink_two" => IndexUnlinkTwo!OnlyLeftoversAbort
    /\ what = "data_ioctl" => Data!NoFalseAlarm
    /\ what = "data_enotty" => DataOld!NoFalseAlarm
    /\ what = "ea_all" => EaAll!NoFalseAlarm
    /\ what = "ea_keep" => EaKeep!NoFalseAlarm
    /\ what = "ea_add" => EaAdd!NoFalseAlarm
    /\ what = "ea_cut" => EaCut!NoFalseAlarm
    /\ what = "quota_three" => QuotaThree!NoFalseAlarm
    /\ what = "quota_two" => QuotaTwo!NoFalseAlarm
    /\ what = "quota_again" => QuotaAgain!NoFalseAlarm

\* Damage does not pass unnoticed: in multi_reflink_test a write that went through to the
\* original, in multi-inline-data a unit stored wrong, in xattr-multi-test an attribute that
\* is lost, spoilt or not removed, in quota_multi_tests an inode or a cluster that is not
\* counted, each by the tests that look there.
DamageIsFound ==
    /\ what = "reflink_basic" => Basic!LeakIsFound
    /\ what = "reflink_mmap" => Mmap!LeakIsFound
    /\ what = "reflink_comp" => Comp!LeakIsFound
    /\ what = "data_ioctl" => Data!RotIsFound
    /\ what = "data_enotty" => DataOld!RotIsFound
    /\ what = "ea_all" => EaAll!FaultIsFound
    /\ what = "ea_keep" => EaKeep!FaultIsFound
    /\ what = "ea_add" => EaAdd!FaultIsFound
    /\ what = "ea_cut" => EaCut!FaultIsFound
    /\ what = "quota_three" => QuotaThree!MiscountIsFound
    /\ what = "quota_two" => QuotaTwo!MiscountIsFound
    /\ what = "quota_again" => QuotaAgain!MiscountIsFound

\* The table says what is in the directory when rank 0 compares the two: in multi-inline-dirs
\* with one rank at work, or two that unlink and fill; in multi_index_dir with any number that
\* unlink and fill, or one that adds or renames.  The table of removed files of
\* quota_multi_tests, filled in too early, is wrong by one file at most.
TableKept ==
    /\ what = "inline_one" => InlineOne!TableKept
    /\ what = "inline_two" => InlineTwo!TableKept
    /\ what = "index_grow" => IndexGrow!TableKept
    /\ what = "index_one" => IndexOne!TableKept
    /\ what = "index_grow_two" => IndexGrowTwo!TableKept
    /\ what = "index_rename_two" => IndexRenameTwo!TableKept
    /\ what = "index_unlink_two" => IndexUnlinkTwo!TableKept
    /\ what = "quota_three" => QuotaThree!AtMostOneLeft
    /\ what = "quota_two" => QuotaTwo!AtMostOneLeft
    /\ what = "quota_again" => QuotaAgain!AtMostOneLeft

\* multi_index_dir.c:1059 prints "All File I/O Tests Passed" only if no verification failed.
PassedMeansVerified ==
    /\ what = "index_grow" => IndexGrow!PassedMeansVerified
    /\ what = "index_one" => IndexOne!PassedMeansVerified
    /\ what = "index_grow_two" => IndexGrowTwo!PassedMeansVerified
    /\ what = "index_rename_two" => IndexRenameTwo!PassedMeansVerified
    /\ what = "index_unlink_two" => IndexUnlinkTwo!PassedMeansVerified
=============================================================================
