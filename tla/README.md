# A TLA+ model of ocfs2-test

ocfs2-test is a collection of programs that put load on an ocfs2 file system and
its distributed lock manager (DLM) from several processes or cluster nodes, and
that say whether what they see is right. A test program is correct when

* it raises no false alarm: with a correct file system, DLM and MPI library it
  never reports a failure, in any interleaving of its processes;
* it misses nothing it claims to check: what it accepts is right;
* it does not hang or end early, whichever process is slow, and does not leave
  the other processes behind when one of them gives up.

The modules state these three things program by program. The file system, the
DLM, the kernel's file locks and MPI are the environment; they are modelled from
how the programs use them (`external` entries of the map in `PROJECT.json`).

## 1. Inventory

`programs/` has 67 directories. They fall into these groups.

| group | programs | here |
|---|---|---|
| DLM tests (libo2dlm) | lvb_torture, lock_grab, o2dlm-polltest | the first two |
| MPI tests on shared files or directories | multi_mmap, flock_unit_test, multi_directio_test, write_append_truncate, multi_reflink_test, multi-inline-dirs, multi_index_dir, multi-inline-data, xattr-multi-test, quota_multi_tests, create_racer, open_delete, extend_and_write, multi_defrager | the first ten |
| process groups on one node | directio_test, forkwriter, write_torture, mmap_truncate, logwriter | directio_test |
| writer, log and verifier | fill_holes, punch_holes, verify_holes and fill_verify_holes.sh; verify_truncate | all |
| benchmark with its own processes, network protocol and verification | iozone | its three modes |
| helper library | libocfs2test | no |
| single-process system call tests | aio_direct, splice, sendfiletest, ttest, mmap_test, reserve_space, extendo, check_file_size_limits, create_and_open | no |
| scripts around mkfs, fsck, tunefs, mount and other tools | tunefs-test, fsck-tests, mkfs-tests, resize_test, backup_super, python_common and others | no |
| other third-party benchmarks | bonnie, fsx, postmark, aio-stress, dbench | no |

Outside `programs/` there are `utilities/mpi-run-parts`, which starts a directory
of tests on every rank, and `tests/`, `suites/`, `vendor/` with lists and packaging.
`PROJECT.json` names every one of these as a component, with the reason where it
is not modelled, and lists the hazards at the lines where they bite.

## 2. Modules and the code they model

A component's state is its program's variables and, per process, a program
counter at the granularity of the calls other processes can see. Library calls
that may fail do so nondeterministically where the code tests them.

| module | code | what its actions are |
|---|---|---|
| `MpiDlm` | MPI_Barrier, libo2dlm, byte order (external) | `epoch[r]` counts the barriers rank r has entered; r may leave one when every rank has entered it. `Grantable` is the EX/PR compatibility |
| `LvbTorture` | lvb_torture.c | clear_lock, the prep barrier, and the steps of run_test: lock, first barrier, compare, write, unlock, second barrier; signals and failing calls |
| `LockGrab` | lock_grab.c, run and below | choosing a direction and a number of locks, picking, PR lock and unlock with the two arrays, EX trylocks |
| `LockGrabArgs` | lock_grab.c, parse_args | options, clean-up of defaults, refusal |
| `DirectioVerify` | directio_utils.c | the chunk layout as a record of parts, and the decisions of verify_file |
| `DirectioChunk` | directio_utils.c, verify_file | verify_file applied to any mixture of parts of one chunk |
| `DirectioTest` | directio_test.c, directio_utils.c | the options of the command line are variables; children (semaphore, write in two halves, log, reset), log socket, SIGCHLD handler and waitpid; the verification record by record and chunk by chunk |
| `MultiDirectio` | multi_directio_test.c | setup, one_round_run, should_exit, test_runner |
| `WriteRecords` | fill_holes.h | write units and the file they make |
| `FillHoles`, `PunchHoles` | fill_holes.c, punch_holes.c | draw or replay a unit, log it, write or punch it |
| `VerifyHoles` | verify_holes.c | one action per record read, per step of an insertion into the extent tree, for the comparison, and for a call that fails |
| `WriteMap` | abstract | what verify_holes promises: the last record of the log that covers a byte decides it |
| `HolesPipeline` | fill_verify_holes.sh | composes FillHoles, a remount by a possibly faulty file system, and VerifyHoles |
| `VerifyTruncate` | verify_truncate.c | prepare, truncate, extend, compare clusters, compare the last one, unlink |
| `MultiMmap` | multi_mmap.c | prep_file, writers and readers of each block, error injection, abort |
| `FlockUnitTest` | flock_unit_test.c | the three test functions as sequences of calls, the kernel's flock and fcntl ownership, the alarm |
| `WriteAppendTruncate` | write_append_truncate.c | reset, race, check, broadcast, with a possibly faulty file system; a variable holds the job (ranks, sizes that may be drawn, what may go wrong) |
| `RankScript`, `MpiScript` | MPI_Barrier, MPI_Send, MPI_Recv (external) | a test as the sequence of calls each rank makes, and the meeting of ranks in barriers and messages |
| `MultiReflinkScript` | multi_reflink_test.c, reflink_test_utils.c, xattr_test_utils.c | the calls on files the tests are made of, and for each of the six tests the script of every rank |
| `ReflinkFiles` | the same | the files those calls work on: original and reflinks, their contents in three parts, attributes, and a file system that may let a write leak into the file it is shared with; failing calls, should_exit and abort |
| `SharedDirents` | multi-inline-dirs.c, multi_index_dir.c | the table of entries in shared memory, and the directory; looking up, system call and update are three steps |
| `MultiInlineDirs` | multi-inline-dirs.c | the scripts of the ranks, and the operations on table and directory |
| `MultiIndexDir` | multi_index_dir.c | the same for the indexed directories, where several ranks add entries |
| `MultiInlineData` | multi-inline-data.c, inline-data-utils.c | the seventeen tests of test_regular_file: a small file, and each rank's copy of the pattern, sent between rank 0 and the others |
| `XattrMulti` | xattr-multi-test.c, xattr-test-utils.c | one_round_run: the ranks add, update, read, list and remove attributes of one file |
| `QuotaScript`, `QuotaMulti` | quota_multi_tests.c | the script of every rank, and what its calls do to the quota, its limits and the grace time |
| `IozoneAuto` | iozone.c without -t | the sweep over file and record sizes, the tests of func[] record by record, the buffers of -m, verify_buffer, the result table with its limit, and the Excel report |
| `IozoneThroughput` | iozone.c with -t | the parent with its barrier flags, and the children's tests call by call: stop flag, short transfers, failing calls, interrupts |
| `IozoneDistributed` | iozone.c with -+m | master, its listener process, clients and their listeners; datagrams that are lost or overtaken, streams, interrupts |
| `LvbTorture_proofs`, `LockGrab_proofs`, `DirectioTest_proofs`, `DirectioRecords_proofs`, `HolesPipeline_proofs`, `PunchHoles_proofs` (with VerifyTruncate), `WriteAppendTruncate_proofs`, `MC_Mpi_proofs` | | the proofs (section 6) |

Data is abstracted to what the properties tell apart. A chunk of directio_test is
a record of its seven parts (the fill split into its first byte and the rest), with
a checksum that tells fill characters apart;
a block of multi_mmap is one character; a file of the hole programs is a function
from a few byte positions to characters. `w_len` keeps its width (`LenMod` stands
for 2^32) because a property depends on it, and the value that memcmp returns is
a choice between the sign and the difference because the code compares it with 1.

A file of multi_reflink_test is three parts (head, middle, tail), each holding the
mark of its last writer; a directory is a set of names; a record of iozone is a
number, and with -+d its place in the file. The pattern of multi-inline-data is a
sequence of units, each 0 or the number of the draw it comes from; an attribute has a
value that the validator accepts or one it does not; a quota counts inodes and clusters. Rates are named by the test and the
pass they belong to, so that a rate in the wrong column can be told.

The `MC_` modules check several small instances in one run. They declare the
variables of all instances and a variable `what` that chooses one in `Init`. A component
is extended, and then the choices differ in the variables that hold its arguments
(mode and number of chunks of directio_test, file size and iterations of the hole
programs), or it is instantiated once per choice of its constants; `ASSUME` evaluates the
constants' conditions (`ConstantsOK` and the like in each component). Where theorems are proved about
a component the MC module extends it (`LvbTorture`, `LockGrab`, `LockGrabArgs`, `DirectioTest`,
`DirectioChunk`, `HolesPipeline`, `PunchHoles`, `VerifyTruncate`, `MultiMmap`), or the
theorem is carried over to the MC module's specification (`MC_Mpi_proofs`), so that the run checks
the very definitions the proofs are about.

## 3. Runs that pass

Each property below has a mutant in `PROJECT.json`: a definition changed the way
a slip in the code would change it, for which TLC finds the property violated.
The states are the distinct ones TLC reaches.

**`dlm`** (114 thousand states). lvb_torture with three ranks, four iterations, two possible
left-over values. Three ranks are the fewest in which the present writer, the next
writer and a slow reader are three processes; four iterations bring the turn back
to rank 0. `NoFalseFailure`: no rank finds a wrong value once clear_lock has
written the block. `Lockstep`: the ranks are within one barrier of each other.
`LvbCounts`: the block grows by one at a time. `RanksEnd`: without signals every
rank ends; a signal that reaches one rank may strand the others in a barrier.
lock_grab with two nodes and two locks
(every way to wait for each other; longer arrays are left to the theorem of section 6),
and parse_args over every combination of three
optional numbers from -1 to 8. `ListsMatchDlm`: the arrays partition the names and say
what the DLM has granted. `NeverEmptyChoice`: no modulus is zero. `NoWaitCycle`: a node
blocked on a PR lock never waits for a node that is blocked. `NodesGetOn`: it gets the
lock, and a signalled node leaves. `AcceptedArgsAreSane`, `UserInputIsKept`: what
parse_args accepts makes sense and is what the user asked for; `-L` alone is refused
only in the two cases that section 5 names.

**`directio`** (1.9 million). Two children; -b with two characters and repeated time stamps, -f, both
with failing writes; -d with four chunks, the fewest for which the reset may come
early, late or be denied; and verify_file over every mixture of the parts of two
writes and zeros. `FileMatchesRecords`: outside the semaphore the file is what the
records say, or the write whose record log_write lost. `AlarmMeansLoss`: the reset never finds a chunk half written or not
logged, and an alarm implies a failed child, a record lost in the socket or one that never
reached the log file (log_write ignores fprintf, fflush and fsync).
`VerifyFileIsRight`: an intact chunk is accepted, another write than the recorded one
is not. `TestEnds` (-f): everybody ends, also when a child bails out holding the
semaphore. `TypeOK`: the semaphore never exceeds one although SEM_UNDO and semaphore_v
may both post it.

**`holes`** (166 thousand). fill_holes on a file of two "2 GiB" chunks and a rest, drawing or
replaying any of a set of logs, and with fewer
iterations than chunks; punch_holes with two holes, followed by a replay of any beginning
of its log; verify_holes on every log of up to two records on
four bytes, with and without unreadable lines; the whole script with two iterations;
verify_truncate for every new size of a file of four clusters of two bytes and every
single wrong byte. `FileFollowsLog`: a fill_holes killed at any moment leaves a log that is
at most one record ahead, and no drawn write leaves the file. `ChunkSchedule`: the
share-out over the chunks. `Disjoint`, `LastRecordWins`, `ProgramsEnd`: the extent tree
stays disjoint, implements `WriteMap` (a refinement: clearing extents out of the way is
a stutter, linking the new one takes the record), and every restarted search ends.
`VerdictIsExact`: verify_holes accepts exactly the right files. `FailureMeansDamage`: the
script ends with 0 exactly when verify_holes has run and the file system changed nothing.
`PunchFollowsLog`: the same as `FileFollowsLog` for punch_holes, whose replay finds the end of
the filling although the log does not mark it. `TruncateVerdict`: verify_truncate
accepts only files that are right in the clusters it reads, and complains of no right one
(for the cluster it does not read see `truncate_skips`).

**`mpi`** (60 thousand). multi_mmap with three ranks over a wrap of the start character,
and with -e; flock_unit_test for both lock types; multi_directio_test with one to
three ranks; write_append_truncate with two jobs, one of two ranks with short writes and one of
three ranks. `NoFalseAlarm`: with coherent memory no rank of multi_mmap complains.
`LossIsNoticed`: a pass of multi_mmap never writes what a block already holds, so that a
lost write would be seen. `LocksAsExpected`: every call of flock_unit_test returns what
the program expects, and every test function gives its locks back. `AppendJudgedRight`:
rank 0 of write_append_truncate complains only of damage or of an append split by the
truncate, and notices every wrong byte of a file of the right length. `NobodyLeftBehind`: when a rank of
multi_directio_test gives up the job is aborted. `JobsEnd`: an injected truncation ends
multi_mmap; flock_unit_test and write_append_truncate end. Deadlock is not checked
because flock_unit_test may hang (section 5).

**`jobs`** (341 thousand). Every test of multi_reflink_test, multi-inline-dirs,
multi_index_dir, multi-inline-data (with and without the reservation ioctls),
xattr-multi-test (four choices of its options) and
quota_multi_tests (three ranks; two ranks with room between the limits; two rounds), each
with one failing call or one fault of the file system: a leaking write, a unit stored
wrong, an attribute lost or kept, a miscounted quota. `NobodyLeftBehind`: on every path,
failing calls included, no rank waits for ever in a barrier, a send or a receive unless the job
is aborted, with two exceptions, each at its place: without the reservation ioctls rank 0 of
multi-inline-data waits in large_reservation for a pattern that is not sent, and a rank of
comp_test of multi_reflink_test spins on a file another one has truncated. `NoFalseAlarm`: a job aborts only after a failed call, a fault, or in the cases
the code itself leaves open (the attribute test of the reflinks, in which validators and
writers run side by side; the look at a directory that rank 0 is already removing; what an
earlier test or run left behind; the five cases named in `QuotaMulti`). `DamageIsFound`: a fault is found by the checks that follow it.
`TableKept`: where one rank at a time adds entries, the table says what the directory
holds; the table of removed files of quota_multi_tests, filled in too early, is wrong by
one file at most.

**`iozone`** (254 thousand). Two children with two records a file, in three command lines that
between them run every test, as processes and as threads, with and without -x and -F, and with a
retest under stonewalling; two clients over two tests with a lost, an
overtaken datagram, failing calls and an interrupt; and the automatic mode over size
lists with the crossover, selections of tests, -+d, -m, -+x, -y, -z, a table of eight rows, and
records that are lost or misplaced. `BarrierHolds`: no child transfers before all are ready. `FilesAreWhole`: a
writer that is told to stop still finishes its file, and the tests after it find what
they read; a pass that ends without complaint has read the whole file right (the stride
test is not claimed to reach all of it).
`ResultsComplete`: what is added up is what every child did before the first one
finished, one result per client and test, every pair of sizes once.
`NobodyLeftBehind`: the program hangs or leaves children behind only after a failed call,
and the automatic mode stops only for a fault, for a buffer of -m that holds another record or
none, for a first record larger than the first file, or for a table that is full; a client the
master is connected to hears of its death. `ReportLinesUp`: no rate stands under another test, and each
stands under its own record size exactly when the file size is below the crossover or the
multiplier is 2. `Termination`: every program run
comes to its end, or to a stop that `NobodyLeftBehind` accounts for.

Fairness. Every process or rank that can take a step takes one (weak fairness per
process): they are scheduled by the operating system. The DLM queues requests, so
a PR request of lock_grab that can be granted again and again is granted in the
end: `PrLock` has strong fairness. A failing call, a signal, a denied reset or a faulty
file system is never obliged to happen. The alarm of flock_unit_test rings.

## 4. Runs that end in a violation

Each shows one disagreement between the code and a sentence of the repository;
`findings` in `PROJECT.json` quotes both.

| run | what TLC shows |
|---|---|
| `directio_damage` | a recorded chunk with a damaged head, body or checksum is accepted: verify_file rebuilds what it read from the write unit it dumped |
| `multi_directio_abort` | should_exit is given fd instead of ret: a job of two ranks aborts when nothing is wrong |
| `verify_holes_big` | a file size that does not fit w_len leaves holes unchecked |
| `truncate_skips` | a wrong byte in the cluster before the last is accepted: the loop ends before it, although its comment and the header include it |
| `index_passed` | two ranks of multi_index_dir overwrite each other's table entries; the verification prints the failure and then that all tests passed |
| `iozone_report` | with -i the rates of pwrite and pread stand in other columns than the report prints |

## 5. Seen while modelling, without a run

* lvb_torture.c:173 calls the second barrier unnecessary. Without it the next writer
  can hold EX in the first barrier while a reader still waits for its PR lock.
* lock_grab/README:23 says EX requests sleep on PR locks; the code uses trylocks
  (sleeping would allow a deadlock). lock_grab.c:607: `-L 20`, just the default high
  mark, is refused; `LowMarkAlone` states exactly that exception.
* directio_test.c:362: a denied sysrq is not noticed, and the child then waits for the
  semaphore it holds. :220 and :405: handler and waitpid race for the exit status.
  directio_utils.c:392: chunk number num_chunks passes the range test. :640: log_write
  returns 0 whatever fprintf, fflush and fsync say; a record may be missing without a word,
  and the chunk is then taken for a corrupt one (`LogLost`).
* multi_directio_test.c:334: a job of one rank ends after its first round.
* fill_holes.c:491 with :325: fewer iterations than 2 GiB chunks fail the assert
  (`OnlySizeAssertFails`). :319: a chunk takes one write more than its share
  (`ChunkSchedule`). :435, and punch_holes.c:273: a short or failed pwrite is logged as
  whole. fill_holes.c:470: a failed malloc ends with status 0.
* fill_verify_holes.sh:136: `seq 0 COUNT` makes COUNT + 1 turns.
* verify_truncate.c:291 "from disk" is answered by the page cache.
* multi_mmap.c:98: "read the whole file", but only the block is read. :180 accepts an
  injection pass equal to the number of passes, which never comes.
* flock_unit_test.c:465: when the alarm rings before the lock call waits, the job hangs.
* write_append_truncate.c:169: a truncate between two short writes is a false alarm.
  :206: bytes left in read_buf can hide a lost end of the file.
* punch_holes.c:348: the filling loop advances by offset + length and skips parts of the
  file, although :56 says that the entire file is populated first.
* directio_utils.c:137, reflink_test_utils.c:120: the read loops have no end-of-file
  test; the message at directio_utils.c:468 for a short file is never reached.
* write_append_truncate.c:257: a wrong byte is printed, but error is memcmp's value and
  only 1 ends the job.
* multi_reflink_test.c:326: should_exit ignores positive error codes, which some helpers
  return; verify_orig_file returns 0 when mmap fails, and ignores the length that the
  comment at :61 speaks of; do_xattr_data_cows returns an old value when open fails. With
  eight or more ranks two ranks of the attribute test use one name. comp_test's
  asynchronous write_at only prints a mismatch; directio_test in this program never
  verifies.
* multi-inline-dirs.c:799: rank 0 removes the directory while others may still look at
  it. :382: random_unlink does not end when no entry is left. With two or more workers
  "Verify failure" may be printed for a good directory.
* multi-inline-data.c: with one rank the verification of the double-write test fails. The result of verify_pattern_mmap is overwritten by 0.
  Holes that were punched are never verified. multiple_files ignores the results of its
  calls. A rank whose try_reserve returns ENOTTY in the large reservation (:899) does not send, and
  rank 0 waits for ever, the others in the barrier (`Unsent`). A negative error code of
  is_file_inlined is taken for "inlined"; after a positive one the flag is read from a buffer
  nobody filled. Either may abort the job or pass (`Fail`).
* xattr-multi-test.c: DO_UNLINK is defined nowhere, so the files stay and a later run on the
  same path may fail. Updated values are never verified. The default of -s, 50, is smaller
  than what xattr_value_constructor puts together; -o names are cut at 49 characters.
* quota_multi_tests.c: file_index is used before MPI_Wait: its first, uninitialised value marks
  memory outside the table, which does no harm or kills rank 0 (`StrayMark`), a later one the
  file of the message before. When (size - 1) * rm_nums exceeds
  twice isoftlimit the ranks spin. The grace time of ten seconds stays for all users. With
  three ranks or more concurrent_rw_test may raise a false alarm. A directory is removed
  before the last barrier. verify_quota_items' result is ignored; -t falls through to EINVAL.
* multi_defrager.c (not modelled): readdir returns "." and "..", which cannot be opened for
  writing, so every job aborts; with -r get_i_size returns the descriptor, and a rank skips
  the defragmentation together with its barrier.
* iozone.c: with -F sharing one file, mix writers truncate the file others read; random
  writers leave holes, so that pread without pwrite fails under verification. Kill does
  nothing under -x and leaves children behind (10756). A failed pthread_create goes
  unnoticed. A lost datagram leaves the master waiting. A client that has not been
  connected yet when the master is interrupted is forgotten (19962). A child that dies in
  lseek leaves its flag at BEGIN, and the next test's barrier does not wait for its
  successor. A minimum of 0 is taken for none (3417). Unsorted -s or -r lists are not
  tested entirely (17637). The stride test does not touch all of the file, as the
  comment at 8753 says. With -m write_perf_test fills the buffer it switches to as record 0
  (6526), so that under -+d the next read finds a mismatch in a right file; the other tests write
  from slots of the buffers that were never filled (`WrongBuffer`). Above the crossover the
  made-up rows always double the record size (3085), so that with -+x other than 2 the table
  is shifted (`TablesLineUp`).

## 6. Proofs

TLC checks small instances; the theorems below hold for every value of the constants
that satisfies the stated conditions. `X_proofs` extends `X`; `DirectioRecords_proofs`
extends `DirectioTest_proofs`, which extends `DirectioChunk` too, and `PunchHoles_proofs`
extends `VerifyTruncate` too.

| theorem | statement | for every |
|---|---|---|
| `LvbTorture_proofs!TypeCorrect`, `RanksInLockstep`, `FailureIsReal` | `LvbTypeOK`, `Lockstep`, `NoFalseFailure` | number of ranks and iterations, left-over value, signals, failing calls |
| `LvbTorture_proofs!LvbCountsWrites` | the action property `LvbCounts` | the same |
| `LockGrab_proofs!ListsAlwaysMatch`, `ChoiceNeverEmpty`, `NoCycleOfWaiters` | `ListsMatchDlm`, `NeverEmptyChoice`, `NoWaitCycle` | set of nodes, number of locks, marks low < high <= locks |
| `LockGrab_proofs!AcceptedIsSane`, `UserInputAlwaysKept` | `AcceptedArgsAreSane`, the action property `UserInputIsKept` | defaults low < high <= locks, all numbers on the command line |
| `DirectioTest_proofs!SemaphoreIsBinary`, `WritesAreExclusive`, `ResetsFindWholeChunks` | `TypeOK`, `Exclusive`, `ResetFindsWholeChunks` | number of children and chunks, mode, failing calls, denied resets |
| `DirectioTest_proofs!ChunkVerdictIsRight` | `VerifyFileIsRight` | content of the chunk, record, stamps, characters |
| `DirectioRecords_proofs!RecordsMatchFile`, `AlarmsAreReal` | `FileMatchesRecords`, `AlarmMeansLoss` | number of children and chunks, mode, bound of the clock |
| `HolesPipeline_proofs!TreeStaysDisjoint`, `TreeIsLastWriterMap` | `Disjoint`, refinement of `WriteMap` | file size, log, characters |
| `HolesPipeline_proofs!VerdictAlwaysExact` | `VerdictIsExact` | file size below 2^32 (`file_size < LenMod`), log, content of the file |
| `HolesPipeline_proofs!FillHolesCorrect` | the five properties of `FillHoles` by itself | file size, iterations, replay log; whole writes |
| `HolesPipeline_proofs!LogsAreFollowed`, `ChunksTakeTurns`, `ScriptFindsDamage` | `FileFollowsLog`, `ChunkSchedule`, `FailureMeansDamage` of the script | the same, and every byte the file system may change |
| `HolesPipeline_proofs!ScriptReadsTheMap` | the script implements `WriteMap` | the same |
| `PunchHoles_proofs!PunchHolesCorrect` | `PunchFollowsLog` | file size, number of holes, beginning of the log that is replayed; whole writes (`~ BadWrites`) |
| `PunchHoles_proofs!TruncateVerdictExact` | `TruncateVerdict` | cluster size, number of clusters and iterations, new size, wrong bytes |
| `MC_Mpi_proofs!MmapNoFalseAlarm`, `MmapLossIsNoticed` | `NoFalseAlarm`, `LossIsNoticed` of multi_mmap | number of ranks (two or more) and passes, injection pass |
| `MC_Mpi_proofs!DirectioNobodyLeftBehind` | `NobodyLeftBehind` of multi_directio_test | number of ranks, chunks and rounds |
| `WriteAppendTruncate_proofs!AppendNoFalseAlarm`, `AppendLossIsNoticed` | `NoFalseAlarm`, `WrongBytesNoticed` of write_append_truncate | number of ranks (two or more) and loops, sizes, short writes, failing calls, damage, content left in read_buf |
| `MC_Mpi_proofs!AppendIsJudgedRight` | these two (`AppendJudgedRight`) for the specification of the run `mpi` | set of jobs |

The assumptions are `ConstantsOK` of each component, or its named ASSUMEs (`LvbTorture`,
`HolesPipeline`, `PunchHoles`, `VerifyTruncate`); the runs evaluate them. None of the invariants is inductive alone; the inductive
invariant is `IInv` in each module, if not said otherwise.

* `LvbTorture`. `EpochInv` ties a rank's place and loop counter to the number of barriers it
  has entered, and `StepInv` bounds the others' numbers from below; together (`Lockstep`)
  they leave only two iterations any pair of ranks can be in. `RoleInv` and `HeldInv` give
  the lock level from the place, `Exclusive` is the DLM's promise. `LvbInv` says that the
  block is the number of iterations whose writer has written. `CheckSucceeds` combines
  them: a rank at its comparison has every earlier iteration written and no later one.
  `LvbCounts` needs `WriteInv` besides: what a writer has compared is still there when it
  writes, because it has held EX in between.
* `LockGrab`. `Split` says that the first slots of the two arrays hold every lock name
  exactly once and the others hold NULL; `ShiftKeepsSplit` shows that shift_lock, a memmove
  in one array and a store in the other, keeps it. `NumInv` keeps the chosen slot inside
  the used ones, and `DlmInv` relates the arrays to what is granted, EX between trylock
  and unlock only. A node that waits for PR holds no EX, hence no cycle of waiters.
* `LockGrabArgs`. `ArgsInv` says which options are set and that the others have their
  defaults; `CleanupKeeps` computes what the three clean-ups make of them, in every order
  of the given number and the defaults.
* `DirectioTest`. `MutexInv` relates the semaphore to the children that hold it. Holding is
  told from the SEM_UNDO count and not from the place, since a child whose reset is
  denied goes on holding it. `WholeInv` says that the halves of a chunk differ only while
  a child is between them; a child leaves that place early only with an error. `WaitInv`
  shows that the parent ends after every child, whoever of waitpid and the SIGCHLD handler
  reaped it. On top of it `RInv` follows the records: their stamps do not decrease, because
  the stamp is taken under the semaphore (`StampInv`); every chunk shows the unit of its
  last record, but for the one a child is writing (`ShowInv`); the record loop of the
  verification keeps the last record of every chunk among the ones read (`KeptInv`, one
  record a step, so that no induction over the log is needed). With `ChunkOK` of
  DirectioVerify they give `AlarmMeansLoss`.
* `VerifyHoles`. `RemainsArePieces` is the geometry of the four overlaps: what is put back
  covers exactly what the old extent covered outside the new one. The refinement maps a
  byte to the character of the extent being inserted if that covers it, else of the tree:
  clearing an extent is then a stutter and taking a record is `NextRecord`. `VInv` adds
  that this map is at every moment the last-writer map of the records taken, so that the
  comparison of the extents with the file (`CheckIsExact`) is one of the bytes with the log.
  It needs the size to fit `w_len`; the run `verify_holes_big` is the other case.
* `FillHoles`. `FInv` ties the counters to the records printed so far: `Counted` says which
  chunk the next write belongs to and how many of its share are used, from which the
  order of the chunks, the bound on the offset and the one assert that can fail follow.
  `Made(B, l, n, f)` says that f is the file the first n records of l make, byte by byte and
  by the last record that covers the byte; a write moves it on by one record (`MadeNext`),
  so that no induction over the log is needed, and `MadeWins` turns it into `LastWriterWins`.
* `HolesPipeline`. `SInv` chains the two programs: `FInv` while fill_holes runs, `Agrees` (the
  file is what the log says) when it has ended with 0, then `IInv` and `VInv` of verify_holes
  together with "damaged exactly when `Agrees` no longer holds".
* `PunchHoles`. The log marks no end of the filling. `Shape(size, max, l, f)` says that the
  first f records of a log are the filling, each starting where the one before sends it,
  the last of them reaching the end of the file, and that the others are holes. `First(f)`
  says that the log of a run has that shape; a beginning of such a log has it too (`ShapeFront`), and `Second(g)`
  says that the replay has taken as much of the given log as it has printed and stops
  filling exactly where the shape says. Both rest on `Made`, with a hole read as zeros.
* `VerifyTruncate`. `Layout` computes the number and the expected content of the last
  cluster from the size drawn, for sizes inside a cluster and on its edge (`LaidOut`,
  `Quotient`); `TInv` adds what has been compared so far, and `BytesOfCluster` turns
  clusters compared into bytes that are right.
* `MultiMmap`. `EpochOK` gives the number of barriers from pass, block and place;
  `BarrierInv` says that nobody has returned from a barrier somebody has not entered. `FileOK`
  says that a block holds the character of its owner's pass or of the pass before. A
  reader and a writer of one block are then in the same pass, and `CharInv` makes them
  agree on the character, over the wrap-around too.
* `WriteAppendTruncate`. `SyncInv` gives place, loop and barriers of every rank, and
  that nobody starts a loop rank 0 has not ended; hence the reset, the race and the check
  of a loop do not overlap. `DataInv` describes the file during the race: chunk, hole and
  appended bytes in the order in which append and truncate have taken place (`FileInv`), and
  that no complaint is carried over from the loop before (`FreshInv`, `ErrorInv`). `HoleJudged`
  and `CutJudged` show that the comparisons of rank 0 accept these two files and, of that
  length, no others, whatever read_buf holds beyond the bytes read.
* `MultiDirectio`. Since every rank but 0 aborts at its first verification, the other ranks
  have not passed it while the job is alive (`FollowersInv`), and rank 0 has not left its
  second barrier (`LeaderInv`).

The theorems about `WriteAppendTruncate` are proved for the component and
then carried over to the specification of the run, which holds several instances side by
side: a step of one instance leaves the variables of the others alone.

Only model-checked: all liveness properties (outside what the prover handles, as is
ENABLED); `LocksAsExpected`, where a flock_unit_test job is one fixed script of two ranks and the run
covers every case there is; and the runs `jobs` and `iozone`, whose scripts are sequences put
together from the options: what they are for every number of ranks needs an induction over
data that the prover cannot do. The modules use no RECURSIVE operator.

## 7. Not modelled

* Scripts around mkfs, fsck, tunefs and mount, and the runners: their outcome is decided by
  the tools they call.
* Single-process programs that make a straight sequence of system calls: what they test is
  the kernel, and their own control is an exit at the first error.
* Option parsing (except lock_grab's, where the defaults interact), messages and timing.
* The aio and O_DIRECT writes of fill_holes and punch_holes (same control, other system
  call), the red-black balancing of verify_holes (the tree is a set of extents and a search
  may meet the ones in its way in any order), and in multi_directio_test the loop of the
  ranks other than 0, which the code cannot reach (section 4).
* In iozone: telemetry files, the mmap, POSIX aio and Windows branches of the transfers, the
  spreadsheet writer.
* The programs marked "in reach of a model" in `PROJECT.json`, which remain to be done.
