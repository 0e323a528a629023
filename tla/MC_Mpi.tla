------------------------------- MODULE MC_Mpi -------------------------------
(***************************************************************************)
(* Model checking of four MPI programs that pass work between ranks with   *)
(* barriers.  "what" chooses the instance: multi_mmap with three ranks     *)
(* (over a wrap-around of startchar, and with -e); flock_unit_test;        *)
(* multi_directio_test; write_append_truncate with two ranks and short     *)
(* writes, and with three ranks.                                           *)
(***************************************************************************)
EXTENDS MultiMmap

CONSTANTS What,             \* the instances of this run
          CommSizes,        \* multi_directio_test: the numbers of ranks,
          ChunkCounts,      \* of chunks
          Rounds,           \* and of rounds
          ChunkBytes,
          AppendJobs,       \* write_append_truncate: its jobs,
          ReadBufSize       \* and the length of read_buf

MCNever == -1      \* -e is not given

\* Two ranks, every order of the loop and short writes; three ranks, every role.
MCAppendTwo == [size |-> 2, nloops |-> 2, short |-> TRUE,
                draws |-> {[chunk |-> 1, append |-> 2, trunc |-> 1],
                           [chunk |-> 1, append |-> 2, trunc |-> 2],
                           [chunk |-> 2, append |-> 2, trunc |-> 3]}]
MCAppendThree == [size |-> 3, nloops |-> 3, short |-> FALSE,
                  draws |-> {[chunk |-> 1, append |-> 2, trunc |-> 2]}]
MCAppendJobs == {MCAppendTwo, MCAppendThree}

VARIABLES what, m_pc, m_epoch, m_aborted, m_file, m_i, m_fault,
          use_flock, blocked, alarm, held,
          size, num_chunks, round, ret,
          job, n, draw, done, read_buf, error, sent, bad, damaged, split

common == <<m_pc, m_epoch, m_aborted, m_file, m_i, m_fault>>
flock == <<use_flock, blocked, alarm, held>>
directio == <<size, num_chunks, round, ret>>
append == <<job, n, draw, done, read_buf, error, sent, bad, damaged, split>>
MCvars == <<what, vars, common, flock, directio, append>>

\* multi_mmap without -e is this module's own; its constants are in the configuration.
Inject == INSTANCE MultiMmap WITH max_passes <- 3, injection_pass <- 1, LastChar <- 25
Flock == INSTANCE FlockUnitTest WITH pc <- m_pc, epoch <- m_epoch, aborted <- m_aborted
Directio == INSTANCE MultiDirectio WITH Sizes <- CommSizes, FileChunks <- ChunkCounts,
            num_iterations <- Rounds, CHUNK_SIZE <- ChunkBytes,
            pc <- m_pc, epoch <- m_epoch, aborted <- m_aborted, i <- m_i, fault <- m_fault
Append == INSTANCE WriteAppendTruncate WITH Jobs <- AppendJobs, BufSize <- ReadBufSize,
            pc <- m_pc, epoch <- m_epoch, aborted <- m_aborted, file <- m_file

ASSUME MmapConstants == ConstantsOK /\ Inject!ConstantsOK
ASSUME DirectioConstants == Directio!ConstantsOK
ASSUME AppendConstants == Append!ConstantsOK

IdleCommon ==
    m_pc = <<>> /\ m_epoch = <<>> /\ m_aborted = FALSE /\ m_file = 0 /\ m_i = 0 /\ m_fault = FALSE
IdleFlock == use_flock = FALSE /\ blocked = FALSE /\ alarm = "none" /\ held = {}
IdleDirectio == size = 0 /\ num_chunks = 0 /\ round = 0 /\ ret = 0
IdleAppend ==
    /\ job = 0 /\ n = 0 /\ draw = 0 /\ done = 0 /\ read_buf = <<>> /\ error = 0 /\ sent = 0
    /\ bad = FALSE /\ damaged = FALSE /\ split = FALSE

\* multi_mmap stays where it starts when another program is chosen.
MCInit ==
    /\ what \in What
    /\ Init
    /\ \/ what \in {"mmap", "inject"} /\ IdleCommon /\ IdleFlock /\ IdleDirectio /\ IdleAppend
       \/ /\ what = "flock" /\ Flock!Init /\ m_file = 0 /\ m_i = 0 /\ m_fault = FALSE
          /\ IdleDirectio /\ IdleAppend
       \/ what = "directio" /\ Directio!Init /\ m_file = 0 /\ IdleFlock /\ IdleAppend
       \/ /\ what = "append" /\ Append!Init /\ m_i = 0 /\ m_fault = FALSE
          /\ IdleFlock /\ IdleDirectio

RestMmap == UNCHANGED <<what, common, flock, directio, append>>
RestFlock == UNCHANGED <<what, vars, m_file, m_i, m_fault, directio, append>>
RestDirectio == UNCHANGED <<what, vars, m_file, flock, append>>
RestAppend == UNCHANGED <<what, vars, m_i, m_fault, flock, directio>>

MCNext ==
    \/ what = "mmap" /\ Next /\ RestMmap
    \/ what = "inject" /\ Inject!Next /\ RestMmap
    \/ what = "flock" /\ Flock!Next /\ RestFlock
    \/ what = "directio" /\ Directio!Next /\ RestDirectio
    \/ what = "append" /\ Append!Next /\ RestAppend

MCSpec == MCInit /\ [][MCNext]_MCvars

\* Every rank that can run does; a failing call or file system is not obliged to.
MCFairSpec ==
    /\ MCSpec
    /\ \A r \in 0 .. 2 : WF_MCvars(what = "inject" /\ Inject!Step(r) /\ RestMmap)
    /\ \A r \in 0 .. 1 : WF_MCvars(what = "flock" /\ r \in DOMAIN m_pc /\ Flock!Step(r) /\ RestFlock)
    /\ \A r \in 0 .. 2 : WF_MCvars(what = "append" /\ job = MCAppendThree /\ r \in DOMAIN m_pc
                                    /\ Append!Step(r) /\ RestAppend)

-----------------------------------------------------------------------------
\* flock_unit_test: with correct locks every call returns what is expected, and each test
\* function has given its locks back at its end.
LocksAsExpected == what = "flock" => Flock!NeverAborts /\ Flock!SectionsReleaseAll

\* multi_directio_test: a rank that gives up takes the whole job down.
NobodyLeftBehind == what = "directio" => Directio!NobodyLeftBehind

\* write_append_truncate: rank 0 complains only of real damage or a split append, and it notices
\* a file of the right length with wrong bytes.
AppendJudgedRight == what = "append" => Append!NoFalseAlarm /\ Append!WrongBytesNoticed

\* Jobs end: multi_mmap with an injected truncation, flock_unit_test unless the
\* alarm rings before the lock waits, and write_append_truncate, in which no rank
\* is left alone in a barrier or in MPI_Bcast.
JobsEnd ==
    /\ <>(what = "inject" => Inject!Ended)
    /\ <>(what = "flock" => Flock!Ended)
    /\ <>(what = "append" /\ job = MCAppendThree => Append!Over)

\* The comment at multi_directio_test.c:231: "Verification at the very beginning
\* doesn't do anything more than reading the file into pagecache".
FirstVerifyHarmless == what = "directio" => Directio!FirstVerifyHarmless
=============================================================================
