------------------------------ MODULE MC_Iozone ------------------------------
(***************************************************************************)
(* The three modes of iozone: IozoneThroughput (-t), IozoneDistributed     *)
(* (-t -+m) and IozoneAuto (-a).  A behaviour is one program run in the    *)
(* mode the variable what names; the variables of the others are idle.     *)
(***************************************************************************)
EXTENDS Integers, Sequences, FiniteSets

CONSTANT What   \* which of the modes below the run looks at

VARIABLES what,
    opt, at, i, test, file, flag, actual, faults,                               \* of several modes
    phase, stop_flag, files, child, early, report,                              \* -t
    x, state, loop, net, sync, async, client, listener, stopped,                \* -+m
    kilobytes64, reclen, where, j, dummyfile, stripewrap, seen, buffers, report_array    \* -a

common == <<opt, at, i, test, file, flag, actual, faults>>
throughput == <<phase, stop_flag, files, child, early, report>>
distributed == <<x, state, loop, net, sync, async, client, listener, stopped>>
auto == <<kilobytes64, reclen, where, j, dummyfile, stripewrap, seen, buffers, report_array>>
vars == <<what, common, throughput, distributed, auto>>

-----------------------------------------------------------------------------
(* -t 2: every test, with a retest under stonewalling, over two records a   *)
(* file; processes and threads, separate files and a shared one; one call   *)
(* fails.                                                                   *)

ThreadOptions ==
    {[tests |-> {"WRITER", "READER", "RANDOM_MIX"}, xflag |-> FALSE, use_thread |-> FALSE,
      share_file |-> FALSE, seq_mix |-> TRUE, no_unlink |-> TRUE, noretest |-> FALSE, verify |-> TRUE],
     [tests |-> {"WRITER", "REVERSE", "STRIDE_READ", "RANDOM_RW"}, xflag |-> TRUE, use_thread |-> FALSE,
      share_file |-> FALSE, seq_mix |-> FALSE, no_unlink |-> FALSE, noretest |-> TRUE, verify |-> TRUE],
     [tests |-> {"WRITER", "PWRITER", "PREADER"}, xflag |-> FALSE, use_thread |-> TRUE,
      share_file |-> TRUE, seq_mix |-> FALSE, no_unlink |-> TRUE, noretest |-> TRUE, verify |-> FALSE]}

Threads == INSTANCE IozoneThroughput WITH
    num_child <- 2, numrecs64 <- 2, stride <- 1, Options <- ThreadOptions,
    Faults <- {"fork", "open", "log", "seek", "io", "data", "interrupt"}, FaultBound <- 1

(* Two clients, two tests, two faults. *)
Cluster == INSTANCE IozoneDistributed WITH
    num_child <- 2, Tests <- 2, stonewall <- TRUE,
    Faults <- {"interrupt", "lose", "open", "io", "reorder"}, FaultBound <- 2

(* -a over files of 2 and 4 units (3 and 8, 3 to 12) with records of 1 to   *)
(* 4; buffers of one such record, a table of 8 rows; one fault.             *)
Defaults ==
    [include |-> {}, Eflag |-> FALSE, mmapflag |-> FALSE, RWONLYflag |-> FALSE, diag_v |-> TRUE,
     multi_buffer |-> FALSE, noretest |-> FALSE, no_unlink |-> FALSE,
     s_range |-> <<>>, r_range |-> <<>>, file |-> <<2, 4>>, rec |-> <<1, 4>>,
     flags |-> {}, multiplier |-> 2]
AutoOptions ==
    {Defaults,
     [Defaults EXCEPT !.Eflag = TRUE],
     [Defaults EXCEPT !.mmapflag = TRUE],
     [Defaults EXCEPT !.Eflag = TRUE, !.noretest = TRUE, !.diag_v = FALSE, !.no_unlink = TRUE],
     [Defaults EXCEPT !.RWONLYflag = TRUE, !.s_range = <<3, 8>>, !.r_range = <<2>>],
     [Defaults EXCEPT !.include = {"write", "stride", "reverse", "fread"}, !.file = <<3, 12>>,
                      !.multi_buffer = TRUE, !.diag_v = FALSE],
     [Defaults EXCEPT !.include = {"write", "fwrite", "fread", "pread"}],
     [Defaults EXCEPT !.include = {"read"}],
     \* -m, with and without -+d
     [Defaults EXCEPT !.include = {"write", "read"}, !.multi_buffer = TRUE],
     [Defaults EXCEPT !.include = {"write", "rewriterec", "fwrite", "fread"}, !.multi_buffer = TRUE,
                      !.diag_v = FALSE],
     \* -+x 4, -y, -z; a first record larger than the first file; too many rows
     [Defaults EXCEPT !.include = {"write"}, !.noretest = TRUE, !.file = <<1, 4>>, !.multiplier = 4],
     [Defaults EXCEPT !.include = {"write"}, !.noretest = TRUE, !.file = <<4, 4>>, !.rec = <<2, 4>>,
                      !.flags = {"yflag"}],
     [Defaults EXCEPT !.include = {"write"}, !.noretest = TRUE, !.flags = {"NOCROSSflag"}],
     [Defaults EXCEPT !.rec = <<4, 4>>, !.flags = {"yflag"}],
     [Defaults EXCEPT !.include = {"write"}, !.noretest = TRUE, !.file = <<3, 24>>],
     [Defaults EXCEPT !.include = {"write"}, !.noretest = TRUE, !.file = <<1, 8>>]}
\* -i 0 -i 9 of the extended tests (-+E), with the Excel report.
ReportOptions == {[Defaults EXCEPT !.include = {"write", "pwrite"}, !.Eflag = TRUE]}

Auto == INSTANCE IozoneAuto WITH
    Options <- AutoOptions \cup ReportOptions, xover <- 2, LARGE_REC <- 4, stride <- 2,
    MAXBUFFERSIZE <- 4, cache_size <- 2, MAX_Y <- 8,
    Faults <- {"lost", "misplaced", "write", "read"}, FaultBound <- 1

ASSUME Threads!ConstantsOK /\ Cluster!ConstantsOK /\ Auto!ConstantsOK

-----------------------------------------------------------------------------
IdleThroughput == phase = 0 /\ stop_flag = 0 /\ files = 0 /\ child = 0 /\ early = 0 /\ report = 0
IdleDistributed ==
    /\ x = 0 /\ state = 0 /\ loop = 0 /\ net = 0
    /\ sync = 0 /\ async = 0 /\ client = 0 /\ listener = 0 /\ stopped = 0
IdleAuto ==
    /\ kilobytes64 = 0 /\ reclen = 0 /\ where = 0 /\ j = 0
    /\ dummyfile = 0 /\ stripewrap = 0 /\ seen = 0 /\ buffers = 0 /\ report_array = 0

InitThreads == Threads!Init /\ test = 0 /\ file = 0 /\ IdleDistributed /\ IdleAuto
InitCluster == Cluster!Init /\ opt = 0 /\ i = 0 /\ IdleThroughput /\ IdleAuto
InitAuto == Auto!Init /\ flag = 0 /\ actual = 0 /\ IdleThroughput /\ IdleDistributed

Init ==
    /\ what \in What
    /\ \/ what = "threads" /\ InitThreads
       \/ what = "cluster" /\ InitCluster
       \/ what = "auto" /\ InitAuto /\ opt \in AutoOptions
       \/ what = "report" /\ InitAuto /\ opt \in ReportOptions

IsAuto == what \in {"auto", "report"}
Over ==
    \/ what = "threads" /\ Threads!Over
    \/ what = "cluster" /\ Cluster!Over
    \/ IsAuto /\ Auto!Over

Next ==
    /\ UNCHANGED what
    /\ \/ what = "threads" /\ Threads!Next /\ UNCHANGED <<test, file, distributed, auto>>
       \/ what = "cluster" /\ Cluster!Next /\ UNCHANGED <<opt, i, throughput, auto>>
       \/ IsAuto /\ Auto!Next /\ UNCHANGED <<flag, actual, throughput, distributed>>

\* A run that is over stays as it is: any other state without a successor is a deadlock.
Rest == Over /\ UNCHANGED vars

Spec == Init /\ [][Next \/ Rest]_vars
\* The processes of a run are scheduled as long as one of them can go on.
FairSpec == Spec /\ WF_vars(Next)

-----------------------------------------------------------------------------
\* No child transfers before all of them have opened their files and said so: the barrier of flags
\* in shared memory, and the barrier of READY datagrams and GO messages.
BarrierHolds ==
    /\ what = "threads" => Threads!BarrierHoldsAfterCleanExits
    /\ what = "cluster" => Cluster!BarrierHolds

\* Tests that read find every record they ask for; a pass of the -a tests, the stride test left
\* out, covers the file, and one that verifies and does not complain has read what was written.
FilesAreWhole ==
    /\ what = "threads" => Threads!ReadersFindWholeFiles
    /\ IsAuto => Auto!PassCoversFile /\ Auto!PassedFileIsWhole

\* What is reported is all there: the counts of a stonewalled test, one result per client and test,
\* one line per file size and record size.
ResultsComplete ==
    /\ what = "threads" => Threads!StonewallCounts
    /\ what = "cluster" => Cluster!ResultsComplete
    /\ IsAuto => Auto!EveryPairMeasured

\* The counters stay within their arrays; only a call that failed, a file system that lost data,
\* the wrong buffer of -m, or sizes that do not fit stop a run; without a fault the stop flag
\* reaches every client, and clients the master has connected to hear of its death (not those it
\* has heard of and not yet connected to).
NobodyLeftBehind ==
    /\ what = "threads" => Threads!TypeOK /\ Threads!OnlyFailuresHang
    /\ what = "cluster" => Cluster!StopReachesAll /\ Cluster!JoinedClientsHear
    /\ IsAuto => Auto!TypeOK /\ Auto!OnlyFaultsStop

\* The Excel report: a rate stands under its own record size, except above the crossover with a
\* multiplier other than 2, and never under the name of another test.
ReportLinesUp == IsAuto => Auto!TablesLineUp /\ Auto!ReportNamesResults

\* docs/iozone.1, "Generate Excel report": a test that was run appears in it.
ReportShowsResults == IsAuto => Auto!ReportShowsResults

\* Every program run comes to its end.
Termination == <>Over
=============================================================================
