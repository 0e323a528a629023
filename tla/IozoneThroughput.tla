--------------------------- MODULE IozoneThroughput ---------------------------
(***************************************************************************)
(* programs/iozone/.../iozone.c, throughput mode on one machine (-t): the  *)
(* parent runs a list of tests; for every test it starts num_child         *)
(* children, stops them on a barrier of flags in shared memory, lets them  *)
(* go, and adds up what they transferred until the first one was done.     *)
(***************************************************************************)
EXTENDS Integers, Sequences, FiniteSets, FiniteSetsExt

CONSTANTS num_child,   \* children per test
          numrecs64,   \* records per file
          stride,      \* -j
          Options,     \* the command lines of this instance, see OptionSet
          Faults,      \* which calls may fail, see FaultKinds
          FaultBound   \* how many kinds may fail in one program run

FaultKinds == {"fork", "open", "log", "seek", "io", "data", "interrupt"}
Masks == {"WRITER", "READER", "REVERSE", "STRIDE_READ", "RANDOM_RW", "RANDOM_MIX", "PWRITER", "PREADER"}
\* verify is FALSE for sverify = 2, which a telemetry file sets.
OptionSet == [tests : SUBSET Masks, xflag : BOOLEAN, use_thread : BOOLEAN, share_file : BOOLEAN,
              seq_mix : BOOLEAN, no_unlink : BOOLEAN, noretest : BOOLEAN, verify : BOOLEAN]

ConstantsOK ==
    /\ num_child \in Nat \ {0} /\ numrecs64 \in Nat \ {0} /\ stride \in Nat \ {0}
    /\ Options \subseteq OptionSet /\ (\A o \in Options : "WRITER" \in o.tests)
    /\ Faults \subseteq FaultKinds /\ FaultBound \in Nat

VARIABLES
    opt,         \* the options
    phase, at, i,       \* the parent: the test, what it does in it, its loop counter
    flag, actual,       \* child_stat[c].flag and .actual, in shared memory
    stop_flag,
    files,       \* the records of each file and whether its name exists
    child,       \* the children: the calls to go and the loop variables
    faults,      \* the kinds of failure so far, each happens at most once
    early,       \* records each child transferred before the stop flag went up
    report       \* what the parent printed for the last test

parent == <<phase, at, i, report>>
shared == <<flag, actual, stop_flag>>
vars == <<opt, parent, shared, files, child, faults, early>>

Children == 0..(num_child - 1)
Records  == 0..(numrecs64 - 1)

\* States of the barrier.
HOLD == 0
READY == 1
BEGIN == 2

-----------------------------------------------------------------------------
(* The tests of throughput_test.  The code of each starts the children,     *)
(* waits for their flags, lets them go, joins them, adds up and prints:     *)
(* StartChild to Collect model that once for all twelve.  Here is what they *)
(* differ in.  zero: the stop flag is cleared before the children start;    *)
(* clear: after they are done; rehold: the parent puts all flags back to    *)
(* HOLD.                                                                    *)

Test(test, mask, zero, clear, rehold) ==
    [test |-> test, mask |-> mask, zero |-> zero, clear |-> clear, rehold |-> rehold]

writer_phase   == Test("write",   "WRITER",      FALSE, TRUE,  TRUE)
rewriter_phase == Test("rwrite",  "WRITER",      FALSE, TRUE,  TRUE)
reader_phase   == Test("read",    "READER",      FALSE, FALSE, FALSE)
rereader_phase == Test("rread",   "READER",      TRUE,  FALSE, FALSE)
reverse_phase  == Test("reverse", "REVERSE",     TRUE,  FALSE, FALSE)
stride_phase   == Test("stride",  "STRIDE_READ", TRUE,  FALSE, FALSE)
ranread_phase  == Test("ranread", "RANDOM_RW",   TRUE,  FALSE, FALSE)
mix_phase      == Test("mix",     "RANDOM_MIX",  TRUE,  FALSE, FALSE)
ranwrite_phase == Test("ranwrite", "RANDOM_RW",  TRUE,  FALSE, FALSE)
pwrite_phase   == Test("pwrite",  "PWRITER",     TRUE,  FALSE, FALSE)
pread_phase    == Test("pread",   "PREADER",     TRUE,  FALSE, FALSE)
cleanup_phase  == Test("cleanup", "none",        FALSE, FALSE, TRUE)

Phases == <<writer_phase, rewriter_phase, reader_phase, rereader_phase, reverse_phase, stride_phase,
            ranread_phase, mix_phase, ranwrite_phase, pwrite_phase, pread_phase, cleanup_phase>>

Current == Phases[phase]

\* The goto next<n> of each test.
Skipped(p) ==
    CASE p.test = "cleanup"             -> opt.no_unlink
      [] p.test \in {"rwrite", "rread"} -> p.mask \notin opt.tests \/ opt.noretest
      [] OTHER                          -> p.mask \notin opt.tests

-----------------------------------------------------------------------------
(* The children's programs: what a test does up to the barrier and after   *)
(* it (start), how it handles a record, and how it finishes.               *)

\* A writer notes what it did when it is told to stop, and goes on; a reader leaves the loop.
Record(io, order, stop, seeks) == [io |-> io, order |-> order, stop |-> stop, seeks |-> seeks]

thread_write_start    == <<"creat", "open", "ready", "begin", "log">>
\* A mutant: the writer stops when it is told to.
thread_write_recordStops == Record("write", "forward", "break", FALSE)
thread_write_record   == Record("write", "forward", "capture", FALSE)
thread_write_finish   == <<"stop", "stats", "hold">>

thread_pwrite_start   == <<"creat", "open", "ready", "begin", "log">>
thread_pwrite_record  == Record("write", "forward", "capture", FALSE)
thread_pwrite_finish  == <<"stop", "stats", "hold">>

thread_rwrite_start   == <<"open", "log", "ready", "begin">>
thread_rwrite_record  == Record("write", "forward", "break", FALSE)
thread_rwrite_finish  == <<"stats", "stop", "hold">>

thread_read_start     == <<"open", "log", "ready", "begin">>
thread_read_record    == Record("read", "forward", "break", FALSE)
thread_read_finish    == <<"stats", "stop", "hold">>

thread_pread_start    == <<"open", "log", "ready", "begin">>
thread_pread_record   == Record("read", "forward", "break", FALSE)
thread_pread_finish   == <<"stats", "stop", "hold">>

thread_rread_start    == <<"open", "log", "ready", "begin">>
thread_rread_record   == Record("read", "forward", "break", FALSE)
thread_rread_finish   == <<"stats", "stop", "hold">>

thread_reverse_read_start  == <<"open", "log", "ready", "begin", "seek">>
thread_reverse_read_record == Record("read", "backward", "break", FALSE)
thread_reverse_read_finish == <<"stats", "stop", "hold">>

thread_stride_read_start   == <<"open", "log", "ready", "begin">>
thread_stride_read_record  == Record("read", "stride", "break", TRUE)
thread_stride_read_finish  == <<"stats", "stop", "hold">>

thread_ranread_start  == <<"open", "log", "ready", "begin">>
thread_ranread_record == Record("read", "random", "break", TRUE)
thread_ranread_finish == <<"stats", "stop", "hold">>

thread_ranwrite_start  == <<"creat", "open", "ready", "begin", "log">>
thread_ranwrite_record == Record("write", "random", "capture", TRUE)
thread_ranwrite_finish == <<"stop", "stats", "hold">>

\* The cleanup removes the file before the barrier, raises the stop flag even under -x.
thread_cleanup_test    == <<"unlink", "ready", "begin", "stop", "hold">>

\* thread_mix_test without -+p and -K: the even children read, the odd ones write.
thread_mix_test(c) ==
    IF c % 2 = 0 THEN (IF opt.seq_mix THEN "read" ELSE "ranread")
                 ELSE (IF opt.seq_mix THEN "write" ELSE "ranwrite")

Function(c) == IF Current.test = "mix" THEN thread_mix_test(c) ELSE Current.test

Program(test) ==
    CASE test = "write"    -> thread_write_start        \o <<"records">> \o thread_write_finish
      [] test = "pwrite"   -> thread_pwrite_start       \o <<"records">> \o thread_pwrite_finish
      [] test = "rwrite"   -> thread_rwrite_start       \o <<"records">> \o thread_rwrite_finish
      [] test = "read"     -> thread_read_start         \o <<"records">> \o thread_read_finish
      [] test = "pread"    -> thread_pread_start        \o <<"records">> \o thread_pread_finish
      [] test = "rread"    -> thread_rread_start        \o <<"records">> \o thread_rread_finish
      [] test = "reverse"  -> thread_reverse_read_start \o <<"records">> \o thread_reverse_read_finish
      [] test = "stride"   -> thread_stride_read_start  \o <<"records">> \o thread_stride_read_finish
      [] test = "ranread"  -> thread_ranread_start      \o <<"records">> \o thread_ranread_finish
      [] test = "ranwrite" -> thread_ranwrite_start     \o <<"records">> \o thread_ranwrite_finish
      [] test = "cleanup"  -> thread_cleanup_test

RecordOf(test) ==
    CASE test = "write"    -> thread_write_record
      [] test = "pwrite"   -> thread_pwrite_record
      [] test = "rwrite"   -> thread_rwrite_record
      [] test = "read"     -> thread_read_record
      [] test = "pread"    -> thread_pread_record
      [] test = "rread"    -> thread_rread_record
      [] test = "reverse"  -> thread_reverse_read_record
      [] test = "stride"   -> thread_stride_read_record
      [] test = "ranread"  -> thread_ranread_record
      [] test = "ranwrite" -> thread_ranwrite_record
      [] test = "cleanup"  -> Record("none", "forward", "break", FALSE)

File(c) == IF opt.share_file THEN 0 ELSE c

-----------------------------------------------------------------------------
(* A child. todo: the calls to go; at: where in the record loop; n, pos:    *)
(* loop variable and position; sofar: records counted; wrap: stripewrap.    *)

NoChild == [todo |-> <<>>, at |-> "none", n |-> 0, pos |-> 0, sofar |-> 0, stopped |-> FALSE, wrap |-> 0]
Forked(c) == [NoChild EXCEPT !.todo = Program(Function(c)), !.at = "top",
                             !.pos = IF Function(c) = "reverse" THEN numrecs64 - 1 ELSE 0]

Runs(c)   == child[c].todo # <<>>
Next1(c)  == Head(child[c].todo)
Goes(c, op) == Runs(c) /\ Next1(c) = op
Advance(c) == child' = [child EXCEPT ![c].todo = Tail(@)]
MayFail(kind) == kind \in Faults \ faults /\ Cardinality(faults) < FaultBound
Fails(kind) == MayFail(kind) /\ faults' = faults \cup {kind}
RecordFor(c) == RecordOf(Function(c))
Size(f) == IF files[f].recs = {} THEN 0 ELSE 1 + Max(files[f].recs)

\* exit() ends a child process; a thread takes the whole program with it.
Exit(c) ==
    IF opt.use_thread
    THEN /\ child' = [k \in Children |-> NoChild]
         /\ at' = "exit" /\ UNCHANGED <<phase, i, report>>
    ELSE child' = [child EXCEPT ![c] = NoChild] /\ UNCHANGED parent

-----------------------------------------------------------------------------
(* Before and after the record loop. *)

I_CREAT(c) ==
    /\ Goes(c, "creat")
    /\ \/ /\ Advance(c)
          /\ files' = [files EXCEPT ![File(c)] = [linked |-> TRUE, recs |-> {}, bad |-> {}]]
          /\ UNCHANGED <<faults, parent>>
       \/ Fails("open") /\ Exit(c) /\ UNCHANGED files
    /\ UNCHANGED <<opt, shared, early>>

\* A failed open leaves the flag at HOLD; the rewriter says so explicitly.
I_OPEN(c) ==
    /\ Goes(c, "open")
    /\ \/ files[File(c)].linked /\ Advance(c) /\ UNCHANGED <<faults, parent>>
       \/ Fails("open") /\ Exit(c)
       \/ ~files[File(c)].linked /\ Exit(c) /\ UNCHANGED faults
    /\ UNCHANGED <<opt, shared, files, early>>

\* The latency and log files (-Q, -+L); writers open them only after the barrier.
OpenLogs(c) ==
    /\ Goes(c, "log")
    /\ \/ Advance(c) /\ UNCHANGED <<faults, parent>>
       \/ Fails("log") /\ Exit(c)
    /\ UNCHANGED <<opt, shared, files, early>>

Ready(c) ==
    /\ Goes(c, "ready") /\ Advance(c)
    /\ flag' = [flag EXCEPT ![c] = READY]
    /\ actual' = [actual EXCEPT ![c] = IF Function(c) = "cleanup" THEN @ ELSE 0]
    /\ UNCHANGED <<opt, parent, stop_flag, files, faults, early>>

\* A mutant: a child goes on once the parent has not told it to hold.
ReleasedReady(c) ==
    /\ Goes(c, "begin") /\ flag[c] # HOLD /\ Advance(c)
    /\ UNCHANGED <<opt, parent, shared, files, faults, early>>

\* while(child_stat->flag!=CHILD_STATE_BEGIN) Poll
Released(c) ==
    /\ Goes(c, "begin") /\ flag[c] = BEGIN /\ Advance(c)
    /\ UNCHANGED <<opt, parent, shared, files, faults, early>>

\* The reverse reader's lseek to the last record fails on an empty file.
SeekEnd(c) ==
    /\ Goes(c, "seek")
    /\ \/ Size(File(c)) > 0 /\ Advance(c) /\ UNCHANGED <<faults, parent>>
       \/ Size(File(c)) = 0 /\ Exit(c) /\ UNCHANGED faults
       \/ Fails("seek") /\ Exit(c)
    /\ UNCHANGED <<opt, shared, files, early>>

RaiseStop(c) ==
    /\ Goes(c, "stop") /\ Advance(c)
    /\ stop_flag' = (stop_flag \/ ~opt.xflag \/ Function(c) = "cleanup")
    /\ UNCHANGED <<opt, parent, flag, actual, files, faults, early>>

\* A mutant: what was written after the stop is counted too.
StatsAll(c) ==
    /\ Goes(c, "stats") /\ Advance(c)
    /\ actual' = [actual EXCEPT ![c] = child[c].n]
    /\ UNCHANGED <<opt, parent, flag, stop_flag, files, faults, early>>

Stats(c) ==
    /\ Goes(c, "stats") /\ Advance(c)
    /\ actual' = [actual EXCEPT ![c] = IF child[c].stopped THEN @ ELSE child[c].sofar]
    /\ UNCHANGED <<opt, parent, flag, stop_flag, files, faults, early>>

Hold(c) ==
    /\ Goes(c, "hold") /\ Advance(c)
    /\ flag' = [flag EXCEPT ![c] = HOLD]
    /\ UNCHANGED <<opt, parent, actual, stop_flag, files, faults, early>>

Unlink(c) ==
    /\ Goes(c, "unlink") /\ Advance(c)
    /\ files' = [files EXCEPT ![c].linked = FALSE]
    /\ UNCHANGED <<opt, parent, shared, faults, early>>

-----------------------------------------------------------------------------
(* The record loop. *)

InLoop(c, where) == Goes(c, "records") /\ child[c].at = where
Leave(c) == child' = [child EXCEPT ![c].todo = Tail(@)]

\* The next position of the stride reader.
StrideNext(k) ==
    IF k.pos + 1 + stride >= numrecs64 - 1
    THEN [k EXCEPT !.wrap = @ + 1,
                   !.pos = IF numrecs64 <= stride THEN 0 ELSE (k.wrap + 1) % numrecs64]
    ELSE [k EXCEPT !.pos = @ + stride]

\* The top of the loop: its end, the stop flag, the position, the lseek of the random tests.
LoopTop(c) ==
    LET r == RecordFor(c)
        k == child[c]
        capture == stop_flag /\ ~k.stopped /\ r.stop = "capture"
    IN
    /\ InLoop(c, "top")
    /\ \/ (k.n = numrecs64 \/ (stop_flag /\ r.stop = "break")) /\ Leave(c) /\ UNCHANGED actual
       \/ /\ k.n < numrecs64 /\ ~(stop_flag /\ r.stop = "break")
          /\ actual' = [actual EXCEPT ![c] = IF capture THEN k.sofar ELSE @]
          /\ \E p \in IF r.order = "random" THEN Records ELSE {k.pos} :
                child' = [child EXCEPT ![c].at = "io", ![c].pos = p, ![c].stopped = @ \/ capture]
    /\ UNCHANGED <<opt, parent, flag, stop_flag, files, faults, early>>

\* lseek fails in the random tests before, in the stride test after the transfer:
\* the child exits and leaves its flag at BEGIN.
SeekFails(c) ==
    /\ InLoop(c, "io") /\ RecordFor(c).seeks
    /\ Fails("seek") /\ Exit(c)
    /\ UNCHANGED <<opt, shared, files, early>>

Transferred(c) ==
    /\ child' = [child EXCEPT ![c].at = "count"]
    /\ early' = [early EXCEPT ![c] = IF stop_flag THEN @ ELSE @ + 1]

\* read() of a record behind the end of the file is short.
Short(c) == RecordFor(c).io = "read" /\ child[c].pos >= Size(File(c))

\* verify_buffer: holes and damaged records do not hold the pattern.
Mismatch(c) ==
    LET f == files[File(c)] IN
    RecordFor(c).io = "read" /\ opt.verify /\ child[c].pos \in (0..(Size(File(c)) - 1)) \ (f.recs \ f.bad)

\* The "data" fault: the file system loses what was written.
Transfer(c) ==
    LET p == child[c].pos IN
    /\ InLoop(c, "io") /\ ~Short(c) /\ ~Mismatch(c) /\ Transferred(c)
    /\ IF RecordFor(c).io = "write"
       THEN \/ /\ files' = [files EXCEPT ![File(c)].recs = @ \cup {p}, ![File(c)].bad = @ \ {p}]
               /\ UNCHANGED faults
            \/ /\ Fails("data")
               /\ files' = [files EXCEPT ![File(c)].recs = @ \cup {p}, ![File(c)].bad = @ \cup {p}]
       ELSE UNCHANGED <<files, faults>>
    /\ UNCHANGED <<opt, parent, shared>>

\* signal_handler() of the parent's process: every file but the first goes in any case.
Unlinked == [c \in Children |-> [files[c] EXCEPT !.linked = @ /\ opt.no_unlink /\ c = 0]]

\* A child that fails removes its file, puts its flag to HOLD and exits; the rewriter calls
\* signal_handler(), which in a thread removes all files.
GiveUp(c) ==
    /\ files' = IF Function(c) = "rwrite" /\ opt.use_thread THEN Unlinked
                ELSE [files EXCEPT ![File(c)].linked = @ /\ opt.no_unlink]
    /\ flag' = [flag EXCEPT ![c] = HOLD]
    /\ Exit(c) /\ UNCHANGED actual

\* A short transfer of a child that was told to stop is put down to that: a reader leaves the
\* loop, a writer notes its count and tries once more.
TransferFails(c) ==
    LET r == RecordFor(c)
        again == stop_flag /\ r.stop = "capture" /\ ~child[c].stopped
        leave == stop_flag /\ r.stop = "break"
    IN
    /\ InLoop(c, "io")
    /\ \/ Short(c) /\ UNCHANGED faults
       \/ Fails("io")
    /\ \/ /\ again
          /\ actual' = [actual EXCEPT ![c] = child[c].sofar]
          /\ child' = [child EXCEPT ![c].stopped = TRUE]
          /\ UNCHANGED <<parent, flag, files>>
       \/ leave /\ Leave(c) /\ UNCHANGED <<parent, flag, actual, files>>
       \/ ~again /\ ~leave /\ GiveUp(c)
    /\ UNCHANGED <<opt, stop_flag, early>>

VerifyFails(c) ==
    /\ InLoop(c, "io") /\ Mismatch(c) /\ GiveUp(c)
    /\ UNCHANGED <<opt, stop_flag, faults, early>>

\* The record is counted, and taken back when the stop flag is up by now.
Count(c) ==
    LET r == RecordFor(c)
        k == child[c]
        counted == [k EXCEPT !.n = @ + 1, !.sofar = IF stop_flag THEN @ ELSE @ + 1, !.at = "top"]
    IN
    /\ InLoop(c, "count")
    /\ child' = [child EXCEPT ![c] =
                    CASE r.order = "forward"  -> [counted EXCEPT !.pos = @ + 1]
                      [] r.order = "backward" -> [counted EXCEPT !.pos = @ - 1]
                      [] r.order = "stride"   -> StrideNext(counted)
                      [] r.order = "random"   -> [counted EXCEPT !.pos = 0]]
    /\ UNCHANGED <<opt, parent, shared, files, faults, early>>

ChildStep(c) ==
    \/ I_CREAT(c) \/ I_OPEN(c) \/ OpenLogs(c) \/ Ready(c) \/ Released(c) \/ SeekEnd(c)
    \/ RaiseStop(c) \/ Stats(c) \/ Hold(c) \/ Unlink(c)
    \/ LoopTop(c) \/ SeekFails(c) \/ Transfer(c) \/ TransferFails(c) \/ VerifyFails(c) \/ Count(c)

-----------------------------------------------------------------------------
(* The parent. *)

Loop(where) == at = where
Parent(p, where, n) == phase' = p /\ at' = where /\ i' = n
Counting(where, next) == IF i + 1 < num_child THEN Parent(phase, where, i + 1) ELSE Parent(phase, next, 0)

NoReport == [min |-> 0, max |-> 0, total |-> 0]

Init ==
    /\ opt \in Options
    /\ phase = 1 /\ at = "next" /\ i = 0 /\ report = NoReport
    /\ flag = [c \in Children |-> HOLD] /\ actual = [c \in Children |-> 0] /\ stop_flag = FALSE
    /\ files = [c \in Children |-> [linked |-> FALSE, recs |-> {}, bad |-> {}]]
    /\ child = [c \in Children |-> NoChild]
    /\ faults = {} /\ early = [c \in Children |-> 0]

\* From one test to the next: skip it, or clear the stop flag if the test does that first.
NextTest ==
    /\ Loop("next")
    /\ IF Skipped(Current)
       THEN Parent(phase, "done", 0) /\ UNCHANGED <<stop_flag, early>>
       ELSE /\ Parent(phase, "create", 0)
            /\ stop_flag' = (stop_flag /\ ~Current.zero)
            /\ early' = [c \in Children |-> 0]
    /\ UNCHANGED <<opt, report, flag, actual, files, child, faults>>

\* fork() or pthread_create().
StartChild ==
    /\ Loop("create")
    /\ child' = [child EXCEPT ![i] = Forked(i)]
    /\ Counting("create", "wait")
    /\ UNCHANGED <<opt, report, shared, files, faults, early>>

\* A failed fork kills the children started so far, except that Kill, which all tests but
\* the first use, does nothing under -x.  mythread_create never reports a failure.
StartFails ==
    /\ Loop("create") /\ Fails("fork")
    /\ IF opt.use_thread
       THEN Counting("create", "wait") /\ UNCHANGED child
       ELSE /\ Parent(phase, "exit", 0)
            /\ child' = IF opt.xflag /\ Current.test # "write" THEN child
                        ELSE [c \in Children |-> NoChild]
    /\ UNCHANGED <<opt, report, shared, files, early>>

\* while(child_stat->flag==CHILD_STATE_HOLD) Poll
AwaitReady ==
    /\ Loop("wait") /\ flag[i] # HOLD
    /\ Counting("wait", "begin")
    /\ UNCHANGED <<opt, report, shared, files, child, faults, early>>

LetGo ==
    /\ Loop("begin")
    /\ flag' = [flag EXCEPT ![i] = BEGIN]
    /\ Counting("begin", "join")
    /\ UNCHANGED <<opt, report, actual, stop_flag, files, child, faults, early>>

\* wait(0) takes any child that has exited, pthread_join waits for this one.
Join ==
    /\ Loop("join")
    /\ IF opt.use_thread THEN ~Runs(i) ELSE Cardinality({c \in Children : ~Runs(c)}) > i
    /\ Counting("join", "collect")
    /\ UNCHANGED <<opt, report, shared, files, child, faults, early>>

\* The running minimum: a minimum of 0 is taken for "none yet".
MinXfer[n \in 0..num_child] ==
    IF n = 0 THEN 0
    ELSE LET m == IF MinXfer[n - 1] = 0 THEN actual[n - 1] ELSE MinXfer[n - 1]
         IN IF actual[n - 1] < m THEN actual[n - 1] ELSE m

Collect ==
    /\ Loop("collect")
    /\ report' = IF Current.test = "cleanup" THEN report
                 ELSE [min |-> MinXfer[num_child], max |-> Max({actual[c] : c \in Children}),
                       total |-> MapThenSumSet(LAMBDA c : actual[c], Children)]
    /\ flag' = IF Current.rehold THEN [c \in Children |-> HOLD] ELSE flag
    /\ stop_flag' = (stop_flag /\ ~Current.clear)
    /\ Parent(phase, "done", 0)
    /\ UNCHANGED <<opt, actual, files, child, faults, early>>

\* The end of throughput_test, or the next test.
EndTest ==
    /\ Loop("done")
    /\ IF phase = Len(Phases) THEN Parent(phase, "exit", 0) ELSE Parent(phase + 1, "next", 0)
    /\ UNCHANGED <<opt, report, shared, files, child, faults, early>>

\* SIGINT or SIGTERM: signal_handler removes the files, then kills the children.
Interrupt ==
    /\ at \notin {"exit", "killing"} /\ Fails("interrupt")
    /\ Parent(phase, "killing", 0) /\ files' = Unlinked
    /\ UNCHANGED <<opt, report, shared, child, early>>

KillChildren ==
    /\ Loop("killing")
    /\ Parent(phase, "exit", 0) /\ child' = [c \in Children |-> NoChild]
    /\ UNCHANGED <<opt, report, shared, files, faults, early>>

ParentStep ==
    \/ NextTest \/ StartChild \/ StartFails \/ AwaitReady \/ LetGo \/ Join \/ Collect \/ EndTest
    \/ Interrupt \/ KillChildren

Next == ParentStep \/ \E c \in Children : ChildStep(c)

Spec == Init /\ [][Next]_vars

-----------------------------------------------------------------------------
(* Nobody can move the program on. *)
NeverReady == at = "wait" /\ flag[i] = HOLD /\ ~Runs(i)
NeverReleased == at = "join" /\ \E c \in Children : Goes(c, "begin") /\ flag[c] # BEGIN
Orphan == at = "exit" /\ \E c \in Children : Runs(c)
Hung == NeverReady \/ NeverReleased \/ Orphan
Over == Hung \/ (at = "exit" /\ \A c \in Children : ~Runs(c))

-----------------------------------------------------------------------------
(* Properties. *)

TypeOK ==
    /\ opt \in Options /\ phase \in 1..Len(Phases) /\ i \in Children
    /\ flag \in [Children -> {HOLD, READY, BEGIN}] /\ stop_flag \in BOOLEAN
    /\ actual \in [Children -> 0..numrecs64]
    /\ \A c \in Children : child[c].n \in 0..numrecs64 /\ child[c].sofar \in 0..numrecs64
    /\ \A c \in Children : InLoop(c, "io") => child[c].pos \in Records

Failures == faults \ {"interrupt"}

\* Stonewalling (-x in iozone.1): the barrier holds.  While one child transfers, no child of the
\* test has yet to open its file or say that it is ready.
BarrierHolds ==
    (\E c \in Children : Goes(c, "records")) =>
        \A c \in Children : "ready" \notin {child[c].todo[k] : k \in DOMAIN child[c].todo}

\* ... unless a child of an earlier test died without putting its flag back.
BarrierHoldsAfterCleanExits ==
    faults \cap {"seek", "log", "io"} = {} => BarrierHolds

\* Stonewalling: what the parent adds up is what each child had transferred when the first one
\* finished, less at most the record that was in flight; that first child did all of its
\* records, and without stonewalling every child did.
StonewallCounts ==
    at = "collect" /\ Failures = {} /\ Current.test # "cleanup" =>
        /\ \A c \in Children : actual[c] \in (early[c] - 1)..early[c]
        /\ \E c \in Children : actual[c] = numrecs64
        /\ opt.xflag => \A c \in Children : actual[c] = numrecs64

Doomed(c) ==
    \/ Goes(c, "open") /\ ~files[File(c)].linked
    \/ Goes(c, "seek") /\ Size(File(c)) = 0
    \/ InLoop(c, "io") /\ (Short(c) \/ Mismatch(c))

\* Random writers create their file anew and need not write its last record.
LeavesHoles ==
    \/ Current.test = "pread" /\ "PWRITER" \notin opt.tests
           /\ ("RANDOM_RW" \in opt.tests \/ ("RANDOM_MIX" \in opt.tests /\ ~opt.seq_mix))
    \/ Current.test = "mix" /\ opt.share_file

\* "Writer must finish even though told to stop. Otherwise the readers will fail": every test
\* finds files that hold all records it asks for.
ReadersFindWholeFiles ==
    faults = {} /\ ~LeavesHoles /\ ~("RANDOM_MIX" \in opt.tests /\ opt.share_file) =>
        \A c \in Children : ~Doomed(c)

\* The program hangs, or leaves children behind, only after a call failed; children are left
\* behind only when -x disables Kill.
OnlyFailuresHang ==
    /\ Hung => Failures # {} \/ ("RANDOM_MIX" \in opt.tests /\ opt.share_file)
    /\ Orphan => opt.xflag

Done == Over /\ UNCHANGED vars
NextOrDone == Next \/ Done
====
