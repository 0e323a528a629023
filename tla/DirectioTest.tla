---------------------------- MODULE DirectioTest ----------------------------
(***************************************************************************)
(* programs/directio_test/directio_test.c: forked children write chunks    *)
(* with O_DIRECT and log every write, under one System V semaphore.  In    *)
(* the destructive mode the log goes to another host and a child resets    *)
(* the machine.  Afterwards a second run of the program (-V) verifies the  *)
(* file against the log.                                                   *)
(*                                                                         *)
(* The file is kept in halves of a chunk, since write_at may need several  *)
(* pwrite calls: halves 2i and 2i+1 are the head and the tail of chunk i.  *)
(***************************************************************************)
EXTENDS DirectioVerify

CONSTANTS num_children, \* how many processes are forked
          Chars,        \* fill characters
          MaxTime,      \* bound on the clock
          IOFaults,     \* TRUE: write_at and log_write may fail
          SysrqFails    \* TRUE: the write to sysrq-trigger may fail

ConstantsOK ==
    num_children \in Nat \ {0} /\ MaxTime \in Nat \ {0} /\ Chars # {}

VARIABLES test_flags, \* the mode: "BASC", "APPD", "FIHL" or "DSCV"
          num_chunks, \* file_size / CHUNK_SIZE
          v_chunks,   \* the same, as given to the verification
          pc,       \* pc[c]: where child c is
          j,        \* j[c]: its loop counter
          wu,       \* wu[c]: the write unit it is working on
          sem,      \* value of the semaphore
          undo,     \* undo[c]: what SEM_UNDO adds when c exits
          exit,     \* exit[c]: its exit status
          clock,    \* gettimeofday
          file,     \* file[h]: the write unit half h was written from
          isize,    \* file size in halves
          log,      \* records the verifier will read
          sock,     \* records sent but not yet with the listener
          lost,     \* records lost in the reset, or never written
          phase,    \* "run", "verify", "done"
          wait_i,   \* children the parent has waited for
          reaped,   \* children wait3 or waitpid has reaped
          status,   \* the parent's local status
          ret,      \* result of the parent, of verify_file in phase "done"
          wus,      \* wus[i]: the record verify_file has kept for chunk i
          v_k,      \* records of the log it has read
          v_i       \* next chunk to verify

options == <<test_flags, num_chunks, v_chunks>>
child == <<pc, j, wu, sem, undo, exit, clock, file, isize>>
logs == <<log, sock, lost>>
parent == <<wait_i, reaped, status>>
verifier == <<ret, wus, v_k, v_i>>
vars == <<options, child, logs, parent, verifier, phase>>

\* child_pid_list: the children in the order of their creation.
Children == 1 .. num_children

Chunks == 0 .. num_chunks - 1
Halves == 0 .. 2 * num_chunks - 1
Units == [no : Chunks, ts : 1 .. MaxTime, ch : Chars]

\* prep_orig_file_in_chunks, for -b only; -f truncates a new file up.
Prepared(h) == [no |-> h \div 2, ts |-> 1, ch |-> CHOOSE c \in Chars : TRUE]

\* What half h holds when the children start.
Original(h) == IF test_flags = "BASC" THEN Prepared(h) ELSE ZeroUnit

Options ==
    /\ test_flags \in {"BASC", "APPD", "FIHL", "DSCV"}
    /\ num_chunks \in Nat \ {0}
    /\ v_chunks \in 0 .. num_chunks

Init ==
    /\ Options
    /\ pc = [c \in Children |-> "p"]
    /\ j = [c \in Children |-> 0]
    /\ wu = [c \in Children |-> ZeroUnit]
    /\ sem = 1
    /\ undo = [c \in Children |-> 0]
    /\ exit = [c \in Children |-> 0]
    /\ clock = 1
    /\ file = [h \in Halves |-> Original(h)]
    /\ isize = IF test_flags \in {"BASC", "FIHL"} THEN 2 * num_chunks ELSE 0
    /\ log = <<>>
    /\ sock = <<>>
    /\ lost = {}
    /\ phase = "run"
    /\ wait_i = 0
    /\ reaped = {}
    /\ status \in {0, 1}          \* never initialised
    /\ ret = 0
    /\ wus = NoRecords(v_chunks)
    /\ v_k = 0
    /\ v_i = 0

Goto(c, l) == pc' = [pc EXCEPT ![c] = l]

\* A child_bail that always posts the semaphore.
ExitAlwaysPosts(c, rc) ==
    /\ Goto(c, "exited")
    /\ exit' = [exit EXCEPT ![c] = rc]
    /\ sem' = sem + 1
    /\ undo' = [undo EXCEPT ![c] = 0]

\* exit(ret) of a child; the kernel gives back what it holds (SEM_UNDO).
Exit(c, rc) ==
    /\ Goto(c, "exited")
    /\ exit' = [exit EXCEPT ![c] = rc]
    /\ sem' = sem + undo[c]
    /\ undo' = [undo EXCEPT ![c] = 0]

\* The end of an iteration of the write loop.
NextChunk(c) ==
    /\ j' = [j EXCEPT ![c] = @ + 1]
    /\ IF j[c] + 1 < num_chunks
       THEN Goto(c, "p") /\ UNCHANGED <<sem, undo, exit>>
       ELSE Exit(c, 0)

(***************************************************************************)
(* One iteration of the write loop of a child.                             *)
(***************************************************************************)
\* P of a child that draws its write unit before it has the semaphore.
PStampEarly(c) ==
    /\ pc[c] = "p" /\ sem > 0
    /\ sem' = sem - 1
    /\ undo' = [undo EXCEPT ![c] = @ + 1]
    /\ \E u \in Units :
           /\ test_flags \in {"APPD", "DSCV"} => u.no = j[c]
           /\ wu' = [wu EXCEPT ![c] = u]
           /\ clock' = IF u.ts < clock THEN clock ELSE u.ts
    /\ Goto(c, "head")
    /\ UNCHANGED <<j, exit, file, isize, logs, parent, verifier, phase>>

P(c) ==
    /\ pc[c] = "p" /\ sem > 0
    /\ sem' = sem - 1
    /\ undo' = [undo EXCEPT ![c] = @ + 1]
    /\ \E u \in Units :
           /\ test_flags \in {"APPD", "DSCV"} => u.no = j[c]
           /\ u.ts >= clock
           /\ wu' = [wu EXCEPT ![c] = u]
           /\ clock' = u.ts
    /\ Goto(c, "head")
    /\ UNCHANGED <<j, exit, file, isize, logs, parent, verifier, phase>>

PutHalf(c, h) ==
    /\ file' = [file EXCEPT ![h] = wu[c]]
    /\ isize' = IF h < isize THEN isize ELSE h + 1
    /\ UNCHANGED <<j, wu, sem, undo, exit, clock, logs, parent, verifier, phase>>

WriteHead(c) ==
    /\ pc[c] = "head"
    /\ PutHalf(c, 2 * wu[c].no)
    /\ Goto(c, "tail")

WriteTail(c) ==
    /\ pc[c] = "tail"
    /\ PutHalf(c, 2 * wu[c].no + 1)
    /\ Goto(c, "log")

log_write(c) ==
    /\ pc[c] = "log"
    /\ IF test_flags = "DSCV"
       THEN sock' = Append(sock, wu[c]) /\ UNCHANGED log
       ELSE log' = Append(log, wu[c]) /\ UNCHANGED sock
    /\ wu' = [wu EXCEPT ![c] = ZeroUnit]      \* dead from here on
    /\ Goto(c, "v")
    /\ UNCHANGED <<j, sem, undo, exit, clock, file, isize, lost, parent,
                   verifier, phase>>

\* fprintf, fflush or fsync of the log file fails, and log_write does not look.
LogLost(c) ==
    /\ IOFaults /\ test_flags # "DSCV"
    /\ pc[c] = "log"
    /\ lost' = lost \cup {wu[c]}
    /\ wu' = [wu EXCEPT ![c] = ZeroUnit]
    /\ Goto(c, "v")
    /\ UNCHANGED <<j, sem, undo, exit, clock, file, isize, log, sock, parent,
                   verifier, phase>>

\* A pwrite or the write to the socket fails: child_bail.
IOFails(c) ==
    /\ IOFaults
    /\ pc[c] \in {"head", "tail"} \/ (pc[c] = "log" /\ test_flags = "DSCV")
    /\ Exit(c, 1)
    /\ wu' = [wu EXCEPT ![c] = ZeroUnit]
    /\ UNCHANGED <<j, clock, file, isize, logs, parent, verifier, phase>>

V(c) ==
    /\ pc[c] = "v"
    /\ sem' = sem + 1
    /\ undo' = [undo EXCEPT ![c] = @ - 1]
    /\ Goto(c, "next")
    /\ UNCHANGED <<j, wu, exit, clock, file, isize, logs, parent, verifier, phase>>

\* In the destructive mode the child may reset the machine between its third
\* and its last chunk, and always does after the last one.
MustCrash(c) == test_flags = "DSCV" /\ j[c] = num_chunks - 1
MayCrash(c) == test_flags = "DSCV" /\ j[c] > 1

Continue(c) ==
    /\ pc[c] = "next"
    /\ ~ MustCrash(c)
    /\ NextChunk(c)
    /\ UNCHANGED <<wu, clock, file, isize, logs, parent, verifier, phase>>

ReadyToCrash(c) ==
    /\ pc[c] = "next"
    /\ MustCrash(c) \/ MayCrash(c)
    /\ Goto(c, "crash_p")
    /\ UNCHANGED <<j, wu, sem, undo, exit, clock, file, isize, logs, parent,
                   verifier, phase>>

CrashP(c) ==
    /\ pc[c] = "crash_p" /\ sem > 0
    /\ sem' = sem - 1
    /\ undo' = [undo EXCEPT ![c] = @ + 1]
    /\ Goto(c, "sysrq")
    /\ UNCHANGED <<j, wu, exit, clock, file, isize, logs, parent, verifier, phase>>

\* system("echo b>/proc/sysrq-trigger").  The reset drops what the socket
\* still held; the machine comes back and the file is verified.
Sysrq(c) ==
    /\ pc[c] = "sysrq"
    /\ phase' = "verify"
    /\ lost' = lost \cup {sock[n] : n \in DOMAIN sock}
    /\ sock' = <<>>
    /\ UNCHANGED <<child, log, parent, verifier>>

\* The shell runs but its write fails: system returns the shell's status,
\* which is not negative, and the loop goes on.
SysrqDenied(c) ==
    /\ SysrqFails
    /\ pc[c] = "sysrq"
    /\ NextChunk(c)
    /\ UNCHANGED <<wu, clock, file, isize, logs, parent, verifier, phase>>

\* The shell cannot be started: system returns -1, child_bail.
SysrqNoShell(c) ==
    /\ SysrqFails
    /\ pc[c] = "sysrq"
    /\ Exit(c, 0)
    /\ UNCHANGED <<j, wu, clock, file, isize, logs, parent, verifier, phase>>

ChildStep(c) ==
    /\ phase = "run"
    /\ \/ P(c) \/ WriteHead(c) \/ WriteTail(c) \/ log_write(c) \/ LogLost(c) \/ IOFails(c)
       \/ V(c) \/ Continue(c) \/ ReadyToCrash(c) \/ CrashP(c)
       \/ Sysrq(c) \/ SysrqDenied(c) \/ SysrqNoShell(c)
    /\ UNCHANGED options

\* The network hands the oldest record to the listener.
Deliver ==
    /\ phase = "run" /\ sock # <<>>
    /\ log' = Append(log, Head(sock))
    /\ sock' = Tail(sock)
    /\ UNCHANGED <<options, child, lost, parent, verifier, phase>>

(***************************************************************************)
(* The parent.  waitpid takes the children in the order of their creation; *)
(* the SIGCHLD handler reaps every zombie whenever it runs.                *)
(***************************************************************************)
Zombies == {c \in Children : pc[c] = "exited"} \ reaped

sigchld_handler ==
    /\ phase = "run" /\ Zombies # {}
    /\ reaped' = reaped \cup Zombies
    /\ UNCHANGED <<options, child, logs, wait_i, status, verifier, phase>>

\* waitpid of a child that is already reaped fails and leaves status alone.
Waitpid ==
    /\ phase = "run" /\ wait_i < num_children
    /\ LET c == wait_i + 1
       IN  \/ /\ c \in Zombies
              /\ reaped' = reaped \cup {c}
              /\ status' = exit[c]
           \/ /\ c \in reaped
              /\ UNCHANGED <<reaped, status>>
    /\ ret' = status'
    /\ wait_i' = wait_i + 1
    /\ UNCHANGED <<options, child, logs, wus, v_k, v_i, phase>>

\* The parent ends; what is still in the socket reaches the listener.
Teardown ==
    /\ phase = "run" /\ wait_i = num_children
    /\ log' = log \o sock
    /\ sock' = <<>>
    /\ phase' = "verify"
    /\ UNCHANGED <<options, child, lost, parent, verifier>>

(***************************************************************************)
(* The verification run: one step per record of the log, then one per      *)
(* chunk.                                                                  *)
(***************************************************************************)
VerifyEnds(rc) == phase' = "done" /\ ret' = rc /\ UNCHANGED <<wus, v_k, v_i>>

\* An empty log is an "input failure"; a chunk number out of range is refused.
ReadRecord ==
    \/ log = <<>> /\ VerifyEnds(1)
    \/ /\ v_k < Len(log)
       /\ LET r == log[v_k + 1]
          IN  IF ChunkNoAccepted(r.no, v_chunks)
              THEN /\ wus' = KeepRecord(wus, r)
                   /\ v_k' = v_k + 1
                   /\ UNCHANGED <<ret, phase, v_i>>
              ELSE VerifyEnds(1)

HalfPattern(h) ==
    IF file[h] = ZeroUnit THEN HolePattern ELSE fill_chunk_pattern(file[h])

Pattern(i) ==
    LET hd == HalfPattern(2 * i)
        tl == HalfPattern(2 * i + 1)
    IN  [hno |-> hd.hno, hts |-> hd.hts, hsum |-> hd.hsum, first |-> hd.first,
         rest |-> tl.rest, tsum |-> tl.tsum, tts |-> tl.tts, tno |-> tl.tno]

\* A "continue" for the holes that skips the increment.
ChunkDoneSticks == v_i' = IF wus[v_i].ts = 0 THEN v_i ELSE v_i + 1

ChunkDone == v_i' = v_i + 1

\* read_at has no test for the end of the file: it asks for the missing bytes
\* for ever, so no step is possible for a chunk that is not in the file.
VerifyChunk ==
    \/ v_i = v_chunks /\ VerifyEnds(0)
    \/ /\ v_i < v_chunks /\ 2 * v_i + 1 < isize
       /\ IF ChunkOK(v_i, Pattern(v_i), wus)
          THEN ChunkDone /\ UNCHANGED <<ret, wus, v_k, phase>>
          ELSE VerifyEnds(1)

VerifyStep ==
    /\ phase = "verify"
    /\ \/ ReadRecord
       \/ log # <<>> /\ v_k = Len(log) /\ VerifyChunk
    /\ UNCHANGED <<options, child, logs, parent>>

Done == phase = "done" /\ UNCHANGED vars

ParentStep == Waitpid \/ Teardown

Next == (\E c \in Children : ChildStep(c)) \/ Deliver \/ sigchld_handler
        \/ ParentStep \/ VerifyStep \/ Done

Spec == Init /\ [][Next]_vars

\* The scheduler runs every process that can run.
FairSpec ==
    /\ Spec
    /\ \A c \in Children : WF_vars(ChildStep(c))
    /\ WF_vars(Deliver) /\ WF_vars(ParentStep) /\ WF_vars(VerifyStep)

-----------------------------------------------------------------------------
\* Every variable has its type; the semaphore is 0 or 1 and no child runs past
\* its num_chunks iterations.
TypeOK ==
    /\ Options
    /\ pc \in [Children -> {"p", "head", "tail", "log", "v", "next", "crash_p",
                            "sysrq", "exited"}]
    /\ j \in [Children -> 0 .. num_chunks]
    /\ wu \in [Children -> Units \cup {ZeroUnit}]
    /\ sem \in 0 .. 1
    /\ undo \in [Children -> 0 .. 1]
    /\ exit \in [Children -> 0 .. 1]
    /\ clock \in 1 .. MaxTime
    /\ file \in [Halves -> Units \cup {ZeroUnit}]
    /\ isize \in 0 .. 2 * num_chunks
    /\ log \in Seq(Units) /\ sock \in Seq(Units) /\ lost \subseteq Units
    /\ phase \in {"run", "verify", "done"}
    /\ wait_i \in 0 .. num_children /\ reaped \subseteq Children
    /\ status \in 0 .. 1 /\ ret \in 0 .. 1
    /\ wus \in [0 .. v_chunks -> Units \cup {[ZeroUnit EXCEPT !.no = i] : i \in 0 .. v_chunks}]
    /\ v_k \in 0 .. Len(log) /\ v_i \in 0 .. num_chunks

AllWell == \A c \in Children : exit[c] = 0

\* Record k of log l is the last one of its chunk.
Latest(l, k) == \A m \in k + 1 .. Len(l) : l[m].no # l[k].no

\* Whenever no child is inside its semaphore-protected section, the file is
\* what the records sent so far say it is: every chunk is whole and holds what
\* its last record says, or what it held at the start, or else the very write
\* whose record the log file has lost; and of the records of a chunk the last
\* one is the one verify_file will keep, also when two writes carry the same
\* gettimeofday value.  This is why the stamp, the write and its log record are
\* made under one semaphore_p/semaphore_v pair.
FileMatchesRecords ==
    (sem = 1 /\ phase = "run" /\ AllWell) =>
        LET l == log \o sock
        IN  /\ \A i \in Chunks : file[2 * i] = file[2 * i + 1]
            /\ \A k \in DOMAIN l :
                   Latest(l, k) => file[2 * l[k].no] = l[k] \/ file[2 * l[k].no] \in lost
            /\ \A i \in Chunks : (\A k \in DOMAIN l : l[k].no # i)
                   => file[2 * i] = Original(2 * i) \/ file[2 * i] \in lost
            /\ \A k \in DOMAIN l : \A m \in 1 .. k : l[m].no = l[k].no => l[m].ts <= l[k].ts

\* The child that resets the machine takes the semaphore first, so the reset
\* never finds a chunk half written or written and not logged by a child that
\* is still running.
ResetFindsWholeChunks ==
    (phase = "verify" /\ AllWell) =>
        /\ \A i \in Chunks : file[2 * i] = file[2 * i + 1]
        /\ \A c \in Children : pc[c] \notin {"head", "tail", "log"}

\* verify_file raises an alarm on a correct file system only after a child
\* reported a failed call, or when a record was lost: the reset dropped it after
\* the socket had accepted it (log_write does not wait for the listener), or it
\* did not reach the log file (log_write does not look at fprintf and fsync).
NoFalseAlarm ==
    (phase = "done" /\ ret # 0 /\ v_chunks = num_chunks) => lost # {} \/ ~ AllWell

\* Both: the reset finds no chunk half written and none written but not logged,
\* and the verification raises an alarm only after a failed call or a lost record.
AlarmMeansLoss == ResetFindsWholeChunks /\ NoFalseAlarm

\* Children, parent and verification all come to an end (the modes without a
\* reset): no child waits for ever for the semaphore of a dead one.
Termination == <>(phase = "done")
=============================================================================
