----------------------------- MODULE PunchHoles -----------------------------
(***************************************************************************)
(* programs/fill_verify_holes/punch_holes.c: a file is filled with random  *)
(* characters, then holes are punched into it; writes and holes are logged *)
(* for verify_holes, a hole as a write of MAGIC_HOLE_CHAR.  The log of a   *)
(* run, or the beginning of it, is then given to a second run as REPLAYLOG.*)
(*                                                                         *)
(* Replay logs are well formed; the aio mode, whose errors and mismatches  *)
(* ph_do_write drops as well, is not modelled.                             *)
(***************************************************************************)
EXTENDS WriteRecords

CONSTANT BadWrites     \* TRUE: pwrite may fail or write too little

ASSUME PunchConstants == HeaderOK /\ BadWrites \in BOOLEAN

VARIABLES p_size,        \* file_size, the SIZE argument
          p_max_iter,    \* -i ITER
          p_start,       \* ph_prep_file's position
          p_i,           \* main's loop counter
          p_wu,          \* the write unit
          p_replaying,   \* -r was given
          given,         \* the replay log
          p_replay,      \* what is left of it
          p_log,         \* what ph_log_write has printed
          p_file,
          p_pc,          \* "open", "fill", "fill_log", "fill_write",
                         \* "loop", "log", "punch", "done"
          p_ret          \* exit status

punchArgs == <<p_size, p_max_iter, p_replaying, given>>
punchVars == <<punchArgs, p_start, p_i, p_wu, p_replay, p_log, p_file, p_pc, p_ret>>

PunchBytes == 0 .. p_size - 1
Blank == [b \in PunchBytes |-> NUL]
NoUnit == [ch |-> NUL, off |-> 0, len |-> 0]

PunchInit ==
    /\ p_size \in Nat \ {0} /\ p_max_iter \in Nat
    /\ p_start = 0 /\ p_i = 0 /\ p_wu = NoUnit
    /\ p_replaying = FALSE /\ given = <<>> /\ p_replay = <<>>
    /\ p_log = <<>> /\ p_file = Blank
    /\ p_pc = "open" /\ p_ret = 0

\* The start of ph_prep_file: open, ph_resv_unwritten and ftruncate, any of which
\* may fail.
PunchOpen ==
    /\ p_pc = "open"
    /\ \/ p_pc' = "fill" /\ UNCHANGED p_ret
       \/ p_pc' = "done" /\ p_ret' = 1
    /\ UNCHANGED <<p_start, p_i, p_wu, punchArgs, p_replay, p_log, p_file>>

Cut(off, len) == IF off + len > p_size THEN p_size - off ELSE len

ph_get_rand(max) == IF max = 0 THEN {0} ELSE 0 .. max - 1

\* What ph_prep_rand_write_unit can come to; a length of 0 is drawn again.
ph_prep_rand_write_unit ==
    {[ch |-> c, off |-> r, len |-> Cut(r, l)] :
        c \in Chars, r \in ph_get_rand(p_size - 1), l \in ph_get_rand(MAX_WRITE_SIZE) \ {0}}

\* The units ph_prep_write_unit can return: none at the end of the replay log.
ph_prep_write_unit ==
    IF ~ p_replaying THEN ph_prep_rand_write_unit
    ELSE IF p_replay = <<>> THEN {} ELSE {Head(p_replay)}

Consume == p_replay' = IF p_replaying THEN Tail(p_replay) ELSE p_replay

\* The length is not cut again.
FillUnitUncut(u) == IF p_replaying THEN u ELSE [u EXCEPT !.off = p_start]

\* A drawn unit is moved to start.
FillUnit(u) == IF p_replaying THEN u ELSE [u EXCEPT !.off = p_start, !.len = Cut(p_start, @)]

PunchFill ==
    /\ p_pc = "fill" /\ p_start < p_size
    /\ \E u \in ph_prep_write_unit : p_wu' = FillUnit(u)
    /\ Consume
    /\ p_pc' = "fill_log"
    /\ UNCHANGED <<p_start, p_i, punchArgs, p_log, p_file, p_ret>>

\* The replay log ends before the file is filled: ph_prep_file returns -EINVAL,
\* main takes it for a descriptor, and feof ends its loop at once.
FillCutShort ==
    /\ p_pc = "fill" /\ p_start < p_size
    /\ ph_prep_write_unit = {}
    /\ p_pc' = "done"
    /\ UNCHANGED <<p_start, p_i, p_wu, punchArgs, p_replay, p_log, p_file, p_ret>>

FillEnds ==
    /\ p_pc = "fill" /\ p_start >= p_size
    /\ p_pc' = "loop"
    /\ UNCHANGED <<p_start, p_i, p_wu, punchArgs, p_replay, p_log, p_file, p_ret>>

ph_log_write ==
    /\ p_pc \in {"fill_log", "log"}
    /\ p_log' = Append(p_log, p_wu)
    /\ p_pc' = IF p_pc = "log" THEN "punch" ELSE "fill_write"
    /\ UNCHANGED <<p_start, p_i, p_wu, punchArgs, p_replay, p_file, p_ret>>

\* ph_do_write returns 0 whatever pwrite returns; the end of ph_prep_file's loop.
ph_do_write ==
    /\ p_pc = "fill_write"
    /\ \E n \in 0 .. p_wu.len :
           /\ n < p_wu.len => BadWrites
           /\ p_file' = ApplyWrite(p_file, [p_wu EXCEPT !.len = n])
    /\ p_start' = p_start + p_wu.off + p_wu.len
    /\ p_pc' = "fill"
    /\ UNCHANGED <<p_i, p_wu, punchArgs, p_replay, p_log, p_ret>>

\* ph_replay_eof: the "\n" of the format has read on to the end of the file once
\* the last record is taken, which in main's loop at least one has been.
ph_replay_eof == p_replaying /\ p_replay = <<>>

\* main's loop: the unit drawn or replayed is given MAGIC_HOLE_CHAR before it is logged.
PunchPrepare ==
    /\ p_pc = "loop" /\ p_i < p_max_iter /\ ~ ph_replay_eof
    /\ \E u \in ph_prep_write_unit : p_wu' = [u EXCEPT !.ch = MAGIC_HOLE_CHAR]
    /\ Consume
    /\ p_pc' = "log"
    /\ UNCHANGED <<p_start, p_i, punchArgs, p_log, p_file, p_ret>>

PunchFinish ==
    /\ p_pc = "loop" /\ (p_i = p_max_iter \/ ph_replay_eof)
    /\ p_pc' = "done"
    /\ UNCHANGED <<p_start, p_i, p_wu, punchArgs, p_replay, p_log, p_file, p_ret>>

\* The ioctl makes the range read as zeros, or fails and ends the run.
ph_punch_hole ==
    /\ p_pc = "punch"
    /\ \/ /\ p_file' = ApplyWrite(p_file, [p_wu EXCEPT !.ch = NUL])
          /\ p_i' = p_i + 1 /\ p_pc' = "loop" /\ UNCHANGED p_ret
       \/ p_pc' = "done" /\ p_ret' = 1 /\ UNCHANGED <<p_file, p_i>>
    /\ UNCHANGED <<p_start, p_wu, punchArgs, p_replay, p_log>>

\* A second run, with the first n records of the log as REPLAYLOG.
Rerun ==
    /\ p_pc = "done" /\ ~ p_replaying
    /\ \E n \in 0 .. Len(p_log) : given' = SubSeq(p_log, 1, n)
    /\ p_replay' = given' /\ p_replaying' = TRUE
    /\ p_start' = 0 /\ p_i' = 0 /\ p_wu' = NoUnit
    /\ p_log' = <<>> /\ p_file' = Blank
    /\ p_pc' = "open" /\ p_ret' = 0
    /\ UNCHANGED <<p_size, p_max_iter>>

PunchStep == PunchOpen \/ PunchFill \/ FillCutShort \/ FillEnds \/ ph_log_write \/ ph_do_write
        \/ PunchPrepare \/ PunchFinish \/ ph_punch_hole \/ Rerun

PunchDone == p_pc = "done" /\ UNCHANGED punchVars

PunchNext == PunchStep \/ PunchDone

PunchSpec == PunchInit /\ [][PunchNext]_punchVars

-----------------------------------------------------------------------------
\* ph_log_write precedes the write or the ioctl, holes lie over writes over
\* skipped bytes, and still the records printed describe the file, up to the one
\* whose operation is pending; a run that ends with 0 leaves a log verify_holes
\* accepts.
FileFollowsPunchLog ==
    LET made == IF p_pc \in {"fill_write", "punch"} THEN SubSeq(p_log, 1, Len(p_log) - 1) ELSE p_log
    IN  (p_pc # "done" \/ p_ret = 0) => p_file = LastWriterWins(PunchBytes, AsRead(made))

\* Every drawn write and hole lies inside the file and is not empty, also after
\* ph_prep_file has moved it to start.
UnitsStayInFile ==
    (p_pc \in {"fill_log", "fill_write", "log", "punch"} /\ ~ p_replaying) =>
        p_wu.len \in 1 .. MAX_WRITE_SIZE /\ End(p_wu) <= p_size

\* A log "given back to this software as a REPLAYLOG argument" (punch_holes.c:61)
\* is repeated record by record: the replay finds the end of the filling part
\* where the first run had it, although the log does not mark it, and so takes no
\* hole for a write and no write for a hole.
ReplayRepeats == (p_pc = "done" /\ p_replaying /\ p_ret = 0) => p_log = given

\* All three, while no write falls short.
PunchFollowsLog == FileFollowsPunchLog /\ UnitsStayInFile /\ ReplayRepeats
=============================================================================
