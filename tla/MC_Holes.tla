------------------------------ MODULE MC_Holes ------------------------------
(***************************************************************************)
(* Model checking of the fill_verify_holes programs.  "what" chooses the   *)
(* instance: the script on a small file; fill_holes on a file of two       *)
(* chunks and a remainder, and on one of three chunks with two iterations; *)
(* verify_holes on every log of up to MaxLog records, whoever wrote it;    *)
(* punch_holes with a replay of its own log; and verify_truncate, which    *)
(* checks holes of its own making.                                         *)
(***************************************************************************)
EXTENDS HolesPipeline, PunchHoles, VerifyTruncate

CONSTANTS What,     \* the instances of this run
          MaxLog    \* bound on the logs given to verify_holes

VARIABLE what

MCvars == <<what, scriptVars, punchVars, truncVars>>

\* A log of writes and holes of one character, on a file of it and of zeros.
SomeFile == [Bytes -> {"A", NUL}]
SomeLog ==
    LET Lines == {u \in Records : u.ch \in {"A", MAGIC_HOLE_CHAR}} \cup {BadLine}
    IN  UNION {[1 .. k -> Lines] : k \in 0 .. MaxLog}

\* Replay logs for a file of three chunks.
SomeReplay ==
    UNION {[1 .. k -> [ch : {"A", "B"}, off : {0, 5}, len : {1, 3}]] : k \in 0 .. 2}

IdleScript ==
    /\ stage = "none" /\ damaged = FALSE /\ status = 0
    /\ max_iter = 0 /\ i = 0 /\ wu = None /\ replaying = FALSE /\ replay = <<>>
    /\ cur_iter_per_chunk = 0 /\ cur_iter_offset = 0 /\ asserted = FALSE
    /\ w_pc = "idle" /\ w_ret = 0
IdleVerify ==
    /\ file_size = 0 /\ file = [b \in Bytes |-> NUL] /\ log = <<>>
    /\ line = 0 /\ tree = {} /\ chunk = None /\ pc = "init" /\ ret = 0
IdlePunch ==
    /\ p_size = 0 /\ p_max_iter = 0 /\ p_start = 0 /\ p_i = 0 /\ p_wu = NoUnit
    /\ p_replaying = FALSE /\ given = <<>> /\ p_replay = <<>>
    /\ p_log = <<>> /\ p_file = Blank /\ p_pc = "idle" /\ p_ret = 0
IdleTruncate ==
    /\ t_pc = "idle" /\ t_n = 0 /\ t_file = <<>> /\ isize = 0 /\ new_size = 0
    /\ last_pattern = <<>> /\ last_cluster = 0 /\ t_i = 0 /\ t_ret = 0

\* Each instance starts in the states of its program that have these arguments.
MCInit ==
    /\ what \in What
    /\ \/ /\ what = "script" /\ file_size = 3 /\ max_iter = 2 /\ replaying = FALSE /\ replay = <<>>
          /\ ScriptInit /\ IdlePunch /\ IdleTruncate
       \/ /\ what = "chunks" /\ file_size = 9 /\ max_iter = 3 /\ replay \in SomeReplay
          /\ ScriptInit /\ IdlePunch /\ IdleTruncate
       \/ /\ what = "few" /\ file_size = 13 /\ max_iter = 2 /\ replay = <<>>
          /\ ScriptInit /\ IdlePunch /\ IdleTruncate
       \/ /\ what = "logs" /\ file_size = 4 /\ file \in SomeFile /\ log \in SomeLog
          /\ Init /\ IdleScript /\ IdlePunch /\ IdleTruncate
       \/ /\ what = "punch" /\ p_size = 3 /\ p_max_iter = 2
          /\ PunchInit /\ IdleScript /\ IdleVerify /\ IdleTruncate
       \/ what = "trunc" /\ TruncInit /\ IdleScript /\ IdleVerify /\ IdlePunch

ScriptRuns == what = "script" /\ ScriptStep /\ UNCHANGED <<what, punchVars, truncVars>>
VerifyRuns ==
    what = "logs" /\ Step /\ UNCHANGED <<what, script, fill, punchVars, truncVars>>

MCNext ==
    \/ ScriptRuns
    \/ what \in {"chunks", "few"} /\ WriterStep /\ UNCHANGED <<what, punchVars, truncVars>>
    \/ VerifyRuns
    \/ what = "punch" /\ PunchStep /\ UNCHANGED <<what, scriptVars, truncVars>>
    \/ what = "trunc" /\ TruncStep /\ UNCHANGED <<what, scriptVars, punchVars>>
    \/ /\ IF what = "script" THEN stage = "done" ELSE {"done", "end", "failed"} \cap {w_pc, pc, p_pc, t_pc} # {}
       /\ UNCHANGED MCvars

MCSpec == MCInit /\ [][MCNext]_MCvars

\* The programs run until they end.
MCFairSpec == MCSpec /\ WF_MCvars(ScriptRuns) /\ WF_MCvars(VerifyRuns)

-----------------------------------------------------------------------------
\* verify_holes and the script come to an end, however often a search restarts.
ProgramsEnd ==
    /\ what = "logs" => Termination
    /\ what = "script" => <>(stage = "done")
=============================================================================
