--------------------------- MODULE HolesPipeline ----------------------------
(***************************************************************************)
(* One turn of the loop of programs/fill_verify_holes/fill_verify_holes.sh:*)
(* fill_holes writes a file and its log, the file system is unmounted and  *)
(* mounted again, and verify_holes compares the two.  The file system is   *)
(* the system under test: it may bring the file back with a wrong byte.    *)
(***************************************************************************)
EXTENDS VerifyHoles

CONSTANT TWO_GIGA_BYTE

VARIABLES stage,     \* "write", "remount", "verify", "done"
          damaged,   \* the file system has changed a byte
          status,    \* exit status of the script
          max_iter, i, wu, replaying, replay,
          cur_iter_per_chunk, cur_iter_offset, asserted,
          w_pc, w_ret    \* pc and ret of fill_holes

fill == <<max_iter, i, wu, replaying, replay, cur_iter_per_chunk, cur_iter_offset,
          asserted, w_pc, w_ret>>
verify == <<line, tree, chunk, pc, ret>>
script == <<stage, damaged, status>>
data == <<file_size, log, file>>
scriptVars == <<script, data, fill, verify>>

Fill == INSTANCE FillHoles WITH size <- file_size, ShortWrites <- FALSE, pc <- w_pc, ret <- w_ret

ASSUME ScriptConstants == Fill!ConstantsOK

ScriptInit ==
    /\ Fill!Init
    /\ stage = "write" /\ damaged = FALSE /\ status = 0
    /\ line = 0 /\ tree = {} /\ chunk = None /\ pc = "init" /\ ret = 0

WriterStep ==
    /\ stage = "write"
    /\ Fill!Step
    /\ UNCHANGED <<script, verify>>

WriterEnds ==
    /\ stage = "write" /\ w_pc = "done"
    /\ IF w_ret # 0 THEN stage' = "done" /\ status' = 1
                  ELSE stage' = "remount" /\ UNCHANGED status
    /\ UNCHANGED <<damaged, data, fill, verify>>

\* do_umount, do_mount: the file is read from disk afterwards.  When one of them
\* fails the script gives up.
Remount ==
    /\ stage = "remount"
    /\ \/ stage' = "done" /\ status' = 1 /\ UNCHANGED <<file, damaged>>
       \/ /\ \/ UNCHANGED file
             \/ \E b \in DOMAIN file, c \in Chars \cup {NUL} : file' = [file EXCEPT ![b] = c]
          /\ damaged' = (file' # file)
          /\ stage' = "verify" /\ UNCHANGED status
    /\ UNCHANGED <<file_size, log, fill, verify>>

VerifyStep ==
    /\ stage = "verify"
    /\ Step
    /\ UNCHANGED <<script, fill>>

\* The exit status of verify_holes is not looked at.
VerifyEndsAnyhow ==
    /\ stage = "verify" /\ Over
    /\ stage' = "done" /\ UNCHANGED status
    /\ UNCHANGED <<damaged, data, fill, verify>>

VerifyEnds ==
    /\ stage = "verify" /\ Over
    /\ stage' = "done" /\ status' = IF ret # 0 THEN 1 ELSE 0
    /\ UNCHANGED <<damaged, data, fill, verify>>

ScriptStep == WriterStep \/ WriterEnds \/ Remount \/ VerifyStep \/ VerifyEnds

ScriptNext == ScriptStep \/ (stage = "done" /\ UNCHANGED scriptVars)

ScriptSpec == ScriptInit /\ [][ScriptNext]_scriptVars

-----------------------------------------------------------------------------
\* fill_holes: log and file agree up to the pending write, and every drawn write
\* lies inside the file.
FileFollowsLog == stage = "write" => Fill!FileFollowsLog /\ Fill!WritesStayInFile

\* fill_holes: the 2 GiB chunks are written in their order, each with its share of
\* the iterations, and the size assert fails only with fewer iterations than chunks.
ChunkSchedule ==
    stage = "write" => Fill!TypeOK /\ Fill!ChunkSchedule /\ Fill!OnlySizeAssertFails

\* The script ends with 0 only after a verification of an unchanged file, and a
\* verification that finds fault is right: over random, overlapping
\* writes, neither the log nor the extent tree of verify_holes hides a change of
\* the file system or raises a false alarm, in files whose size fits w_len.
FailureMeansDamage ==
    stage = "done" /\ file_size < LenMod =>
        /\ status = 0 => pc = "done" /\ ~ damaged
        /\ pc = "done" /\ ~ damaged => status = 0
=============================================================================
