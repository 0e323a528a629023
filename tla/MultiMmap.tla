----------------------------- MODULE MultiMmap ------------------------------
(***************************************************************************)
(* programs/multi_node_mmap/multi_mmap.c: in every pass each MPI rank in   *)
(* turn writes its block of a shared file, and after a barrier all other   *)
(* ranks read that block and compare it with the character of the pass.    *)
(* With -e rank 0 truncates the file to provoke a failure.                 *)
(*                                                                         *)
(* Characters are numbers from 0 ('a') to LastChar ('z'); a block has one  *)
(* character, Zero before it is written.                                   *)
(***************************************************************************)
EXTENDS MpiDlm

CONSTANTS num_procs,        \* MPI_Comm_size, also the number of blocks
          max_passes,       \* -i
          injection_pass,   \* -e, or -1
          LastChar,         \* 'z' - 'a'
          Zero              \* what a block holds before it is written

ConstantsOK ==
    /\ num_procs \in Nat /\ num_procs >= 2
    /\ max_passes \in Nat
    /\ injection_pass \in Nat \cup {-1} /\ injection_pass <= max_passes
    /\ LastChar \in Nat /\ LastChar >= num_procs
    /\ Zero \notin Nat

VARIABLES pc,          \* pc[r]: where rank r is
          epoch,       \* epoch[r]: barriers it has entered
          i,           \* i[r]: its block loop counter
          this_pass,   \* this_pass[r]
          startchar,   \* startchar[r]
          file,        \* file[b]: the character of block b
          truncated,   \* the file has length zero
          fault,       \* some call failed
          failed,      \* a rank gave up in read_block or in its comparison
          aborted      \* MPI_Abort was called or a rank was killed

vars == <<pc, epoch, i, this_pass, startchar, file, truncated, fault, failed, aborted>>

Ranks == 0 .. num_procs - 1
Blocks == 0 .. num_procs - 1

Init ==
    /\ pc = [r \in Ranks |-> IF r = 0 THEN "prep" ELSE "to_prep"]
    /\ epoch = [r \in Ranks |-> 0]
    /\ i = [r \in Ranks |-> 0]
    /\ this_pass = [r \in Ranks |-> 0]
    /\ startchar = [r \in Ranks |-> 0]
    /\ file = [b \in Blocks |-> Zero]
    /\ truncated = FALSE /\ fault = FALSE /\ failed = FALSE /\ aborted = FALSE

Goto(r, l) == pc' = [pc EXCEPT ![r] = l]

\* abort_printf, and the death of a rank by SIGBUS: mpirun ends the job.
Abort(r) == aborted' = TRUE /\ UNCHANGED pc

\* Any call that is tested may fail.
CallFails(r) ==
    /\ pc[r] # "done"
    /\ fault' = TRUE
    /\ Abort(r)
    /\ UNCHANGED <<epoch, i, this_pass, startchar, file, truncated, failed>>

\* prep_file: rank 0 creates, maps and zeroes the file before the barrier.
Prepare(r) ==
    /\ pc[r] = "prep"
    /\ Goto(r, "to_prep")
    /\ UNCHANGED <<epoch, i, this_pass, startchar, file, truncated, fault, failed, aborted>>

Enter(r, at, in) ==
    /\ pc[r] = at
    /\ epoch' = Arrive(epoch, r)
    /\ Goto(r, in)
    /\ UNCHANGED <<i, this_pass, startchar, file, truncated, fault, failed, aborted>>

\* The other ranks open and map the file after it.
PrepLeave(r) ==
    /\ pc[r] = "in_prep"
    /\ MayLeave(epoch, r)
    /\ Goto(r, "top")
    /\ UNCHANGED <<epoch, i, this_pass, startchar, file, truncated, fault, failed, aborted>>

\* fill_with_expected_pattern.
Expected(r) == startchar[r] + i[r]

\* A mutant: at the end of the alphabet startchar stays.
NextStartSticks(c) == IF c + num_procs > LastChar THEN c ELSE c + 1

\* The rotation of startchar in main.
NextStart(c) == IF c + num_procs > LastChar THEN 0 ELSE c + 1

\* The loops of main and write_verify_blocks.
LoopTop(r) ==
    /\ pc[r] = "top"
    /\ IF this_pass[r] >= max_passes THEN Goto(r, "done") /\ UNCHANGED <<i, this_pass, startchar>>
       ELSE IF i[r] < num_procs
       THEN /\ Goto(r, IF i[r] % num_procs = r THEN "write" ELSE "to_read")
            /\ UNCHANGED <<i, this_pass, startchar>>
       ELSE /\ i' = [i EXCEPT ![r] = 0]
            /\ this_pass' = [this_pass EXCEPT ![r] = @ + 1]
            /\ startchar' = [startchar EXCEPT ![r] = NextStart(@)]
            /\ UNCHANGED pc
    /\ UNCHANGED <<epoch, file, truncated, fault, failed, aborted>>

\* do_writer up to its barrier.
DoWriter(r) ==
    /\ pc[r] = "write"
    /\ file' = [file EXCEPT ![i[r]] = Expected(r)]
    /\ truncated' = (truncated \/ (r = 0 /\ this_pass[r] = injection_pass))
    /\ Goto(r, "to_write")
    /\ UNCHANGED <<epoch, i, this_pass, startchar, fault, failed, aborted>>

WriterLeave(r) ==
    /\ pc[r] = "in_write"
    /\ MayLeave(epoch, r)
    /\ i' = [i EXCEPT ![r] = @ + 1]
    /\ Goto(r, "top")
    /\ UNCHANGED <<epoch, this_pass, startchar, file, truncated, fault, failed, aborted>>

\* A mutant: the readers do not wait for the writer.
ReaderLeaveEarly(r) ==
    /\ pc[r] = "in_read"
    /\ Goto(r, "read")
    /\ UNCHANGED <<epoch, i, this_pass, startchar, file, truncated, fault, failed, aborted>>

ReaderLeave(r) ==
    /\ pc[r] = "in_read"
    /\ MayLeave(epoch, r)
    /\ Goto(r, "read")
    /\ UNCHANGED <<epoch, i, this_pass, startchar, file, truncated, fault, failed, aborted>>

\* read_block and the comparison.  Past the end of a truncated file a mapped
\* read is a SIGBUS and a regular one is short: both end the job.
ReadAndCompare(r) ==
    /\ pc[r] = "read"
    /\ IF truncated \/ file[i[r]] # Expected(r)
       THEN failed' = TRUE /\ Abort(r) /\ UNCHANGED i
       ELSE /\ i' = [i EXCEPT ![r] = @ + 1]
            /\ Goto(r, "top")
            /\ UNCHANGED <<failed, aborted>>
    /\ UNCHANGED <<epoch, this_pass, startchar, file, truncated, fault>>

Step(r) ==
    /\ ~ aborted
    /\ \/ Prepare(r) \/ Enter(r, "to_prep", "in_prep") \/ PrepLeave(r)
       \/ LoopTop(r)
       \/ DoWriter(r) \/ Enter(r, "to_write", "in_write") \/ WriterLeave(r)
       \/ Enter(r, "to_read", "in_read") \/ ReaderLeave(r) \/ ReadAndCompare(r)

Over == aborted \/ \A r \in Ranks : pc[r] = "done"

Next ==
    \/ \E r \in Ranks : Step(r) \/ (~ aborted /\ CallFails(r))
    \/ Over /\ UNCHANGED vars

Spec == Init /\ [][Next]_vars

-----------------------------------------------------------------------------
\* One barrier per block is enough: on a correct file system no rank ever finds
\* another character than the one it expects, even though the writer of the
\* next block starts while slow ranks still read this one, and the next pass
\* overwrites blocks of the last.  A failure means the file was truncated (-e).
NoFalseAlarm == failed => truncated

\* Every write changes its block, over the wrap-around of startchar too, so a
\* reader that is given the data of the pass before does not take them for new.
LossIsNoticed == \A r \in Ranks : pc[r] = "write" => file[i[r]] # Expected(r)

\* Where every job must come to: its end, with a failure after a truncation by -e.
Ended == Over /\ (truncated => aborted)
=============================================================================
