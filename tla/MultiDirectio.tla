--------------------------- MODULE MultiDirectio ----------------------------
(***************************************************************************)
(* programs/directio_test/multi_directio_test.c: rank 0 writes chunks with *)
(* O_DIRECT and sends every write unit to the other ranks, which verify    *)
(* the file through their page cache.                                      *)
(*                                                                         *)
(* What the other ranks do after their first verification is not modelled: *)
(* one_round_run hands should_exit the descriptor fd, which is -1 on them, *)
(* so they abort there.  With them, the send loop of rank 0 is out of      *)
(* reach as well; it finds no receiver when rank 0 is alone.               *)
(***************************************************************************)
EXTENDS MpiDlm

CONSTANTS Sizes,            \* numbers of ranks to start the job with
          FileChunks,       \* values of file_size / CHUNK_SIZE to start it with
          num_iterations,   \* -i
          CHUNK_SIZE        \* what do_write_chunk returns when it succeeds

ConstantsOK ==
    /\ Sizes \subseteq Nat \ {0}
    /\ FileChunks \subseteq Nat /\ num_iterations \in Nat \ {0}
    /\ CHUNK_SIZE \in Nat \ {0}

VARIABLES size,     \* MPI_Comm_size
          num_chunks,  \* file_size / CHUNK_SIZE
          pc,       \* pc[r]: where rank r is
          epoch,    \* epoch[r]: barriers rank r has arrived at
          i,        \* rank 0's chunk loop counter
          round,    \* rank 0's round counter in test_runner
          ret,      \* ret[r] in one_round_run
          fault,    \* a file operation has failed
          aborted   \* MPI_Abort was called

vars == <<size, num_chunks, pc, epoch, i, round, ret, fault, aborted>>

Ranks == 0 .. size - 1

Init ==
    /\ size \in Sizes
    /\ num_chunks \in FileChunks
    /\ pc = [r \in Ranks |-> IF r = 0 THEN "prep" ELSE "to_first"]
    /\ epoch = [r \in Ranks |-> 0]
    /\ i = 0 /\ round = 0
    /\ ret = [r \in Ranks |-> 0]
    /\ fault = FALSE
    /\ aborted = FALSE

Goto(r, l) == pc' = [pc EXCEPT ![r] = l]

\* Ends the calling rank only.
should_exitAlone(r, result, next) ==
    IF result < 0
    THEN Goto(r, "exited") /\ UNCHANGED aborted
    ELSE Goto(r, next) /\ UNCHANGED aborted

\* teardown(MPI_RET_FAILED) aborts the whole job.
should_exit(r, result, next) ==
    IF result < 0
    THEN Goto(r, "exited") /\ aborted' = TRUE
    ELSE Goto(r, next) /\ UNCHANGED aborted

\* A barrier is two steps: to arrive, and to leave once all have arrived.
Barrier(r, at, in, next) ==
    \/ /\ pc[r] = at
       /\ epoch' = Arrive(epoch, r)
       /\ Goto(r, in)
       /\ UNCHANGED <<size, num_chunks, i, round, ret, fault, aborted>>
    \/ /\ pc[r] = in
       /\ MayLeave(epoch, r)
       /\ Goto(r, next)
       /\ UNCHANGED <<size, num_chunks, epoch, i, round, ret, fault, aborted>>

\* prep_orig_file_in_chunks returns 0 or a negative value.
Prepare(r) ==
    /\ pc[r] = "prep"
    /\ \E result \in {0, -1} :
           /\ ret' = [ret EXCEPT ![r] = result]
           /\ fault' = (fault \/ result < 0)
           /\ should_exit(r, result, "to_first")
    /\ UNCHANGED <<size, num_chunks, epoch, i, round>>

\* Rank 0 opens the file, the others verify it: their fd is still -1.
OpenOrVerify(r) ==
    /\ pc[r] = "open"
    /\ \E result \in {0, -1} :
           IF r = 0
           THEN /\ should_exit(r, IF result = 0 THEN 3 ELSE -1, "to_second")
                /\ fault' = (fault \/ result < 0)
                /\ UNCHANGED ret
           ELSE /\ should_exit(r, -1, "to_second")
                /\ fault' = (fault \/ result < 0)
                /\ ret' = [ret EXCEPT ![r] = result]
    /\ UNCHANGED <<size, num_chunks, epoch, i, round>>

\* The chunk loop: rank 0 is alone in it.
LoopTop(r) ==
    /\ pc[r] = "loop"
    /\ Goto(r, IF i < num_chunks THEN "to_top" ELSE "to_last")
    /\ UNCHANGED <<size, num_chunks, epoch, i, round, ret, fault, aborted>>

WriteChunk(r) ==
    /\ pc[r] = "write"
    /\ \E result \in {CHUNK_SIZE, -1} :
           /\ ret' = [ret EXCEPT ![r] = result]
           /\ fault' = (fault \/ result < 0)
           /\ should_exit(r, result, "to_bottom")
    /\ UNCHANGED <<size, num_chunks, epoch, i, round>>

LoopNext(r) ==
    /\ pc[r] = "bottom"
    /\ i' = i + 1
    /\ Goto(r, "loop")
    /\ UNCHANGED <<size, num_chunks, epoch, round, ret, fault, aborted>>

\* The return to test_runner: any non-zero result ends the rounds, and main
\* exits with success.
RoundEnds(r) ==
    /\ pc[r] = "return"
    /\ i' = 0
    /\ round' = round + 1
    /\ Goto(r, IF ret[r] # 0 THEN "exited" ELSE "to_round")
    /\ UNCHANGED <<size, num_chunks, epoch, ret, fault, aborted>>

NextRound(r) ==
    /\ pc[r] = "next_round"
    /\ ret' = [ret EXCEPT ![r] = 0]
    /\ Goto(r, IF round < num_iterations THEN "prep" ELSE "exited")
    /\ UNCHANGED <<size, num_chunks, epoch, i, round, fault, aborted>>

Step(r) ==
    /\ ~ aborted
    /\ \/ Prepare(r) \/ OpenOrVerify(r) \/ LoopTop(r) \/ WriteChunk(r)
       \/ LoopNext(r) \/ RoundEnds(r) \/ NextRound(r)
       \/ Barrier(r, "to_first", "in_first", "open")
       \/ Barrier(r, "to_second", "in_second", "loop")
       \/ Barrier(r, "to_top", "in_top", "write")
       \/ Barrier(r, "to_bottom", "in_bottom", "bottom")
       \/ Barrier(r, "to_last", "in_last", "return")
       \/ Barrier(r, "to_round", "in_round", "next_round")

Over == aborted \/ \A r \in Ranks : pc[r] = "exited"

Next == (\E r \in Ranks : Step(r)) \/ (Over /\ UNCHANGED vars)

-----------------------------------------------------------------------------
\* A rank that gives up takes the whole job down (should_exit calls MPI_Abort),
\* so no rank is left alone in a barrier.
NobodyLeftBehind ==
    (\E q \in Ranks : pc[q] = "exited") =>
        aborted \/ \A r \in Ranks : pc[r] = "exited"

\* The comment at multi_directio_test.c:231: "Verification at the very beginning
\* doesn't do anything more than reading the file into pagecache on none-root
\* nodes", so it does not end the job when nothing is wrong.
FirstVerifyHarmless == aborted => fault
=============================================================================
