----------------------------- MODULE MC_Directio -----------------------------
(* DirectioTest in three modes, and verify_file on every mixture of the parts *)
(* of a chunk; "what" chooses.                                                *)
(*                                                                            *)
(* Two children are enough for every race of the write loop and of the        *)
(* SIGCHLD handler with waitpid: -b with failing calls, two characters and    *)
(* repeated time stamps; -f with failing calls; -d with the reset, for which  *)
(* a child needs four chunks, and without failing calls.                      *)
EXTENDS DirectioTest, DirectioChunk

CONSTANT What     \* the instances to look at

VARIABLE what

MCvars == <<what, vars, chunkVars>>

ASSUME ConstantsAreOK == ConstantsOK /\ ChunkConstantsOK

\* The options of an instance.
Given(flags, chunks) == test_flags = flags /\ num_chunks = chunks /\ v_chunks = chunks

\* A program that is not looked at stays where it starts.
IdleTest == Given("BASC", 1) /\ Init /\ status = 0
IdleChunk == k_i = 0 /\ k_wus = <<>> /\ k_pattern = <<>> /\ verdict = "idle"

MCInit ==
    /\ what \in What
    /\ \/ what = "basic" /\ Given("BASC", 2) /\ Init /\ IdleChunk
       \/ what = "hole" /\ Given("FIHL", 2) /\ Init /\ IdleChunk
       \/ what = "crash" /\ Given("DSCV", 4) /\ Init /\ IdleChunk
       \/ what = "chunk" /\ ChunkInit /\ IdleTest

\* What an instance may draw or meet.
Drawn(chars, stamps) == \A c \in Children : wu'[c].ch \in chars \cup {NUL} /\ wu'[c].ts <= stamps
NoFailure == \A c \in Children : exit'[c] = 0

Within ==
    /\ what = "hole" => Drawn({"A"}, MaxTime)
    /\ what = "crash" => Drawn({"A"}, 1) /\ NoFailure

MCNext ==
    /\ \/ what # "chunk" /\ Next /\ Within /\ UNCHANGED chunkVars
       \/ what = "chunk" /\ ChunkNext /\ UNCHANGED vars
    /\ UNCHANGED what

MCSpec == MCInit /\ [][MCNext]_MCvars

\* The scheduler runs every process that can run (FairSpec of DirectioTest).
Runs(A) == what = "hole" /\ A /\ Within /\ UNCHANGED <<what, chunkVars>>
MCFairSpec ==
    /\ MCSpec
    /\ \A c \in Children : WF_MCvars(Runs(ChildStep(c)))
    /\ WF_MCvars(Runs(ParentStep)) /\ WF_MCvars(Runs(VerifyStep))

-----------------------------------------------------------------------------
\* Without a reset, children, parent and verification come to an end.
TestEnds == what = "hole" => Termination
==============================================================================
