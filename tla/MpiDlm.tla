------------------------------- MODULE MpiDlm -------------------------------
(***************************************************************************)
(* The two services every multi-node program of ocfs2-test is built on,    *)
(* modelled from how the programs use them.  Neither is part of the        *)
(* repository: MPI comes from the MPI library and o2dlm from ocfs2-tools   *)
(* and the kernel.                                                         *)
(*                                                                         *)
(* MPI_Barrier: a rank that calls it announces its arrival and blocks      *)
(* until every rank has called it at least as often.  Ranks leave one by   *)
(* one, so that a fast rank runs ahead of a slow one that has not yet      *)
(* returned from the same barrier.  "epoch" counts the arrivals.           *)
(***************************************************************************)
EXTENDS Integers

\* r announces its arrival at its next MPI_Barrier.
Arrive(epoch, r) == [epoch EXCEPT ![r] = @ + 1]

\* r, which has arrived, may return from MPI_Barrier.
MayLeave(epoch, r) == \A q \in DOMAIN epoch : epoch[q] >= epoch[r]

(***************************************************************************)
(* o2dlm: lock levels and their compatibility.  "held" gives the level a   *)
(* node holds on one lock resource, "NL" when it holds none.               *)
(***************************************************************************)
Levels == {"NL", "PR", "EX"}

Grantable(held, r, level) ==
    \A q \in DOMAIN held \ {r} :
        \/ held[q] = "NL"
        \/ held[q] = "PR" /\ level = "PR"

(***************************************************************************)
(* A lock value block is stored big-endian: cpu_to_be64 and be64_to_cpu    *)
(* are the only way in and out of it.                                      *)
(***************************************************************************)
cpu_to_be64(v) == [be64 |-> v]

be64_to_cpu(b) == b.be64
=============================================================================
