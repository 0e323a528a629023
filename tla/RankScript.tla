----------------------------- MODULE RankScript -----------------------------
(***************************************************************************)
(* How the script of an MPI rank is written down: the sequence of its      *)
(* calls in program order.  "if (rank)" and "for" are resolved, a loop is  *)
(* unrolled over a small count.                                            *)
(***************************************************************************)
EXTENDS Integers, Sequences, SequencesExt

\* MPI_Barrier, told apart by its line in the source.
Barrier(line) == <<[op |-> "barrier", line |-> line]>>
Send(q) == <<[op |-> "send", to |-> q]>>
Recv(q) == <<[op |-> "recv", from |-> q]>>

\* A function and a number that tells how much it has to do.
Op(op, n) == <<[op |-> op, n |-> n]>>

\* if (cond) { s }
Only(cond, s) == IF cond THEN s ELSE <<>>

\* for (i = 0; i < n; i++) { S(i) }
Each(n, S(_)) == FlattenSeq([i \in 1 .. n |-> S(i - 1)])
=============================================================================
