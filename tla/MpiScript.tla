------------------------------ MODULE MpiScript ------------------------------
(***************************************************************************)
(* The MPI side of the programs whose ranks each follow a script.          *)
(*                                                                         *)
(* MPI itself is external.  A rank whose next call is MPI_Barrier has      *)
(* arrived there; "epoch" counts the barriers it has returned from.  Every *)
(* program follows MPI_Isend and MPI_Irecv by MPI_Wait at once.  MPI may   *)
(* keep a message until it is wanted, or hold the sender back until the    *)
(* receiver is there: Sync chooses.                                        *)
(***************************************************************************)
EXTENDS RankScript, FiniteSets

CONSTANTS size,     \* MPI_Comm_size
          script,   \* script[r]: the calls of rank r
          Sync      \* MPI_Wait after MPI_Isend waits for the receiver

VARIABLES pc,       \* pc[r]: calls of its script that rank r has finished
          epoch,    \* epoch[r]: barriers it has returned from
          mail,     \* mail[<<r, q>>]: messages on their way from r to q
          aborted   \* MPI_Abort was called

mpi == <<pc, epoch, mail, aborted>>

Ranks == 0 .. size - 1

MpiInit ==
    /\ pc = [r \in Ranks |-> 0]
    /\ epoch = [r \in Ranks |-> 0]
    /\ mail = [c \in Ranks \X Ranks |-> <<>>]
    /\ aborted = FALSE

-----------------------------------------------------------------------------
(* Running the scripts. *)

Finished(r) == pc[r] >= Len(script[r])
Call(r) == script[r][pc[r] + 1]
At(r, op) == ~ Finished(r) /\ Call(r).op = op

\* r leaves its call and skips the n that follow it.
Skip(r, n) == pc' = [pc EXCEPT ![r] = @ + 1 + n]

Arrived(q) == epoch[q] + IF At(q, "barrier") THEN 1 ELSE 0

MPI_Barrier(r) ==
    /\ At(r, "barrier")
    /\ \A q \in Ranks : Arrived(q) > epoch[r]
    /\ epoch' = [epoch EXCEPT ![r] = @ + 1]
    /\ Skip(r, 0)
    /\ UNCHANGED <<mail, aborted>>

\* MPI_Isend and MPI_Wait of the message v.
MPI_Isend(r, v) ==
    /\ At(r, "send") /\ ~ Sync
    /\ mail' = [mail EXCEPT ![<<r, Call(r).to>>] = Append(@, v)]
    /\ Skip(r, 0)
    /\ UNCHANGED <<epoch, aborted>>

\* MPI_Irecv and MPI_Wait: the message is Head(mail[c]).
MPI_Irecv(r) ==
    /\ At(r, "recv") /\ ~ Sync
    /\ LET c == <<Call(r).from, r>> IN
       mail[c] # <<>> /\ mail' = [mail EXCEPT ![c] = Tail(@)]
    /\ Skip(r, 0)
    /\ UNCHANGED <<epoch, aborted>>

\* The same two when the sender waits for the receiver: q hands the message to r.
Meet(r, q) ==
    /\ Sync /\ At(r, "recv") /\ At(q, "send")
    /\ Call(r).from = q /\ Call(q).to = r
    /\ pc' = [pc EXCEPT ![r] = @ + 1, ![q] = @ + 1]
    /\ UNCHANGED <<epoch, mail, aborted>>

MPI_Abort == aborted' = TRUE /\ UNCHANGED <<pc, epoch, mail>>

\* The job is over: aborted, or every rank has left main.
JobOver == aborted \/ \A r \in Ranks : Finished(r)

\* r cannot go on before another rank does something: arrive at the barrier, send the message
\* r wants, or receive the one r hands over.
Waits(r) ==
    \/ At(r, "barrier") /\ \E q \in Ranks : Arrived(q) <= epoch[r]
    \/ At(r, "recv") /\ ~ Sync /\ mail[<<Call(r).from, r>>] = <<>>
    \/ At(r, "recv") /\ Sync /\ LET q == Call(r).from IN ~ (At(q, "send") /\ Call(q).to = r)
    \/ At(r, "send") /\ Sync /\ LET q == Call(r).to IN ~ (At(q, "recv") /\ Call(q).from = r)

\* The job is not over and every rank that has not left main waits for another one: this stays
\* so for ever.
Stuck == ~ JobOver /\ \A r \in Ranks : Finished(r) \/ Waits(r)

\* Two ranks that wait for each other wait in the same call of MPI_Barrier, and no
\* message is left over when the job ends.
BarriersMeet ==
    /\ \A r, q \in Ranks :
           At(r, "barrier") /\ At(q, "barrier") /\ epoch[r] = epoch[q]
               => Call(r).line = Call(q).line
    /\ (\A r \in Ranks : Finished(r)) => \A c \in DOMAIN mail : mail[c] = <<>>
=============================================================================
