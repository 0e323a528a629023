----------------------------- MODULE LvbTorture -----------------------------
(***************************************************************************)
(* programs/lvb_torture/lvb_torture.c: num_procs MPI ranks share one DLM   *)
(* lock.  In iteration i the rank i % num_procs holds the lock EX and      *)
(* increments the lock value block (LVB); every other rank takes the lock  *)
(* PR afterwards and expects to read the incremented value.  MPI barriers  *)
(* keep the ranks in step.                                                 *)
(***************************************************************************)
EXTENDS MpiDlm

CONSTANTS num_procs,   \* MPI_Comm_size
          max_iter,    \* -i <iterations>
          LeftOver,    \* values an earlier run may have left in the LVB
          Signals      \* TRUE: SIGHUP/SIGTERM/SIGINT may reach a rank

ASSUME ProcsAssumption == num_procs \in Nat \ {0}
ASSUME IterAssumption == max_iter \in Nat
ASSUME LeftOverAssumption == LeftOver # {} /\ LeftOver \subseteq Nat
ASSUME SignalsAssumption == Signals \in BOOLEAN

VARIABLES l_pc,        \* l_pc[r]: where rank r is
          iter,        \* iter[r]: its loop counter in run_test
          epoch,       \* epoch[r]: MPI_Barrier calls it has made
          held,        \* held[r]: its level on the lock
          lvb,         \* the lock value block, big-endian
          l_caught_sig, \* l_caught_sig[r]: its signal flag
          cleared,     \* clear_lock really wrote the LVB
          failed,      \* some rank printed "Test failed!"
          aborted      \* MPI_Abort was called: every rank is killed

lvb_vars == <<l_pc, iter, epoch, held, lvb, l_caught_sig, cleared, failed, aborted>>

Ranks == 0 .. num_procs - 1

\* The rank that takes the lock EX in iteration i.
Writer(i) == i % num_procs

IsWriter(r) == Writer(iter[r]) = r

\* Mutant of Expected: the writer, too, expects the incremented value.
ExpectedByAll(r) == iter[r] + 1

\* What rank r expects to read in its current iteration.
Expected(r) == IF IsWriter(r) THEN iter[r] ELSE iter[r] + 1

LvbInit ==
    /\ l_pc = [r \in Ranks |-> IF r = 0 THEN "clear_lock" ELSE "prep"]
    /\ iter = [r \in Ranks |-> 0]
    /\ epoch = [r \in Ranks |-> 0]
    /\ held = [r \in Ranks |-> "NL"]
    /\ lvb \in {cpu_to_be64(v) : v \in LeftOver}
    /\ l_caught_sig = [r \in Ranks |-> FALSE]
    /\ cleared = FALSE
    /\ failed = FALSE
    /\ aborted = FALSE

LvbGoto(r, l) == l_pc' = [l_pc EXCEPT ![r] = l]

(***************************************************************************)
(* clear_lock, by rank 0 before the first barrier.                         *)
(***************************************************************************)
ClearLock(r) ==
    /\ l_pc[r] = "clear_lock"
    /\ Grantable(held, r, "EX")
    /\ held' = [held EXCEPT ![r] = "EX"]
    /\ LvbGoto(r, "clear_write")
    /\ UNCHANGED <<iter, epoch, lvb, l_caught_sig, cleared, failed, aborted>>

\* The error of o2dlm_write_lvb is not looked at: when it fails, "written" is
\* read uninitialised, so the rank may abort (CallFails) or go on with the LVB
\* it found.
ClearWrite(r) ==
    /\ l_pc[r] = "clear_write"
    /\ \/ lvb' = cpu_to_be64(0) /\ cleared' = TRUE
       \/ UNCHANGED <<lvb, cleared>>
    /\ LvbGoto(r, "clear_unlock")
    /\ UNCHANGED <<iter, epoch, held, l_caught_sig, failed, aborted>>

ClearUnlock(r) ==
    /\ l_pc[r] = "clear_unlock"
    /\ held' = [held EXCEPT ![r] = "NL"]
    /\ LvbGoto(r, "prep")
    /\ UNCHANGED <<iter, epoch, lvb, l_caught_sig, cleared, failed, aborted>>

\* The barrier in main between clear_lock and run_test.
PrepBarrier(r) ==
    /\ l_pc[r] = "prep"
    /\ epoch' = Arrive(epoch, r)
    /\ LvbGoto(r, "prep_wait")
    /\ UNCHANGED <<iter, held, lvb, l_caught_sig, cleared, failed, aborted>>

PrepLeave(r) ==
    /\ l_pc[r] = "prep_wait"
    /\ MayLeave(epoch, r)
    /\ LvbGoto(r, "top")
    /\ UNCHANGED <<iter, epoch, held, lvb, l_caught_sig, cleared, failed, aborted>>

(***************************************************************************)
(* run_test.                                                               *)
(***************************************************************************)
LoopTop(r) ==
    /\ l_pc[r] = "top"
    /\ IF iter[r] < max_iter /\ ~l_caught_sig[r]
         THEN LvbGoto(r, IF IsWriter(r) THEN "w_lock" ELSE "r_barrier")
         ELSE LvbGoto(r, "destroy")
    /\ UNCHANGED <<iter, epoch, held, lvb, l_caught_sig, cleared, failed, aborted>>

\* The first barrier: a reader enters it before it locks, the writer once it
\* holds the lock.
FirstBarrier(r) ==
    /\ l_pc[r] \in {"r_barrier", "w_barrier"}
    /\ epoch' = Arrive(epoch, r)
    /\ LvbGoto(r, IF l_pc[r] = "r_barrier" THEN "r_wait" ELSE "w_wait")
    /\ UNCHANGED <<iter, held, lvb, l_caught_sig, cleared, failed, aborted>>

FirstLeave(r) ==
    /\ l_pc[r] \in {"r_wait", "w_wait"}
    /\ MayLeave(epoch, r)
    /\ LvbGoto(r, IF l_pc[r] = "r_wait" THEN "r_lock" ELSE "check")
    /\ UNCHANGED <<iter, epoch, held, lvb, l_caught_sig, cleared, failed, aborted>>

ReaderLock(r) ==
    /\ l_pc[r] = "r_lock"
    /\ Grantable(held, r, "PR")
    /\ held' = [held EXCEPT ![r] = "PR"]
    /\ LvbGoto(r, "check")
    /\ UNCHANGED <<iter, epoch, lvb, l_caught_sig, cleared, failed, aborted>>

WriterLock(r) ==
    /\ l_pc[r] = "w_lock"
    /\ Grantable(held, r, "EX")
    /\ held' = [held EXCEPT ![r] = "EX"]
    /\ LvbGoto(r, "w_barrier")
    /\ UNCHANGED <<iter, epoch, lvb, l_caught_sig, cleared, failed, aborted>>

\* Read the LVB and compare it with what this rank expects.
CheckLvb(r) ==
    /\ l_pc[r] = "check"
    /\ IF be64_to_cpu(lvb) = Expected(r)
         THEN /\ LvbGoto(r, IF IsWriter(r) THEN "write" ELSE "unlock")
              /\ UNCHANGED <<failed, aborted>>
         ELSE /\ failed' = TRUE
              /\ aborted' = TRUE
              /\ UNCHANGED l_pc
    /\ UNCHANGED <<iter, epoch, held, lvb, l_caught_sig, cleared>>

\* Mutant of WriteLvb: to_write computed from an already incremented counter.
WriteLvbTwice(r) ==
    /\ l_pc[r] = "write"
    /\ lvb' = cpu_to_be64(iter[r] + 2)
    /\ LvbGoto(r, "unlock")
    /\ UNCHANGED <<iter, epoch, held, l_caught_sig, cleared, failed, aborted>>

WriteLvb(r) ==
    /\ l_pc[r] = "write"
    /\ lvb' = cpu_to_be64(iter[r] + 1)
    /\ LvbGoto(r, "unlock")
    /\ UNCHANGED <<iter, epoch, held, l_caught_sig, cleared, failed, aborted>>

\* Mutant of Unlock: the rank goes to the barrier with its lock.
UnlockForgets(r) ==
    /\ l_pc[r] = "unlock"
    /\ LvbGoto(r, "u_barrier")
    /\ UNCHANGED <<iter, epoch, held, lvb, l_caught_sig, cleared, failed, aborted>>

Unlock(r) ==
    /\ l_pc[r] = "unlock"
    /\ held' = [held EXCEPT ![r] = "NL"]
    /\ LvbGoto(r, "u_barrier")
    /\ UNCHANGED <<iter, epoch, lvb, l_caught_sig, cleared, failed, aborted>>

SecondBarrier(r) ==
    /\ l_pc[r] = "u_barrier"
    /\ epoch' = Arrive(epoch, r)
    /\ LvbGoto(r, "u_wait")
    /\ UNCHANGED <<iter, held, lvb, l_caught_sig, cleared, failed, aborted>>

\* Mutant of SecondLeave: a rank that only waits for its left neighbour.
SecondLeaveEarly(r) ==
    /\ l_pc[r] = "u_wait"
    /\ epoch[(r + num_procs - 1) % num_procs] >= epoch[r]
    /\ iter' = [iter EXCEPT ![r] = @ + 1]
    /\ LvbGoto(r, "top")
    /\ UNCHANGED <<epoch, held, lvb, l_caught_sig, cleared, failed, aborted>>

SecondLeave(r) ==
    /\ l_pc[r] = "u_wait"
    /\ MayLeave(epoch, r)
    /\ iter' = [iter EXCEPT ![r] = @ + 1]
    /\ LvbGoto(r, "top")
    /\ UNCHANGED <<epoch, held, lvb, l_caught_sig, cleared, failed, aborted>>

\* main after run_test: o2dlm_destroy, MPI_Finalize.
Destroy(r) ==
    /\ l_pc[r] = "destroy"
    /\ LvbGoto(r, "done")
    /\ UNCHANGED <<iter, epoch, held, lvb, l_caught_sig, cleared, failed, aborted>>

\* handler: the flag is only looked at between two iterations.
LvbSignal(r) ==
    /\ Signals
    /\ l_pc[r] # "done"
    /\ ~l_caught_sig[r]
    /\ l_caught_sig' = [l_caught_sig EXCEPT ![r] = TRUE]
    /\ UNCHANGED <<l_pc, iter, epoch, held, lvb, cleared, failed, aborted>>

\* Any o2dlm or MPI call of a rank may fail: rprintf ends in MPI_Abort.
CallFails(r) ==
    /\ l_pc[r] \notin {"top", "done"}
    /\ aborted' = TRUE
    /\ UNCHANGED <<l_pc, iter, epoch, held, lvb, l_caught_sig, cleared, failed>>

Step(r) ==
    \/ ClearLock(r) \/ ClearWrite(r) \/ ClearUnlock(r)
    \/ PrepBarrier(r) \/ PrepLeave(r)
    \/ LoopTop(r)
    \/ FirstBarrier(r) \/ FirstLeave(r)
    \/ ReaderLock(r) \/ WriterLock(r)
    \/ CheckLvb(r) \/ WriteLvb(r) \/ Unlock(r)
    \/ SecondBarrier(r) \/ SecondLeave(r)
    \/ Destroy(r)

AllDone == \A r \in Ranks : l_pc[r] = "done"

\* The program has ended; nothing happens any more.
LvbEnded == (aborted \/ AllDone) /\ UNCHANGED lvb_vars

LvbNext ==
    \/ ~aborted /\ \E r \in Ranks : Step(r) \/ LvbSignal(r) \/ CallFails(r)
    \/ LvbEnded

LvbSpec == LvbInit /\ [][LvbNext]_lvb_vars

\* Every rank is a process of its own and the DLM grants a lock that stays
\* grantable: each rank keeps running.
LvbFairness == \A r \in Ranks : WF_lvb_vars(~aborted /\ Step(r))

LvbFairSpec == LvbSpec /\ LvbFairness

-----------------------------------------------------------------------------
(***************************************************************************)
(* Properties.                                                             *)
(***************************************************************************)
LvbPcs == {"clear_lock", "clear_write", "clear_unlock", "prep", "prep_wait",
        "top", "r_barrier", "r_wait", "r_lock", "w_lock", "w_barrier",
        "w_wait", "check", "write", "unlock", "u_barrier", "u_wait",
        "destroy", "done"}

\* Every variable has its type; no rank counts past max_iter.
LvbTypeOK ==
    /\ l_pc \in [Ranks -> LvbPcs]
    /\ iter \in [Ranks -> 0 .. max_iter]
    /\ epoch \in [Ranks -> Nat]
    /\ held \in [Ranks -> Levels]
    /\ lvb \in [be64 : Nat]
    /\ l_caught_sig \in [Ranks -> BOOLEAN]
    /\ cleared \in BOOLEAN
    /\ failed \in BOOLEAN
    /\ aborted \in BOOLEAN

\* On a correct DLM lvb_torture never prints "Test failed!", whatever the
\* interleaving, the signals and the failing calls, provided clear_lock really
\* wrote the LVB: both barriers and the EX lock together make every rank read
\* the value it expects.
NoFalseFailure == failed => ~cleared

\* Once clear_lock has reset it, the LVB counts the writes one by one: no step
\* of run_test skips or takes back a value.
LvbCounts ==
    [][ \/ be64_to_cpu(lvb') = be64_to_cpu(lvb)
        \/ be64_to_cpu(lvb') = be64_to_cpu(lvb) + 1
        \/ ~cleared /\ cleared' ]_lvb

\* Where a rank is determines how many barriers it has entered ...
BeforePrep == {"clear_lock", "clear_write", "clear_unlock", "prep"}
BeforeFirst == {"top", "r_barrier", "w_lock", "w_barrier", "destroy", "done"}
BeforeSecond == {"r_wait", "w_wait", "r_lock", "check", "write", "unlock", "u_barrier"}
Waiting == {"prep_wait", "r_wait", "w_wait", "u_wait"}

EpochInv ==
    \A r \in Ranks :
        /\ l_pc[r] \in BeforePrep => epoch[r] = 0 /\ iter[r] = 0
        /\ l_pc[r] = "prep_wait" => epoch[r] = 1 /\ iter[r] = 0
        /\ l_pc[r] \in BeforeFirst => epoch[r] = 1 + 2 * iter[r]
        /\ l_pc[r] \in BeforeSecond => epoch[r] = 2 + 2 * iter[r]
        /\ l_pc[r] = "u_wait" => epoch[r] = 3 + 2 * iter[r]

\* ... and a rank that has left a barrier knows that every other rank has
\* entered it.
StepInv ==
    \A r, q \in Ranks :
        epoch[q] >= IF l_pc[r] \in Waiting THEN epoch[r] - 1 ELSE epoch[r]

\* Lockstep: the barriers of main and run_test keep the ranks within one
\* barrier of each other, so that no rank is ever a whole iteration ahead.
Lockstep == EpochInv /\ StepInv

\* Which level a rank holds follows from where it is and whether it writes.
LocksEx(r) ==
    \/ l_pc[r] \in {"clear_write", "clear_unlock", "w_barrier", "w_wait", "write"}
    \/ l_pc[r] \in {"check", "unlock"} /\ IsWriter(r)

LocksPr(r) == l_pc[r] \in {"check", "unlock"} /\ ~IsWriter(r)

RoleInv ==
    \A r \in Ranks :
        /\ l_pc[r] \in {"clear_lock", "clear_write", "clear_unlock"} => r = 0
        /\ l_pc[r] \in {"w_lock", "w_barrier", "w_wait", "write"} => IsWriter(r)
        /\ l_pc[r] \in {"r_barrier", "r_wait", "r_lock"} => ~IsWriter(r)
        /\ l_pc[r] \in {"r_barrier", "w_lock", "w_barrier", "u_wait"} \cup BeforeSecond
                => iter[r] < max_iter

HeldInv ==
    \A r \in Ranks :
        /\ held[r] = "EX" <=> LocksEx(r)
        /\ held[r] = "PR" <=> LocksPr(r)

\* No rank holds the lock EX while another holds it at all.
Exclusive ==
    \A r, q \in Ranks : r # q /\ held[r] = "EX" => held[q] = "NL"

\* Iteration i has been written to the LVB.
Written(i) ==
    LET w == Writer(i)
    IN  \/ epoch[w] >= 3 + 2 * i
        \/ epoch[w] = 2 + 2 * i /\ l_pc[w] \in {"unlock", "u_barrier"}

\* The LVB is the number of iterations written so far.
LvbInv ==
    cleared => \A i \in 0 .. max_iter :
                  /\ Written(i) => be64_to_cpu(lvb) >= i + 1
                  /\ ~Written(i) => be64_to_cpu(lvb) <= i

\* The inductive invariant behind NoFalseFailure.
IInv ==
    /\ LvbTypeOK
    /\ Lockstep
    /\ RoleInv
    /\ HeldInv
    /\ Exclusive
    /\ LvbInv
    /\ failed => aborted /\ ~cleared

\* As long as no signal arrives every rank leaves run_test, or the job is
\* aborted: no rank waits for ever on a lock whose holder waits for it at a
\* barrier.  This is what the second barrier of run_test is for.  (A signal that
\* reaches one rank only may leave the others in a barrier.)
Termination == <>(aborted \/ AllDone \/ \E r \in Ranks : l_caught_sig[r])
=============================================================================
