--------------------------- MODULE FlockUnitTest ----------------------------
(***************************************************************************)
(* programs/flock_tests/flock_unit_test.c: two MPI ranks run a fixed list  *)
(* of lock, unlock and barrier calls on two files and abort as soon as a   *)
(* call does not return what the script expects.  A rank's script is the   *)
(* sequence of its calls in program order.                                 *)
(*                                                                         *)
(* The kernel's side: a flock belongs to the open file, so to a rank and a *)
(* descriptor; an fcntl lock belongs to the process, whichever descriptor  *)
(* is used.  Only locks of different owners conflict.                      *)
(***************************************************************************)
EXTENDS MpiDlm, Sequences

VARIABLES use_flock,   \* -t: flock, or fcntl
          pc,          \* pc[r]: calls of its script rank r has finished
          epoch,       \* epoch[r]: barriers it has entered
          blocked,     \* blocked[r]: it is inside a lock call that waits
          alarm,       \* alarm[r]: "none", "set", "lost" (it rang in vain)
          held,        \* held[f]: the locks <<owner, level>> on file f
          aborted      \* abort_printf was called

vars == <<use_flock, pc, epoch, blocked, alarm, held, aborted>>

Ranks == {0, 1}
Files == {"path1", "path2"}

(***************************************************************************)
(* The script.  fname, fd, expected_return, ex and try are the parameters  *)
(* of lock_abort; 1 and 0 stand for C's truth values there.                *)
(***************************************************************************)
Lock(fname, fd, expected_return, ex, try) ==
    <<[op |-> "lock", fname |-> fname, fd |-> fd, expected |-> expected_return,
       ex |-> ex = 1, try |-> try = 1]>>
Unlock(fname, fd) == <<[op |-> "unlock", fname |-> fname, fd |-> fd]>>
Close(fname, fd) == <<[op |-> "close", fname |-> fname, fd |-> fd]>>
Barrier == <<[op |-> "barrier"]>>
Mark == <<[op |-> "section"]>>      \* the end of a test function

trylock_return == IF use_flock THEN "EWOULDBLOCK" ELSE "0"

\* The last unlock is missing.
test_1node_1fileKeeps(f) ==
    Lock(f, 1, "0", 1, 0) \o Lock(f, 1, "0", 1, 1) \o Mark \o Close(f, 1) \o Close(f, 2)

test_1node_1file(f) ==
       Lock(f, 1, "0", 0, 0) \o Lock(f, 2, "0", 0, 0) \o Unlock(f, 1) \o Unlock(f, 2)
    \o Lock(f, 1, "0", 1, 1) \o Lock(f, 2, trylock_return, 1, 1) \o Unlock(f, 1)
    \o Lock(f, 1, "0", 1, 0) \o Lock(f, 2, trylock_return, 0, 1) \o Unlock(f, 1)
    \o Lock(f, 1, "0", 0, 0) \o Lock(f, 1, "0", 1, 0) \o Unlock(f, 1)
    \o Lock(f, 1, "0", 0, 0) \o Lock(f, 1, "0", 0, 0) \o Unlock(f, 1)
    \o Lock(f, 1, "0", 1, 0) \o Lock(f, 1, "0", 1, 0) \o Unlock(f, 1)
    \o Lock(f, 1, "0", 1, 0) \o Lock(f, 1, "0", 1, 1) \o Unlock(f, 1)
    \o Mark \o Close(f, 1) \o Close(f, 2)

test_2nodes_1file(f, master) ==
       Lock(f, 1, "0", 0, 0) \o Barrier \o Unlock(f, 1)
    \o Barrier
    \o (IF master
        THEN Lock(f, 1, "0", 1, 1) \o Barrier \o Barrier \o Unlock(f, 1)
        ELSE Barrier \o Lock(f, 1, "EWOULDBLOCK", 1, 1) \o Barrier)
    \o (IF master
        THEN Lock(f, 1, "0", 1, 0) \o Barrier \o Barrier \o Unlock(f, 1)
        ELSE Barrier \o Lock(f, 1, "EWOULDBLOCK", 0, 1) \o Barrier)
    \o Mark \o Close(f, 1)

test_deadlocks(f, master) ==
    (IF master
     THEN Lock(f, 1, "0", 1, 0) \o Barrier \o Barrier \o Unlock(f, 1)
     ELSE Barrier \o <<[op |-> "set_alarm"]>> \o Lock(f, 1, "EINTR", 1, 0) \o Barrier)
    \o Mark \o Close(f, 1)

Script(r) ==
       test_1node_1file(IF r = 0 THEN "path1" ELSE "path2")
    \o Barrier
    \o test_2nodes_1file("path1", r = 0)
    \o Barrier
    \o test_deadlocks("path1", r = 0)

-----------------------------------------------------------------------------
Init ==
    /\ use_flock \in BOOLEAN
    /\ pc = [r \in Ranks |-> 0]
    /\ epoch = [r \in Ranks |-> 0]
    /\ blocked = [r \in Ranks |-> FALSE]
    /\ alarm = [r \in Ranks |-> "none"]
    /\ held = [f \in Files |-> {}]
    /\ aborted = FALSE

Done(r) == pc[r] = Len(Script(r))
Call(r) == Script(r)[pc[r] + 1]
Calls(r, op) == ~ Done(r) /\ Call(r).op = op

Return(r) == pc' = [pc EXCEPT ![r] = @ + 1]

\* The kernel (external).
Owner(r, fd) == IF use_flock THEN <<r, fd>> ELSE <<r, 0>>
Others(o, f) == {h \in held[f] : h[1] # o}
Free(o, f, ex) == \A h \in Others(o, f) : h[2] = "SH" /\ ~ ex

Granted(r, c) ==
    held' = [held EXCEPT ![c.fname] =
                 Others(Owner(r, c.fd), c.fname)
                     \cup {<<Owner(r, c.fd), IF c.ex THEN "EX" ELSE "SH">>}]

\* lock_abort: compare what the lock call returned with what was expected.
LockReturns(r, result) ==
    IF Call(r).expected = result THEN Return(r) /\ UNCHANGED aborted
                                 ELSE aborted' = TRUE /\ UNCHANGED pc

\* lock_flock, lock_fcntl.  A call that has to wait stays in the kernel.
LockCall(r) ==
    /\ Calls(r, "lock")
    /\ LET c == Call(r) IN
       IF Free(Owner(r, c.fd), c.fname, c.ex)
       THEN /\ Granted(r, c)
            /\ LockReturns(r, "0")
            /\ blocked' = [blocked EXCEPT ![r] = FALSE]
       ELSE /\ UNCHANGED held
            /\ IF c.try THEN LockReturns(r, "EWOULDBLOCK") /\ UNCHANGED blocked
                        ELSE /\ ~ blocked[r] /\ blocked' = [blocked EXCEPT ![r] = TRUE]
                             /\ UNCHANGED <<pc, aborted>>
    /\ UNCHANGED <<use_flock, epoch, alarm>>

\* Unlocking, and closing a descriptor, drop the locks of the owner.
UnlockCall(r) ==
    /\ Calls(r, "unlock") \/ Calls(r, "close")
    /\ held' = [held EXCEPT ![Call(r).fname] = Others(Owner(r, Call(r).fd), Call(r).fname)]
    /\ Return(r)
    /\ UNCHANGED <<use_flock, epoch, blocked, alarm, aborted>>

\* do_barrier: blocked[r] says that r has entered it.
BarrierCall(r) ==
    /\ Calls(r, "barrier")
    /\ \/ /\ ~ blocked[r]
          /\ epoch' = Arrive(epoch, r)
          /\ blocked' = [blocked EXCEPT ![r] = TRUE]
          /\ UNCHANGED pc
       \/ /\ blocked[r] /\ MayLeave(epoch, r)
          /\ blocked' = [blocked EXCEPT ![r] = FALSE]
          /\ Return(r)
          /\ UNCHANGED epoch
    /\ UNCHANGED <<use_flock, alarm, held, aborted>>

SectionEnds(r) ==
    /\ Calls(r, "section")
    /\ Return(r)
    /\ UNCHANGED <<use_flock, epoch, blocked, alarm, held, aborted>>

set_alarm(r) ==
    /\ Calls(r, "set_alarm")
    /\ alarm' = [alarm EXCEPT ![r] = "set"]
    /\ Return(r)
    /\ UNCHANGED <<use_flock, epoch, blocked, held, aborted>>

\* The alarm rings: a waiting lock call returns EINTR.  When the rank is not yet
\* inside the call the signal is spent on nothing.
AlarmRings(r) ==
    /\ alarm[r] = "set"
    /\ IF blocked[r]
       THEN /\ LockReturns(r, "EINTR")
            /\ blocked' = [blocked EXCEPT ![r] = FALSE]
            /\ alarm' = [alarm EXCEPT ![r] = "none"]
       ELSE /\ alarm' = [alarm EXCEPT ![r] = "lost"]
            /\ UNCHANGED <<pc, blocked, aborted>>
    /\ UNCHANGED <<use_flock, epoch, held>>

Step(r) ==
    /\ ~ aborted
    /\ \/ LockCall(r) \/ UnlockCall(r) \/ BarrierCall(r) \/ SectionEnds(r)
       \/ set_alarm(r) \/ AlarmRings(r)

Over == aborted \/ \A r \in Ranks : Done(r)

Next == (\E r \in Ranks : Step(r)) \/ (Over /\ UNCHANGED vars)

-----------------------------------------------------------------------------
\* With correct flock or fcntl locks no call of the script returns anything but
\* what is expected, in every interleaving of the two ranks: the barriers make
\* the outcome of each trylock certain, and conversions never meet the other
\* rank's lock.
NeverAborts == ~ aborted

\* Each test function gives back every lock it took before it closes its
\* descriptors, with either kind of lock: what is dropped through one of two
\* descriptors of a process, and what a refused trylock leaves, add up.
SectionsReleaseAll ==
    \A r \in Ranks : Calls(r, "section") => \A f \in Files : \A h \in held[f] : h[1][1] # r

\* Where every job must come to: its end, unless the alarm of rank 1 rings before its lock
\* call waits: then rank 1 waits for the lock of rank 0, and rank 0 for rank 1 in
\* the barrier.
Ended == Over \/ \E r \in Ranks : alarm[r] = "lost"
=============================================================================
