------------------------------ MODULE LockGrab ------------------------------
(***************************************************************************)
(* programs/lock_grab/lock_grab.c on several cluster nodes.  Each node     *)
(* keeps the names of the locks it holds PR in lg_held and the others in   *)
(* lg_free, and loops: take and drop one EX lock with trylocks, or take or *)
(* drop a few PR locks.  The lists are the C arrays: slots 0 ..            *)
(* lg_num_locks - 1, empty ones NULL; lg_cur_held counts the held ones.    *)
(***************************************************************************)
EXTENDS MpiDlm

CONSTANTS Nodes,          \* the nodes that run the program
          lg_num_locks,   \* -c
          lg_min_held,    \* -L
          lg_max_held,    \* -H
          MaxExTries,     \* LOCK_GRAB_MAX_EX_TRIES
          RandMax,        \* largest random byte (255)
          NULL

\* The first conjuncts are what parse_args accepts (module LockGrabArgs).
ConstantsOK ==
    /\ lg_num_locks \in Nat \ {0}
    /\ lg_min_held \in Nat /\ lg_max_held \in Nat
    /\ lg_min_held < lg_max_held /\ lg_max_held <= lg_num_locks
    /\ MaxExTries \in Nat \ {0} /\ RandMax \in Nat /\ NULL \notin Nat

VARIABLES pc,           \* pc[n]: where node n is in run
          lg_cur_held,  \* lg_cur_held[n]
          lg_held,      \* lg_held[n]: array of lock names or NULL
          lg_free,      \* lg_free[n]: array of lock names or NULL
          todo,         \* todo[n]: locks left in this pass, or EX tries left
          direction,    \* direction[n]
          num,          \* num[n]: the slot pick_lock chose (0 when none is)
          caught_sig,   \* caught_sig[n]
          dlm           \* dlm[l][n]: level node n holds on lock l (o2dlm)

vars == <<pc, lg_cur_held, lg_held, lg_free, todo, direction, num, caught_sig, dlm>>
lists == <<lg_cur_held, lg_held, lg_free>>

Locks == 0 .. lg_num_locks - 1   \* build_locklist names them 0 .. n - 1

\* build_locklist: every name is free.
Init ==
    /\ pc = [n \in Nodes |-> "top"]
    /\ lg_cur_held = [n \in Nodes |-> 0]
    /\ lg_held = [n \in Nodes |-> [s \in Locks |-> NULL]]
    /\ lg_free = [n \in Nodes |-> [s \in Locks |-> s]]
    /\ todo = [n \in Nodes |-> 0]
    /\ direction = [n \in Nodes |-> "LOCK"]
    /\ num = [n \in Nodes |-> 0]
    /\ caught_sig = [n \in Nodes |-> FALSE]
    /\ dlm = [l \in Locks |-> [n \in Nodes |-> "NL"]]

Goto(n, l) == pc' = [pc EXCEPT ![n] = l]

\* The number of names pick_lock and locks_this_pass choose from.
Count(n, dir) ==
    IF dir = "LOCK" THEN lg_num_locks - lg_cur_held[n] ELSE lg_cur_held[n]

\* Mutant of choose_direction: the high-water mark is passed by one.
choose_direction_OverHigh(n) ==
    IF lg_cur_held[n] > lg_max_held THEN {"UNLOCK"}
    ELSE IF lg_cur_held[n] <= lg_min_held THEN {"LOCK"}
    ELSE {"LOCK", "UNLOCK"}

choose_direction(n) ==
    IF lg_cur_held[n] >= lg_max_held THEN {"UNLOCK"}
    ELSE IF lg_cur_held[n] <= lg_min_held THEN {"LOCK"}
    ELSE {"LOCK", "UNLOCK"}

\* A random byte, reduced when it is larger than the names there are.
locks_this_pass(n, dir) ==
    { IF rval > Count(n, dir) THEN rval % Count(n, dir) ELSE rval : rval \in 0 .. RandMax }

\* Mutant of Top: the flag of the handler is not looked at.
TopIgnoresSignal(n) ==
    /\ pc[n] = "top"
    /\ \/ /\ lg_cur_held[n] # lg_num_locks
          /\ todo' = [todo EXCEPT ![n] = MaxExTries]
          /\ Goto(n, "ex_try")
          /\ UNCHANGED direction
       \/ \E dir \in choose_direction(n) :
             /\ direction' = [direction EXCEPT ![n] = dir]
             /\ Goto(n, "count")
             /\ UNCHANGED todo
    /\ UNCHANGED <<lists, num, caught_sig, dlm>>

\* The head of the loop of run: choose_mode and, for PR, choose_direction.
Top(n) ==
    /\ pc[n] = "top"
    /\ ~caught_sig[n]
    /\ \/ /\ lg_cur_held[n] # lg_num_locks
          /\ todo' = [todo EXCEPT ![n] = MaxExTries]
          /\ Goto(n, "ex_try")
          /\ UNCHANGED direction
       \/ \E dir \in choose_direction(n) :
             /\ direction' = [direction EXCEPT ![n] = dir]
             /\ Goto(n, "count")
             /\ UNCHANGED todo
    /\ UNCHANGED <<lists, num, caught_sig, dlm>>

ThisPass(n) ==
    /\ pc[n] = "count"
    /\ \E k \in locks_this_pass(n, direction[n]) :
          /\ todo' = [todo EXCEPT ![n] = k]
          /\ Goto(n, IF k = 0 THEN "top" ELSE "pick")
    /\ UNCHANGED <<lists, direction, num, caught_sig, dlm>>

\* Mutant of TryEx: the EX lock is asked for without O2DLM_TRYLOCK while the
\* node is not tracked as holding it (the name is picked again on each try).
TryExPicksAgain(n) ==
    /\ pc[n] = "ex_try"
    /\ \E s \in 0 .. Count(n, "LOCK") - 1 :
          LET l == lg_free[n][s] IN
          /\ Grantable(dlm[l], n, "EX")
          /\ dlm' = [dlm EXCEPT ![l][n] = "EX"]
          /\ todo' = [todo EXCEPT ![n] = @ - 1]
          /\ num' = [num EXCEPT ![n] = s]
          /\ Goto(n, IF todo[n] = 1 THEN "ex_held" ELSE "ex_try")
    /\ UNCHANGED <<lists, direction, caught_sig>>

\* do_one_ex_lock, one trylock: pick_lock among the free names.
TryEx(n) ==
    /\ pc[n] = "ex_try"
    /\ \E s \in 0 .. Count(n, "LOCK") - 1 :
          LET l == lg_free[n][s] IN
          /\ todo' = [todo EXCEPT ![n] = @ - 1]
          /\ IF Grantable(dlm[l], n, "EX")
               THEN /\ dlm' = [dlm EXCEPT ![l][n] = "EX"]
                    /\ num' = [num EXCEPT ![n] = s]
                    /\ Goto(n, "ex_held")
               ELSE /\ Goto(n, IF todo[n] = 1 THEN "top" ELSE "ex_try")
                    /\ UNCHANGED <<num, dlm>>
    /\ UNCHANGED <<lists, direction, caught_sig>>

\* After the sleep: o2dlm_unlock.
DropEx(n) ==
    /\ pc[n] = "ex_held"
    /\ dlm' = [dlm EXCEPT ![lg_free[n][num[n]]][n] = "NL"]
    /\ Goto(n, "top")
    /\ todo' = [todo EXCEPT ![n] = 0]
    /\ num' = [num EXCEPT ![n] = 0]
    /\ UNCHANGED <<lists, direction, caught_sig>>

\* do_one_pr_lock: pick_lock, then o2dlm_lock or o2dlm_unlock is called.
Pick(n) ==
    /\ pc[n] = "pick"
    /\ \E s \in 0 .. Count(n, direction[n]) - 1 : num' = [num EXCEPT ![n] = s]
    /\ Goto(n, IF direction[n] = "LOCK" THEN "pr_lock" ELSE "pr_unlock")
    /\ UNCHANGED <<lists, todo, direction, caught_sig, dlm>>

\* The array without the entry of slot s: memmove, then the last slot is NULL.
ShiftDown(list, count, s) ==
    [k \in DOMAIN list |-> IF k = count - 1 THEN NULL
                           ELSE IF s <= k /\ k < count - 1 THEN list[k + 1]
                           ELSE list[k]]

\* Mutant of shift_lock: memmove is given one element too few.
shift_lock_ShortMove(n, dir, s) ==
    LET source == IF dir = "LOCK" THEN lg_free[n] ELSE lg_held[n]
        dest   == IF dir = "LOCK" THEN lg_held[n] ELSE lg_free[n]
        scount == Count(n, dir)
        dcount == lg_num_locks - scount
        source2 == [k \in DOMAIN source |->
                      IF k = scount - 1 THEN NULL
                      ELSE IF s <= k /\ k < scount - 2 THEN source[k + 1] ELSE source[k]]
        dest2   == [dest EXCEPT ![dcount] = source[s]]
    IN  /\ lg_held' = [lg_held EXCEPT ![n] = IF dir = "LOCK" THEN dest2 ELSE source2]
        /\ lg_free' = [lg_free EXCEPT ![n] = IF dir = "LOCK" THEN source2 ELSE dest2]
        /\ lg_cur_held' = [lg_cur_held EXCEPT ![n] = IF dir = "LOCK" THEN @ + 1 ELSE @ - 1]

shift_lock(n, dir, s) ==
    LET source == IF dir = "LOCK" THEN lg_free[n] ELSE lg_held[n]
        dest   == IF dir = "LOCK" THEN lg_held[n] ELSE lg_free[n]
        scount == Count(n, dir)
        dcount == lg_num_locks - scount
        source2 == ShiftDown(source, scount, s)
        dest2   == [dest EXCEPT ![dcount] = source[s]]
    IN  /\ lg_held' = [lg_held EXCEPT ![n] = IF dir = "LOCK" THEN dest2 ELSE source2]
        /\ lg_free' = [lg_free EXCEPT ![n] = IF dir = "LOCK" THEN source2 ELSE dest2]
        /\ lg_cur_held' = [lg_cur_held EXCEPT ![n] = IF dir = "LOCK" THEN @ + 1 ELSE @ - 1]

\* The end of do_one_pr_lock and of the for loop in run around it.
PrDone(n) ==
    /\ shift_lock(n, direction[n], num[n])
    /\ todo' = [todo EXCEPT ![n] = IF caught_sig[n] THEN 0 ELSE @ - 1]
    /\ num' = [num EXCEPT ![n] = 0]
    /\ Goto(n, IF todo'[n] = 0 THEN "top" ELSE "pick")
    /\ UNCHANGED <<direction, caught_sig>>

\* o2dlm_lock at PR returns: it blocks while another node holds the lock EX.
PrLock(n) ==
    LET l == lg_free[n][num[n]] IN
    /\ pc[n] = "pr_lock"
    /\ Grantable(dlm[l], n, "PR")
    /\ dlm' = [dlm EXCEPT ![l][n] = "PR"]
    /\ PrDone(n)

PrUnlock(n) ==
    /\ pc[n] = "pr_unlock"
    /\ dlm' = [dlm EXCEPT ![lg_held[n][num[n]]][n] = "NL"]
    /\ PrDone(n)

\* run ends on a signal seen at the head of the loop, or on an error of
\* /dev/urandom or of an o2dlm call (a signal interrupts a waiting one); main
\* then calls o2dlm_destroy, which drops every lock of the node.
Leave(n) ==
    /\ pc[n] # "done"
    /\ dlm' = [l \in Locks |-> [dlm[l] EXCEPT ![n] = "NL"]]
    /\ Goto(n, "done")
    /\ UNCHANGED <<lists, todo, direction, num, caught_sig>>

Signal(n) ==
    /\ pc[n] # "done"
    /\ ~caught_sig[n]
    /\ caught_sig' = [caught_sig EXCEPT ![n] = TRUE]
    /\ UNCHANGED <<pc, lists, todo, direction, num, dlm>>

Terminated == (\A n \in Nodes : pc[n] = "done") /\ UNCHANGED vars

Next ==
    \/ \E n \in Nodes :
         \/ Top(n) \/ TryEx(n) \/ DropEx(n)
         \/ ThisPass(n) \/ Pick(n) \/ PrLock(n) \/ PrUnlock(n)
         \/ Leave(n) \/ Signal(n)
    \/ Terminated

Spec == Init /\ [][Next]_vars

\* What a node does without waiting for another.
Runs(n) == Top(n) \/ TryEx(n) \/ DropEx(n) \/ ThisPass(n) \/ Pick(n) \/ PrUnlock(n)

SeesSignal(n) == pc[n] = "top" /\ caught_sig[n] /\ Leave(n)

\* Every node keeps running; a blocked PR request stays queued in the DLM and
\* is granted when the EX lock in its way is dropped, so it cannot be passed
\* over for ever.  A node that has seen a signal leaves.
Fairness ==
    \A n \in Nodes : WF_vars(Runs(n)) /\ SF_vars(PrLock(n)) /\ WF_vars(SeesSignal(n))

FairSpec == Spec /\ Fairness

-----------------------------------------------------------------------------
Pcs == {"top", "count", "ex_try", "ex_held", "pick", "pr_lock", "pr_unlock", "done"}

\* Every variable has its type: the counters stay within the arrays.
TypeOK ==
    /\ pc \in [Nodes -> Pcs]
    /\ lg_cur_held \in [Nodes -> 0 .. lg_num_locks]
    /\ lg_held \in [Nodes -> [Locks -> Locks \cup {NULL}]]
    /\ lg_free \in [Nodes -> [Locks -> Locks \cup {NULL}]]
    /\ todo \in [Nodes -> Nat]
    /\ direction \in [Nodes -> {"LOCK", "UNLOCK"}]
    /\ num \in [Nodes -> Locks]
    /\ caught_sig \in [Nodes -> BOOLEAN]
    /\ dlm \in [Locks -> [Nodes -> Levels]]

\* pick_lock and locks_this_pass never reduce modulo zero, and shift_lock never
\* reaches its abort(): whenever a node is about to choose a name there is one,
\* although the counter moves between the choice of the direction, the choice
\* of the number of locks and each lock of the pass.
NeverEmptyChoice ==
    \A n \in Nodes :
        /\ pc[n] = "ex_try" => Count(n, "LOCK") > 0
        /\ pc[n] \in {"count", "pick", "pr_lock", "pr_unlock"} => Count(n, direction[n]) > 0
        /\ pc[n] \in {"pick", "pr_lock", "pr_unlock"} => todo[n] \in 1 .. Count(n, direction[n])

HeldNames(n) == {lg_held[n][k] : k \in 0 .. lg_cur_held[n] - 1}
FreeNames(n) == {lg_free[n][k] : k \in 0 .. lg_num_locks - lg_cur_held[n] - 1}

\* The two arrays of a running node always split the lock names between them
\* (every name once, empty slots NULL), and lg_held names exactly the locks the
\* DLM has granted the node at PR: shift_lock and the o2dlm calls never drift
\* apart, over any sequence of passes and signals.
ListsMatchDlm ==
    \A n \in Nodes : pc[n] # "done" =>
        /\ HeldNames(n) \cup FreeNames(n) = Locks
        /\ \A k \in Locks :
              /\ k >= lg_cur_held[n] => lg_held[n][k] = NULL
              /\ k >= lg_num_locks - lg_cur_held[n] => lg_free[n][k] = NULL
        /\ HeldNames(n) = {l \in Locks : dlm[l][n] = "PR"}

\* A node blocked on a PR lock waits for a node that holds the lock EX only
\* between its trylock and its unlock, never for one that is blocked itself:
\* EX locks are taken one at a time and only with O2DLM_TRYLOCK, so no cycle of
\* waiting nodes can form.
NoWaitCycle ==
    \A n, m \in Nodes :
        pc[n] = "pr_lock" /\ n # m /\ dlm[lg_free[n][num[n]]][m] = "EX"
            => pc[m] = "ex_held" /\ lg_free[m][num[m]] = lg_free[n][num[n]]

WaitsForPr(n) == pc[n] = "pr_lock"
HasLeft(n) == pc[n] = "done"

\* A node waiting for a PR lock gets it, or leaves the program.
PrGranted == \A n \in Nodes : WaitsForPr(n) ~> ~ WaitsForPr(n)

\* A node that has caught a signal leaves run, whatever it was waiting for.
SignalEnds == \A n \in Nodes : caught_sig[n] ~> HasLeft(n)
=============================================================================
