-------------------------------- MODULE MC_Dlm --------------------------------
(* Model checking of the DLM tests.  "what" chooses: the ranks of lvb_torture, *)
(* two nodes that run lock_grab and compete for the locks of a lock space, or  *)
(* lock_grab's parse_args on all small numbers.                                *)
EXTENDS LvbTorture, LockGrab, LockGrabArgs

VARIABLE what

MCvars == <<what, lvb_vars, vars, parse>>

ASSUME ConstantsOK /\ ArgsConstantsOK

IdleParse == args = <<>> /\ lgc = <<>> /\ set = {} /\ ret = "idle"

IdleLvb == LvbInit /\ lvb = cpu_to_be64(0)

\* The instances that are not chosen stay where they start.
MCInit == /\ Init
          /\ \/ what = "lvb" /\ LvbInit /\ IdleParse
             \/ what = "pair" /\ IdleLvb /\ IdleParse
             \/ what = "args" /\ IdleLvb /\ ArgsInit

MCNext == /\ \/ what = "lvb" /\ LvbNext /\ UNCHANGED <<vars, parse>>
             \/ what = "pair" /\ Next /\ UNCHANGED <<lvb_vars, parse>>
             \/ what = "args" /\ ArgsNext /\ UNCHANGED <<lvb_vars, vars>>
          /\ UNCHANGED what

MCSpec == MCInit /\ [][MCNext]_MCvars

RestOfPair == UNCHANGED <<what, lvb_vars, parse>>
RestOfLvb == UNCHANGED <<what, vars, parse>>

\* Fairness of LvbTorture for its ranks and of LockGrab for the two nodes.
MCFairSpec ==
    /\ MCSpec
    /\ \A r \in Ranks :
         WF_MCvars(what = "lvb" /\ ~aborted /\ Step(r) /\ RestOfLvb)
    /\ \A n \in Nodes :
         /\ WF_MCvars(what = "pair" /\ Runs(n) /\ RestOfPair)
         /\ SF_MCvars(what = "pair" /\ PrLock(n) /\ RestOfPair)
         /\ WF_MCvars(what = "pair" /\ SeesSignal(n) /\ RestOfPair)

-----------------------------------------------------------------------------
\* Without a signal every rank of lvb_torture leaves run_test, or the job is
\* aborted (Termination of LvbTorture): no rank waits for ever on a lock whose
\* holder waits for it at a barrier.
RanksEnd == what = "lvb" => Termination

\* A node waiting for a PR lock gets it, or leaves the program; a node that has
\* caught a signal leaves run, whatever it was waiting for.
NodesGetOn == PrGranted /\ SignalEnds
===============================================================================
