----------------------------- MODULE QuotaMulti ------------------------------
(***************************************************************************)
(* programs/quota_tests/quota_multi_tests.c: what the calls of QuotaScript *)
(* do.  The quota of the file system is external: it counts inodes and     *)
(* clusters of a user or group, refuses what exceeds a hard limit, or the  *)
(* soft limit of inodes when the grace time has passed.  Users of          *)
(* different ranks are taken to have different ids.                        *)
(*                                                                         *)
(* One fault may happen: a call fails, quotactl does not set the limits,   *)
(* or the file system miscounts.                                           *)
(***************************************************************************)
EXTENDS MpiScript, Functions

CONSTANTS isoftlimit, bhardlimit, rm_nums,
          Faults      \* the faults considered: "none", "call", "unset", "miscount"

ConstantsOK ==
    /\ size \in Nat \ {0} /\ isoftlimit \in Nat \ {0} /\ bhardlimit \in Nat \ {0}
    /\ (size - 1) * rm_nums <= 2 * isoftlimit

VARIABLES quota,       \* quota[id]: the inodes and the space the file system has counted, and
                       \* whether limits are set
          real,        \* real[id]: the inodes the files of id really have
          igrace,      \* the grace time for inodes is the short one of the grace test
          late,        \* ids that have been over the soft limit for longer than that
          made,        \* the numbers of the files of negative_inodes_limit_test that exist
          removed,     \* inodes_removed, of rank 0
          leftover,    \* the last negative_inodes_limit_test has left a file behind
          reg,         \* reg[r]: file_index, i or writen_size, what rank r sends or received
          clusters,    \* the size of the file of concurrent_rw_test
          workplace,   \* the directory exists
          fault        \* the fault that may still happen, or what came of it

rest == <<made, removed, leftover, reg, clusters, workplace>>
local == <<quota, real, igrace, late, rest, fault>>
vars == <<mpi, local>>

Calls == UNION {Range(script[r]) : r \in Ranks}
Charged == UNION {c.ids : c \in {d \in Calls : "ids" \in DOMAIN d}}
Ids == DOMAIN quota
FileNumbers == 0 .. 2 * isoftlimit - 1

Init ==
    /\ MpiInit
    /\ quota = [id \in Charged |-> [inodes |-> 0, space |-> 0, limited |-> FALSE]]
    /\ real = [id \in Charged |-> 0]
    /\ igrace = FALSE /\ late = {}
    /\ made = {} /\ removed = {} /\ leftover = FALSE /\ clusters = 0
    /\ reg = [r \in Ranks |-> 0]
    /\ workplace = TRUE
    /\ fault \in Faults

-----------------------------------------------------------------------------
Returns(r) == Skip(r, 0) /\ UNCHANGED <<epoch, mail, aborted>>
Complains == MPI_Abort /\ UNCHANGED local

\* Whether the quotas of ids have room for another inode, or another cluster.
InodeFits(ids) ==
    \A id \in ids : quota[id].limited =>
        quota[id].inodes < (IF id \in late THEN isoftlimit ELSE 2 * isoftlimit)
ClusterFits(ids) == \A id \in ids : quota[id].limited => quota[id].space < bhardlimit

\* n more inodes, or clusters, for all of ids.
AddInodes(q, ids, n) == [id \in Ids |-> IF id \in ids THEN [q[id] EXCEPT !.inodes = @ + n] ELSE q[id]]
AddSpace(q, ids, n) == [id \in Ids |-> IF id \in ids THEN [q[id] EXCEPT !.space = @ + n] ELSE q[id]]

\* The ids a call may be charged to: all of ids, or one less when the file system miscounts.
\* Some of the tests look at what is counted for "of".
Charges(ids, of) ==
    {<<ids, fault>>} \cup
    IF fault = "miscount" THEN {<<ids \ {id}, IF id = of THEN "miscounted" ELSE "unseen">> : id \in ids}
    ELSE {}

ChargeInodes(ids, of, n) ==
    \E ch \in Charges(ids, of) : quota' = AddInodes(quota, ch[1], n) /\ fault' = ch[2]
ChargeSpace(ids, of, n) ==
    \E ch \in Charges(ids, of) : quota' = AddSpace(quota, ch[1], n) /\ fault' = ch[2]

\* The results of add_rm_user_group, getquota and setquota are not looked at.
setquota(r) ==
    /\ At(r, "setquota") /\ Returns(r)
    /\ \E id \in Call(r).ids :
       \/ /\ quota' = [quota EXCEPT ![id] = [inodes |-> Call(r).n, space |-> 0, limited |-> TRUE]]
          /\ UNCHANGED fault
       \/ /\ fault = "unset" /\ fault' = "not set"
          /\ quota' = [quota EXCEPT ![id].limited = FALSE]
    /\ UNCHANGED <<real, igrace, late, rest>>

\* The grace time is that of the whole file system.  Nobody sets it back.
setquotainfo(r) ==
    /\ At(r, "setquotainfo") /\ Returns(r) /\ igrace' = TRUE
    /\ UNCHANGED <<quota, real, late, rest, fault>>

OverSoft(id) == quota[id].limited /\ quota[id].inodes > isoftlimit
IsUser(id) == id[1] # "group"

\* sleep(grace_seconds).
sleep(r) ==
    /\ At(r, "sleep") /\ Returns(r)
    /\ late' = late \cup {id \in Call(r).ids : OverSoft(id)}
    /\ UNCHANGED <<quota, real, igrace, rest, fault>>

\* A slow rank is overtaken by the grace time in other tests as well.
GraceTimePasses(r) ==
    /\ At(r, "create") \/ At(r, "make")
    /\ igrace /\ \E id \in Call(r).ids \ late : IsUser(id) /\ OverSoft(id) /\ late' = late \cup {id}
    /\ UNCHANGED <<mpi, quota, real, igrace, rest, fault>>

\* open, and getquota where the test looks at it.
create(r) ==
    /\ At(r, "create")
    /\ LET c == Call(r) IN
          \/ /\ workplace /\ InodeFits(c.ids)
             /\ ChargeInodes(c.ids, c.of, 1)
             /\ real' = [id \in Ids |-> IF id \in c.ids THEN real[id] + 1 ELSE real[id]]
             /\ IF c.of \in Ids /\ quota'[c.of].inodes # c.n THEN MPI_Abort ELSE Returns(r)
             /\ UNCHANGED <<igrace, late, rest>>
          \/ ~ (workplace /\ InodeFits(c.ids)) /\ Complains

\* The calls that must fail.
exceed(r) ==
    /\ At(r, "exceed")
    /\ IF InodeFits(Call(r).ids) THEN Complains ELSE Returns(r) /\ UNCHANGED local
overwrite(r) ==
    /\ At(r, "overwrite")
    /\ IF ClusterFits(Call(r).ids) THEN Complains ELSE Returns(r) /\ UNCHANGED local

write(r) ==
    /\ At(r, "write")
    /\ \/ /\ ClusterFits(Call(r).ids) /\ Returns(r)
          /\ ChargeSpace(Call(r).ids, <<>>, 1)
          /\ UNCHANGED <<real, igrace, late, rest>>
       \/ ~ ClusterFits(Call(r).ids) /\ Complains

\* All files of ids go, and with them what was counted.
cleanup(r) ==
    /\ At(r, "cleanup") /\ Returns(r)
    /\ LET ids == Call(r).ids IN
       /\ quota' = [id \in Ids |-> IF id \in ids THEN [quota[id] EXCEPT !.inodes = 0, !.space = 0] ELSE quota[id]]
       /\ real' = [id \in Ids |-> IF id \in ids THEN 0 ELSE real[id]]
       /\ late' = late \ ids
    /\ clusters' = IF r = 0 THEN 0 ELSE clusters
    /\ UNCHANGED <<igrace, made, removed, leftover, reg, workplace, fault>>

\* sleep(5): the file system has found out the true number.
settle(r) ==
    /\ At(r, "settle")
    /\ LET c == Call(r) IN
       /\ quota' = [id \in Ids |-> IF id \in c.ids THEN [quota[id] EXCEPT !.inodes = real[id]] ELSE quota[id]]
       /\ IF \E id \in c.ids : real[id] # c.n THEN MPI_Abort ELSE Returns(r)
    /\ UNCHANGED <<real, igrace, late, rest, fault>>

-----------------------------------------------------------------------------
(* negative_inodes_limit_test *)

\* Rank 0 creates file n; one that is there is opened.  Before the first it has a table of
\* zeroes, and a file_index that holds anything: 2 * isoftlimit stands for what is no index.
make(r) ==
    /\ At(r, "make")
    /\ LET c == Call(r) IN
          \/ /\ c.n \in made \/ InodeFits(c.ids)
             /\ Returns(r)
             /\ IF c.n \in made THEN UNCHANGED <<quota, fault>>
                ELSE \E id \in c.ids : ChargeInodes(c.ids, id, 1)
             /\ made' = made \cup {c.n}
             /\ removed' = IF c.n = 0 THEN {} ELSE removed
             /\ \E junk \in 0 .. 2 * isoftlimit :
                   IF c.n = 0 THEN reg' = [reg EXCEPT ![0] = junk] ELSE junk = 0 /\ UNCHANGED reg
             /\ UNCHANGED <<real, igrace, late, leftover, clusters, workplace>>
          \/ ~ (c.n \in made \/ InodeFits(c.ids)) /\ Complains

\* The others draw numbers until they hit a file that is there.
unlink(r) ==
    /\ At(r, "unlink") /\ Returns(r)
    /\ \E i \in made :
          /\ made' = made \ {i} /\ reg' = [reg EXCEPT ![r] = i]
          /\ \E id \in Call(r).ids : ChargeInodes(Call(r).ids, id, -1)
    /\ UNCHANGED <<real, igrace, late, removed, leftover, clusters, workplace>>

\* Rank 0 marks file_index before MPI_Wait: the new one is there already or it is not.
Received(r, v) ==
    /\ reg' = [reg EXCEPT ![r] = v]
    /\ IF Call(r).mark THEN \E i \in {v, reg[r]} : removed' = removed \cup {i} ELSE UNCHANGED removed

\* What file_index holds before the first message is no index: the mark is written outside
\* inodes_removed, where it does no harm (Received) or kills rank 0, and the job with it.
StrayMark(r) == At(r, "recv") /\ Call(r).mark /\ reg[r] \notin FileNumbers
Stray(r) == StrayMark(r) /\ MPI_Abort /\ UNCHANGED local

count(r) ==
    /\ At(r, "count")
    /\ IF \A id \in Call(r).ids : quota[id].inodes = Call(r).n THEN Returns(r) /\ UNCHANGED local ELSE Complains

\* Rank 0 removes the files that are not marked, and file 0.
unmark(r) ==
    /\ At(r, "unmark") /\ Returns(r)
    /\ made' = (made \cap removed) \ {0}
    /\ LET gone == Cardinality(made \ made') IN
       quota' = [id \in Ids |-> IF id \in Call(r).ids
                                THEN [quota[id] EXCEPT !.inodes = Max({0, @ - gone})] ELSE quota[id]]
    /\ late' = late \ Call(r).ids
    /\ leftover' = (made' # {})
    /\ UNCHANGED <<real, igrace, removed, reg, clusters, workplace, fault>>

-----------------------------------------------------------------------------
(* concurrent_rw_test *)

\* get_rand(0, rank) clusters; those the file did not have yet are charged.
pwrite(r) ==
    /\ At(r, "pwrite") /\ Returns(r)
    /\ \E i \in 0 .. Call(r).n :
          LET more == Max({0, i - clusters}) IN
             /\ reg' = [reg EXCEPT ![r] = i] /\ clusters' = clusters + more
             /\ IF more > 0 THEN \E id \in Call(r).ids : ChargeSpace(Call(r).ids, id, more)
                ELSE UNCHANGED <<quota, fault>>
    /\ UNCHANGED <<real, igrace, late, made, removed, leftover, workplace>>

compare(r) ==
    /\ At(r, "compare")
    /\ IF \A id \in Call(r).ids : quota[id].space = reg[r] THEN Returns(r) /\ UNCHANGED local ELSE Complains

-----------------------------------------------------------------------------
\* teardown: rmdir fails on a directory that is not empty, and nobody looks.
rmdir(r) ==
    /\ At(r, "rmdir") /\ Returns(r)
    /\ workplace' = (made # {} \/ \E id \in Ids : real[id] > 0)
    /\ UNCHANGED <<quota, real, igrace, late, made, removed, leftover, reg, clusters, fault>>

Communicate(r) ==
    \/ MPI_Barrier(r) /\ UNCHANGED local
    \/ MPI_Isend(r, reg[r]) /\ UNCHANGED local
    \/ /\ MPI_Irecv(r) /\ Received(r, Head(mail[<<Call(r).from, r>>]))
       /\ UNCHANGED <<quota, real, igrace, late, made, leftover, clusters, workplace, fault>>
    \/ \E q \in Ranks :
          /\ Meet(r, q) /\ Received(r, reg[q])
          /\ UNCHANGED <<quota, real, igrace, late, made, leftover, clusters, workplace, fault>>

\* A call whose result is looked at fails.
Fail(r) ==
    /\ fault = "call" /\ fault' = "failed" /\ ~ Finished(r)
    /\ Call(r).op \in {"create", "make", "write", "cleanup", "pwrite"}
    /\ MPI_Abort
    /\ UNCHANGED <<quota, real, igrace, late, rest>>

Next ==
    \E r \in Ranks :
       /\ ~ aborted
       /\ \/ setquota(r) \/ setquotainfo(r) \/ sleep(r) \/ GraceTimePasses(r)
          \/ create(r) \/ exceed(r) \/ write(r) \/ overwrite(r) \/ cleanup(r) \/ settle(r)
          \/ make(r) \/ unlink(r) \/ Stray(r) \/ count(r) \/ unmark(r)
          \/ pwrite(r) \/ compare(r) \/ rmdir(r) \/ Communicate(r) \/ Fail(r)

Over == JobOver

Spec == Init /\ [][Next]_vars

-----------------------------------------------------------------------------
TypeOK ==
    /\ late \subseteq Ids /\ made \subseteq FileNumbers
    /\ \A id \in Ids : quota[id].inodes >= -1 /\ quota[id].space \in 0 .. bhardlimit + size

\* A file system that works passes, but for five weak spots of the program: the grace time of
\* one test stays in force for the later ones; more than one rank writes in concurrent_rw_test;
\* an unmarked file of an earlier round is found by negative_inodes_limit_test; rank 0 removes
\* the directory while others are still at work; and its mark goes outside inodes_removed.
Happened == {"failed", "not set", "miscounted", "unseen"}
NoFalseAlarm ==
    aborted => \/ fault \in Happened
               \/ \E r \in Ranks : (At(r, "create") \/ At(r, "make")) /\ Call(r).ids \cap late # {}
               \/ size > 2 /\ At(0, "compare")
               \/ leftover /\ At(0, "count")
               \/ ~ workplace /\ \E r \in Ranks : At(r, "create")
               \/ StrayMark(0)

\* A file the file system does not count, or a removal or a write of another node, is found by
\* the tests that look at the count.
MiscountIsFound == (\A r \in Ranks : Finished(r)) /\ ~ aborted => fault # "miscounted"

\* Although rank 0 marks a file before it knows which one was removed, negative_inodes_limit_test
\* leaves at most one file behind, and not the first.
AtMostOneLeft ==
    At(0, "barrier") /\ Call(0).line = 1331
        => made \subseteq FileNumbers \ {0} /\ Cardinality(made) <= 1

\* The ranks meet in the same barriers, and nobody waits for ever, in them or for a message.
NobodyLeftBehind == BarriersMeet /\ ~ Stuck
=============================================================================
