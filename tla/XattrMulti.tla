----------------------------- MODULE XattrMulti ------------------------------
(***************************************************************************)
(* programs/xattr_tests/xattr-multi-test.c and xattr-test-utils.c: what    *)
(* each rank calls, and what the calls do.  All ranks add, update, read,   *)
(* list and remove extended attributes of one file.  An attribute has a    *)
(* value that xattr_value_validator accepts or one it does not.  Each      *)
(* round has a file of its own.  The part under DO_UNLINK is not compiled. *)
(*                                                                         *)
(* One fault may happen: a call fails; the file system forgets an added    *)
(* attribute or stores it wrong; it loses an attribute on an update; or it *)
(* does not remove one.                                                    *)
(***************************************************************************)
EXTENDS MpiScript, Functions

CONSTANTS ft,           \* -t: "normal", "directory" or "symlink"
          iter_nums, xattr_nums,
          only_do_add_test,    \* -o
          do_list,             \* the names fit into XATTR_LIST_MAX_SZ
          keep_ea,             \* -k
          NumberKept,          \* snprintf leaves room for the number in a name of -o
          Left,         \* names left on the file by an earlier run with -o or -k
          Faults        \* the faults considered

ConstantsOK == size \in Nat \ {0} /\ ft \in {"normal", "directory", "symlink"}

-----------------------------------------------------------------------------
(* What each rank calls: text is the script it follows. *)

\* A call on the attribute of that name.
Ea(op, name) == <<[op |-> op, name |-> name]>>

\* Rank 0 makes up a name; the names of -o are cut at 49 characters.
Made(j) == <<0, j>>
OwnName(r, j) == <<r, IF NumberKept THEN j ELSE 0>>

create_and_open(r) ==
       Barrier(337) \o Only(r = 0, Op("create", 0))
    \o Barrier(385) \o Only(r # 0, Op("open", 0))
    \o Barrier(408)

add_test(r) == Each(xattr_nums, LAMBDA j : Ea("add", OwnName(r, j))) \o Barrier(436)

\* The name goes to everyone; rank 0 adds the attribute; the others update it while rank 0
\* reads it.
one_xattr(r, j) ==
       (IF r = 0 THEN Each(size - 1, LAMBDA i : Send(i + 1)) ELSE Recv(0))
    \o Barrier(487)
    \o Only(r = 0, Ea("add", Made(j)) \o Ea("read", Made(j)))
    \o Barrier(508)
    \o Ea(IF r # 0 THEN "update" ELSE "read", Made(j))
    \o Barrier(546)

list_test(r) == Op("list", xattr_nums) \o Barrier(597)

\* The ranks share out the names.
remove_test(r) ==
       Each(xattr_nums, LAMBDA j : Only(j % size = r, Ea("remove", Made(j))))
    \o Barrier(620)
    \o Only(r = 0, Op("empty", 0))

one_round_run(r) ==
       create_and_open(r)
    \o (IF only_do_add_test THEN add_test(r)
        ELSE Each(xattr_nums, LAMBDA j : one_xattr(r, j))
                \o Only(do_list, list_test(r))
                \o Only(~ keep_ea, remove_test(r))
                \o Barrier(666))

test_runner(r) == Each(iter_nums, LAMBDA i : one_round_run(r) \o Barrier(724))

text == [r \in 0 .. size - 1 |-> test_runner(r)]

-----------------------------------------------------------------------------

VARIABLES eas,     \* the attributes of the file: name -> valid
          there,   \* the file of this round exists
          fault    \* the fault that may still happen, or what came of it

local == <<eas, there, fault>>
vars == <<mpi, local>>

\* An earlier run has not removed its file: the unlink is not compiled.
Init ==
    /\ MpiInit
    /\ eas \in {<<>>, [n \in Left |-> TRUE]}
    /\ there \in BOOLEAN /\ (eas # <<>> => there)
    /\ fault \in Faults

Names == DOMAIN eas
Returns(r) == Skip(r, 0) /\ UNCHANGED <<epoch, mail, aborted>>

\* A call that succeeds if cond holds, with after for the attributes; teardown otherwise.
Judged(r, cond, after) ==
    \/ cond /\ Returns(r) /\ eas' = after /\ UNCHANGED <<there, fault>>
    \/ ~ cond /\ MPI_Abort /\ UNCHANGED local

\* open creates the file or finds it; mkdir and symlink do not accept one that is there.
create(r) ==
    /\ At(r, "create")
    /\ IF there /\ ft # "normal" THEN MPI_Abort /\ UNCHANGED local
       ELSE Returns(r) /\ there' = TRUE /\ UNCHANGED <<eas, fault>>

open(r) == At(r, "open") /\ Returns(r) /\ UNCHANGED local

\* add_or_update_ea with XATTR_CREATE.
add(r) ==
    /\ At(r, "add")
    /\ LET n == Call(r).name IN
       \/ Judged(r, n \notin Names, (n :> TRUE) @@ eas)
       \/ /\ n \notin Names /\ Returns(r) /\ UNCHANGED there
          /\ \/ fault = "forget" /\ fault' = "forgotten" /\ UNCHANGED eas
             \/ fault = "spoil" /\ fault' = "spoilt" /\ eas' = (n :> FALSE) @@ eas

\* add_or_update_ea with XATTR_REPLACE.
update(r) ==
    /\ At(r, "update")
    /\ LET n == Call(r).name IN
       \/ Judged(r, n \in Names, (n :> TRUE) @@ eas)
       \/ /\ n \in Names /\ fault = "drop" /\ fault' = "dropped"
          /\ Returns(r) /\ eas' = Restrict(eas, Names \ {n}) /\ UNCHANGED there

\* read_ea and xattr_value_validator.
read(r) ==
    /\ At(r, "read")
    /\ LET n == Call(r).name IN Judged(r, n \in Names /\ eas[n], eas)

\* list_parser takes the first xattr_nums names; a name that is missing is empty.  When there
\* are more the buffer may be too small, or a name that was not set comes first.
list(r) ==
    /\ At(r, "list")
    /\ LET n == Call(r).n
           own == {x \in Names : x[1] = 0 /\ x[2] < n}
       IN \E lucky \in (IF Names = own THEN {TRUE} ELSE BOOLEAN) :
             Judged(r, Cardinality(own) = n /\ lucky, eas)

remove_ea(r) ==
    /\ At(r, "remove")
    /\ LET n == Call(r).name IN
       \/ Judged(r, n \in Names, Restrict(eas, Names \ {n}))
       \/ /\ n \in Names /\ fault = "stay" /\ fault' = "stayed"
          /\ Returns(r) /\ UNCHANGED <<eas, there>>

\* Rank 0 verifies that no attribute is left.
empty(r) == At(r, "empty") /\ Judged(r, Names = {}, eas)

\* The file of the next round is another one.
NextRound(r) ==
    /\ MPI_Barrier(r)
    /\ IF Call(r).line = 724 /\ \A q \in Ranks : epoch[q] <= epoch[r]
       THEN eas' = <<>> /\ there' = FALSE /\ UNCHANGED fault
       ELSE UNCHANGED local

Communicate(r) ==
    /\ MPI_Isend(r, "name") \/ MPI_Irecv(r) \/ \E q \in Ranks : Meet(r, q)
    /\ UNCHANGED local

\* judge_sys_return, or a negative result of an operation: teardown aborts the job.
Fail(r) ==
    /\ fault = "call" /\ ~ Finished(r) /\ Call(r).op \notin {"barrier", "send", "recv"}
    /\ fault' = "failed" /\ MPI_Abort /\ UNCHANGED <<eas, there>>

Next ==
    \E r \in Ranks :
       /\ ~ aborted
       /\ \/ create(r) \/ open(r) \/ add(r) \/ update(r) \/ read(r) \/ list(r)
          \/ remove_ea(r) \/ empty(r) \/ NextRound(r) \/ Communicate(r) \/ Fail(r)

Over == JobOver

Spec == Init /\ [][Next]_vars

-----------------------------------------------------------------------------
TypeOK == \A n \in Names : eas[n] \in BOOLEAN /\ there

Happened == {"failed", "forgotten", "spoilt", "dropped", "stayed"}

\* A file system that works passes, unless an earlier run has left its file or attributes behind
\* or the numbers of the names of -o are cut off: rank 0 reads while the others update, but the
\* barriers keep adding before updating, and removing after it.
NoFalseAlarm ==
    aborted => \/ fault \in Happened
               \/ there /\ At(0, "create")
               \/ ~ NumberKept /\ \E r \in Ranks : At(r, "add")
               \/ Names \cap Left # {}

\* An attribute that is not added, added wrong or not removed is found, and one that an update
\* loses is found by the list or by its removal.  -o looks at nothing.
FaultIsFound ==
    (\A r \in Ranks : Finished(r)) /\ ~ aborted /\ ~ only_do_add_test
        => /\ fault \notin {"forgotten", "spoilt", "stayed"}
           /\ do_list \/ ~ keep_ea => fault # "dropped"

\* The ranks meet in the same barriers, and nobody waits for ever, in them or for a message.
NobodyLeftBehind == BarriersMeet /\ ~ Stuck
=============================================================================
