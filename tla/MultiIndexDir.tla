---------------------------- MODULE MultiIndexDir ----------------------------
(***************************************************************************)
(* programs/dx_dirs_tests/multi_index_dir.c: what each rank calls, and     *)
(* what the calls do to the directory and to the table.  Unlike in         *)
(* multi-inline-dirs.c the loops give up after twice their count, a failed *)
(* unlink is counted, and a failed verification is only printed.           *)
(***************************************************************************)
EXTENDS SharedDirents

CONSTANTS operated_entries,   \* -n
          test_flags,   \* the tests chosen: "GROW", "RENM", ...
          MAX_DIRENTS,  \* bound on the table
          RandNames     \* how many names get_rand_nam can make up

ConstantsOK ==
    /\ size \in Nat \ {0} /\ operated_entries \in Nat \ {0} /\ RandNames \in Nat \ {0}
    /\ test_flags \subseteq {"GROW", "RENM", "READ", "ULNK", "FLUP", "STRS"}
    /\ MAX_DIRENTS >= 1 + size * operated_entries

-----------------------------------------------------------------------------
(* What each rank calls: text is the script it follows. *)

create_and_prep_dir == Op("mkdir", 0)
create_files(n) == Op("create", n)
verify(line) == Op("verify", line)
destroy == Op("destroy", 0)

grow_test(r) ==
       Barrier(683) \o Only(r = 0, create_and_prep_dir)
    \o Barrier(691) \o Only(r # 0, Op("grow", operated_entries))
    \o Barrier(698) \o Only(r = 0, verify(701)) \o Barrier(706)

rw_test(r) ==
       Barrier(714) \o Only(r = 0, create_and_prep_dir \o create_files(operated_entries))
    \o Barrier(723) \o Only(r # 0, Op("rename", operated_entries \div 2))
    \o Barrier(730) \o Only(r = 0, verify(735))
    \o Barrier(740) \o Only(r = 0, destroy)

read_test(r) ==
       Barrier(750) \o Only(r = 0, create_and_prep_dir \o Op("randnam", operated_entries))
    \o Barrier(759) \o Only(r # 0, Op("read", operated_entries \div 2))
    \o Barrier(765) \o Only(r = 0, verify(770))
    \o Barrier(773) \o Only(r = 0, destroy)

unlink_test(r) ==
       Barrier(784) \o Only(r = 0, create_and_prep_dir \o create_files(operated_entries))
    \o Barrier(793) \o Only(r # 0, Op("unlink", operated_entries \div 2))
    \o Barrier(800) \o Only(r = 0, verify(805))
    \o Barrier(808) \o Only(r = 0, destroy)

fillup_test(r) ==
       Barrier(818)
    \o Only(r = 0, create_and_prep_dir \o create_files(operated_entries) \o Op("unlink", operated_entries))
    \o Barrier(829) \o Only(r # 0, Op("fill", operated_entries \div size))
    \o Barrier(836) \o Only(r = 0, verify(841))
    \o Barrier(844) \o Only(r = 0, destroy)

\* Without the table.
stress_test(r) ==
       Barrier(858) \o Only(r = 0, Op("mkdir only", 0))
    \o Barrier(870) \o Op("stress", operated_entries)
    \o Barrier(883)

run_tests(r) ==
       Only("GROW" \in test_flags, grow_test(r)) \o Only("RENM" \in test_flags, rw_test(r))
    \o Only("READ" \in test_flags, read_test(r)) \o Only("ULNK" \in test_flags, unlink_test(r))
    \o Only("FLUP" \in test_flags, fillup_test(r)) \o Only("STRS" \in test_flags, stress_test(r))

setup(r) == Barrier(1009) \o Barrier(949) \o Barrier(960) \o Barrier(974) \o Barrier(1024)

\* One round of main.
main(r) == setup(r) \o run_tests(r) \o Only(r = 0, Op("passed", 0)) \o Barrier(1060)
text == [r \in 0 .. size - 1 |-> main(r)]

-----------------------------------------------------------------------------

VARIABLE said    \* what rank 0 has printed

vars == <<mpi, table, local, said>>

-----------------------------------------------------------------------------
(* Rank 0 alone. *)

Init == MpiInit /\ TableInit /\ said = {}

mkdir(r) ==
    /\ \/ /\ Alone(r, "mkdir") /\ disk = {}
          /\ dirents' = [k \in 1 .. MAX_DIRENTS |-> [Entry(Dot) EXCEPT !.live = (k = 1)]]
          /\ num_dirents' = 1
          /\ disk' = {DotName}
       \/ Alone(r, "mkdir only") /\ disk = {} /\ disk' = {DotName} /\ UNCHANGED table
       \/ /\ Doing(r, "mkdir") \/ Doing(r, "mkdir only")
          /\ disk # {} /\ MPI_Abort /\ UNCHANGED <<table, local>>
    /\ UNCHANGED said

\* Entries num_dirents + 1 onward get these names.
Added(names) ==
    /\ dirents' = [k \in 1 .. MAX_DIRENTS |->
                      IF k - num_dirents \in DOMAIN names THEN Entry(names[k - num_dirents]) ELSE dirents[k]]
    /\ num_dirents' = num_dirents + Len(names)
    /\ disk' = disk \cup {<<names[k], FALSE>> : k \in DOMAIN names}

\* Numbered names, or the names of get_rand_nam, which may come twice.
create_files_alone(r) ==
    /\ \/ /\ Alone(r, "create")
          /\ Added([k \in 1 .. Call(r).n |-> k])
       \/ /\ Alone(r, "randnam")
          /\ \E names \in [1 .. Call(r).n -> 1 .. RandNames] : Added(names)
    /\ UNCHANGED said

verify_dirents(r) ==
    /\ Alone(r, "verify")
    /\ said' = IF TableIsTrue THEN said ELSE said \cup {"failure"}
    /\ UNCHANGED <<table, disk>>

\* Every error is only printed: a directory that is not empty stays.
destroy_dir(r) ==
    /\ Alone(r, "destroy")
    /\ LET left == disk \ {NameOf(dirents[i]) : i \in {k \in Slots : Usable(k)}}
       IN  disk' = IF left = {DotName} THEN {} ELSE left
    /\ dirents' = [i \in DOMAIN dirents |-> [dirents[i] EXCEPT !.live = @ /\ i \notin Slots]]
    /\ num_dirents' = 0
    /\ UNCHANGED said

main_passed(r) ==
    /\ Alone(r, "passed")
    /\ said' = said \cup {"passed"}
    /\ UNCHANGED <<table, disk>>

-----------------------------------------------------------------------------
(* The ranks at the same time. *)

Go(r, new) == at' = [at EXCEPT ![r] = new] /\ UNCHANGED <<mpi, said>>
Loop(r, op) == Phase(r, op, "loop") /\ at[r].n > 0 /\ at[r].times > 0
Tried(r) == [at[r] EXCEPT !.times = @ - 1]
Again(r) == [at[r] EXCEPT !.ph = "loop", !.n = @ - 1]
InOut(r, op) ==
    /\ Enter(r, op) \/ Leave(r, op, at[r].n = 0 \/ at[r].times = 0)
    /\ UNCHANGED said
SetLive(i, live) == dirents' = [dirents EXCEPT ![i].live = live] /\ UNCHANGED num_dirents

\* create_file: dirent = &dirents[*num_dirents]; *num_dirents += 1; then the entry, and the
\* file by the name the entry has now.  Another rank may come in between.
create_file(r) ==
    \/ InOut(r, "grow")
    \/ /\ Phase(r, "grow", "loop") /\ at[r].n > 0
       /\ Go(r, [at[r] EXCEPT !.ph = "load", !.i = num_dirents + 1]) /\ UNCHANGED <<table, disk>>
    \/ /\ Phase(r, "grow", "load")
       /\ Go(r, [at[r] EXCEPT !.ph = "store", !.j = num_dirents]) /\ UNCHANGED <<table, disk>>
    \/ /\ Phase(r, "grow", "store")
       /\ num_dirents' = at[r].j + 1 /\ UNCHANGED dirents
       /\ Go(r, [at[r] EXCEPT !.ph = "name"]) /\ UNCHANGED disk
    \/ /\ Phase(r, "grow", "name")
       /\ dirents' = [dirents EXCEPT ![at[r].i] = Entry(r * operated_entries + at[r].n)]
       /\ Go(r, [at[r] EXCEPT !.ph = "call"]) /\ UNCHANGED <<num_dirents, disk>>
    \/ /\ Phase(r, "grow", "call")
       /\ disk' = disk \cup {NameOf(dirents[at[r].i])} /\ UNCHANGED table
       /\ Go(r, Again(r))

\* readdir and stat of everything, then of random entries; nobody changes anything.
random_read(r) ==
    /\ Doing(r, "read")
    /\ IF \A i \in Slots : NameOf(dirents[i]) \in disk
         THEN Skip(r, 0) /\ UNCHANGED <<epoch, mail, aborted>>
         ELSE MPI_Abort
    /\ UNCHANGED <<table, local, said>>

random_unlink(r) ==
    \/ InOut(r, "unlink")
    \/ /\ Loop(r, "unlink")
       /\ \E i \in Slots :
             Go(r, IF Usable(i) THEN [Tried(r) EXCEPT !.ph = "call", !.i = i, !.from = NameOf(dirents[i])]
                                ELSE Tried(r))
       /\ UNCHANGED <<table, disk>>
    \/ /\ Phase(r, "unlink", "call")
       /\ disk' = disk \ {at[r].from} /\ UNCHANGED table
       /\ Go(r, [at[r] EXCEPT !.ph = "mark"])
    \/ /\ Phase(r, "unlink", "mark")
       /\ SetLive(at[r].i, FALSE)
       /\ Go(r, Again(r)) /\ UNCHANGED disk

random_fill_empty_entries(r) ==
    \/ InOut(r, "fill")
    \/ /\ Loop(r, "fill")
       /\ \E i \in Slots : Go(r, IF Free(i) THEN [Tried(r) EXCEPT !.ph = "mark", !.i = i] ELSE Tried(r))
       /\ UNCHANGED <<table, disk>>
    \/ /\ Phase(r, "fill", "mark")
       /\ SetLive(at[r].i, TRUE)
       /\ Go(r, [at[r] EXCEPT !.ph = "call", !.from = NameOf(dirents[at[r].i])]) /\ UNCHANGED disk
    \/ /\ Phase(r, "fill", "call")
       /\ disk' = disk \cup {at[r].from} /\ UNCHANGED table
       /\ Go(r, Again(r))

\* When rename fails other entries are tried, without a limit; the entry the loop ends with is
\* marked as renamed even if it is "." or unused.
random_rename_same_reclen(r) ==
    \/ InOut(r, "rename")
    \/ /\ Loop(r, "rename")
       /\ \E i \in Slots :
             Go(r, IF Usable(i) THEN [Tried(r) EXCEPT !.ph = "call", !.i = i, !.from = NameOf(dirents[i])]
                                ELSE Tried(r))
       /\ UNCHANGED <<table, disk>>
    \/ /\ Phase(r, "rename", "retry")
       /\ \E i \in Slots :
             Go(r, [at[r] EXCEPT !.ph = IF Usable(i) THEN "call" ELSE "mark",
                                 !.i = i, !.from = NameOf(dirents[i])])
       /\ UNCHANGED <<table, disk>>
    \/ /\ Phase(r, "rename", "call")
       /\ IF at[r].from \in disk
            THEN disk' = Renamed(at[r].from, <<at[r].from[1], TRUE>>) /\ Go(r, [at[r] EXCEPT !.ph = "mark"])
            ELSE UNCHANGED disk /\ Go(r, [at[r] EXCEPT !.ph = "retry"])
       /\ UNCHANGED table
    \/ /\ Phase(r, "rename", "mark")
       /\ dirents' = [dirents EXCEPT ![at[r].i].R = TRUE] /\ UNCHANGED num_dirents
       /\ Go(r, Again(r)) /\ UNCHANGED disk

\* Files with the rank in their names.
stress(r) ==
    /\ Alone(r, "stress")
    /\ disk' = disk \cup {<<MAX_DIRENTS + r, FALSE>>}
    /\ UNCHANGED <<table, said>>

Step(r) ==
    \/ mkdir(r) \/ create_files_alone(r) \/ verify_dirents(r) \/ destroy_dir(r) \/ main_passed(r)
    \/ create_file(r) \/ random_read(r) \/ random_unlink(r) \/ random_fill_empty_entries(r)
    \/ random_rename_same_reclen(r) \/ stress(r)
    \/ ~ aborted /\ MPI_Barrier(r) /\ UNCHANGED <<table, local, said>>

Next == \E r \in Ranks : Step(r)
Spec == Init /\ [][Next]_vars

Over == JobOver

-----------------------------------------------------------------------------
TypeOK ==
    /\ num_dirents \in 0 .. MAX_DIRENTS
    /\ said \subseteq {"failure", "passed"}
    /\ \A r \in Ranks : at[r].times \in Nat /\ at[r].n \in Nat
    /\ \A nm \in disk : nm[1] \in Nat

Workers == size - 1
TwiceNamed == \E nm \in disk : Cardinality({i \in Slots : dirents[i].live /\ NameOf(dirents[i]) = nm}) > 1

\* When rank 0 compares them, the table is right: however many ranks unlink or refill entries
\* at the same time, with one rank that adds or renames, and unless get_rand_nam made up a
\* name twice.
TableKept ==
    At(0, "verify") =>
        \/ TableIsTrue
        \/ Call(0).n \in {701, 735} /\ Workers > 1
        \/ Call(0).n = 770 /\ TwiceNamed

\* The directory of a test is gone, so that the next test can make it, when the table was right
\* and the test removes it; a job is aborted only otherwise.
OnlyLeftoversAbort == aborted => "failure" \in said \/ "GROW" \in test_flags

\* "All File I/O Tests Passed" is printed only if no verification failed.
PassedMeansVerified == said # {"failure", "passed"}

\* The ranks meet in the same barriers, and nobody waits for ever, in them or for a message.
NobodyLeftBehind == BarriersMeet /\ ~ Stuck
=============================================================================
