--------------------------- MODULE MultiInlineDirs ---------------------------
(***************************************************************************)
(* programs/inline-data/multi-inline-dirs.c: what each rank calls, and     *)
(* what the calls do to the directory and to the table.  Rank 0 fills a    *)
(* directory to the last entry that fits into its inode, the other ranks   *)
(* rename, unlink and create entries, rank 0 compares the directory with   *)
(* the table.                                                              *)
(***************************************************************************)
EXTENDS SharedDirents

CONSTANTS operated_entries,   \* -s
          Entries             \* what get_max_inlined_entries returns

ConstantsOK == size \in Nat \ {0} /\ Entries \in Nat \ {0}

-----------------------------------------------------------------------------
(* What each rank calls: text is the script it follows. *)

\* get_max_inlined_entries lowers operated_entries as well.
operated == IF operated_entries > Entries THEN Entries - 1 ELSE operated_entries

get_directory_almost_full(minus) == Op("create", Entries - minus)
create_and_prep_dir == Op("mkdir", 0)
is_dir_inlined(should) == <<[op |-> "inlined", should |-> should]>>

fill_directory(r) ==
       Barrier(700)
    \o Only(r = 0, create_and_prep_dir \o get_directory_almost_full(0)) \o Barrier(718)
    \o Only(r = 0, Op("verify", 723) \o is_dir_inlined(TRUE))          \o Barrier(730)

expand_to_extent(r) ==
       Only(r = 0, Op("create", 1))          \o Barrier(746)
    \o Only(r # 0, is_dir_inlined(FALSE))    \o Barrier(755)
    \o Only(r = 0, Op("destroy", 0))         \o Barrier(764)

\* Nothing keeps rank 0 from removing the directory before the others have looked at it.
rename_same_namelen(r) ==
       Only(r = 0, create_and_prep_dir \o get_directory_almost_full(1)) \o Barrier(779)
    \o Only(r # 0, Op("rename", operated))   \o Barrier(789)
    \o Only(r = 0, Op("verify", 794)) \o is_dir_inlined(TRUE)
    \o Only(r = 0, Op("destroy", 0))         \o Barrier(809)

\* The other three tests differ in what the ranks do and how full the directory is.
concurrent_test(r, minus, work, lines) ==
       Only(r = 0, create_and_prep_dir \o get_directory_almost_full(minus)) \o Barrier(lines[1])
    \o Only(r # 0, work)                     \o Barrier(lines[2])
    \o Only(r = 0, Op("verify", lines[3])) \o is_dir_inlined(TRUE) \o Barrier(lines[4])
    \o Only(r = 0, Op("destroy", 0))         \o Barrier(lines[5])

rename_on_top(r) ==
    concurrent_test(r, 1, Op("delren", operated), <<824, 836, 841, 846, 857>>)
unlink_and_fill(r) ==
    concurrent_test(r, 0, Op("unlink", operated) \o Op("fill", operated), <<871, 885, 890, 895, 909>>)
rename_and_unlink(r) ==
    concurrent_test(r, 1, Op("unlink", operated \div 2) \o Op("rename", operated \div 2),
                    <<924, 937, 942, 947, 960>>)

run_basic_tests(r) ==
    fill_directory(r) \o expand_to_extent(r) \o rename_same_namelen(r)
        \o rename_on_top(r) \o unlink_and_fill(r) \o rename_and_unlink(r)

setup(r) == Barrier(1299) \o Barrier(1207) \o Barrier(1220) \o Barrier(1236) \o Barrier(1316)

text == [r \in 0 .. size - 1 |-> setup(r) \o run_basic_tests(r) \o Barrier(1443)]

-----------------------------------------------------------------------------

vars == <<mpi, table, local>>

-----------------------------------------------------------------------------
(* Rank 0 alone. *)

Init == MpiInit /\ TableInit

mkdir(r) ==
    \/ /\ Alone(r, "mkdir") /\ disk = {}
       /\ dirents' = <<Entry(Dot)>> /\ num_dirents' = 1
       /\ disk' = {DotName}
    \/ Doing(r, "mkdir") /\ disk # {} /\ MPI_Abort /\ UNCHANGED <<table, local>>

create_files(r) ==
    /\ Alone(r, "create")
    /\ LET n == Call(r).n
           new == [k \in 1 .. n |-> Entry(num_dirents - 1 + k)]
       IN /\ dirents' = dirents \o new /\ num_dirents' = num_dirents + n
          /\ disk' = disk \cup {NameOf(new[k]) : k \in 1 .. n}

verify_dirents(r) ==
    /\ Doing(r, "verify")
    /\ IF TableIsTrue THEN Skip(r, 0) /\ UNCHANGED <<epoch, mail, aborted>> ELSE MPI_Abort
    /\ UNCHANGED <<table, local>>

\* unlink of every live entry, then rmdir.
destroy_dir(r) ==
    LET live == {i \in Slots : Usable(i)}
        gone == {NameOf(dirents[i]) : i \in live}
    IN /\ Doing(r, "destroy")
       /\ IF gone \subseteq disk /\ Cardinality(gone) = Cardinality(live) /\ disk \ gone = {DotName}
            THEN /\ Alone(r, "destroy")
                 /\ disk' = {}
                 /\ dirents' = [i \in DOMAIN dirents |-> [dirents[i] EXCEPT !.live = FALSE]]
                 /\ UNCHANGED num_dirents
            ELSE MPI_Abort /\ UNCHANGED <<table, local>>

\* ocfs2_lookup reports an error by a positive number, which is_dir_inlined does not take
\* for one: it goes on to look at a buffer nobody has filled.
should_inlined_or_not(r) ==
    /\ Doing(r, "inlined")
    /\ \E inlined \in (IF disk = {} THEN BOOLEAN ELSE {Cardinality(disk) - 1 <= Entries}) :
          IF inlined = Call(r).should
            THEN Skip(r, 0) /\ UNCHANGED <<epoch, mail, aborted>>
            ELSE MPI_Abort
    /\ UNCHANGED <<table, local>>

-----------------------------------------------------------------------------
(* The ranks at the same time. *)

Go(r, new) == at' = [at EXCEPT ![r] = new] /\ UNCHANGED <<mpi>>
Again(r) == [at[r] EXCEPT !.ph = "loop", !.n = @ - 1]
\* A mutant: an unlinked entry keeps its length.
SetLiveOnly(i, live) == dirents' = [dirents EXCEPT ![i].live = @ \/ live] /\ UNCHANGED num_dirents
SetLive(i, live) == dirents' = [dirents EXCEPT ![i].live = live] /\ UNCHANGED num_dirents

random_unlink(r) ==
    \/ Enter(r, "unlink")
    \/ Leave(r, "unlink", at[r].n = 0)
    \/ /\ Phase(r, "unlink", "loop") /\ at[r].n > 0
       /\ \E i \in Slots : Usable(i) /\ Go(r, [at[r] EXCEPT !.ph = "call", !.i = i, !.from = NameOf(dirents[i])])
       /\ UNCHANGED <<table, disk>>
    \/ /\ Phase(r, "unlink", "call")
       /\ disk' = disk \ {at[r].from}
       /\ Go(r, [at[r] EXCEPT !.ph = IF at[r].from \in disk THEN "mark" ELSE "loop"])
       /\ UNCHANGED table
    \/ /\ Phase(r, "unlink", "mark")
       /\ SetLive(at[r].i, FALSE)
       /\ Go(r, Again(r)) /\ UNCHANGED disk

random_fill_empty_entries(r) ==
    \/ Enter(r, "fill")
    \/ Leave(r, "fill", at[r].n = 0)
    \/ /\ Phase(r, "fill", "loop") /\ at[r].n > 0
       /\ \E i \in Slots : Free(i) /\ Go(r, [at[r] EXCEPT !.ph = "mark", !.i = i])
       /\ UNCHANGED <<table, disk>>
    \/ /\ Phase(r, "fill", "mark")
       /\ SetLive(at[r].i, TRUE)
       /\ Go(r, [at[r] EXCEPT !.ph = "call", !.from = NameOf(dirents[at[r].i])]) /\ UNCHANGED disk
    \/ /\ Phase(r, "fill", "call")
       /\ disk' = disk \cup {at[r].from}
       /\ Go(r, Again(r)) /\ UNCHANGED table

\* When rename fails another entry is chosen.  If that one is no use, the loop is left and
\* the entry is marked as renamed all the same.
random_rename_same_reclen(r) ==
    \/ Enter(r, "rename")
    \/ Leave(r, "rename", at[r].n = 0)
    \/ /\ \/ Phase(r, "rename", "loop") /\ at[r].n > 0
          \/ Phase(r, "rename", "retry")
       /\ \E i \in Slots :
             LET mine == [at[r] EXCEPT !.i = i, !.from = NameOf(dirents[i])] IN
             \/ Usable(i) /\ Go(r, [mine EXCEPT !.ph = "call"])
             \/ ~ Usable(i) /\ at[r].ph = "retry" /\ Go(r, [mine EXCEPT !.ph = "mark"])
       /\ UNCHANGED <<table, disk>>
    \/ /\ Phase(r, "rename", "call")
       /\ IF at[r].from \in disk
            THEN disk' = Renamed(at[r].from, <<at[r].from[1], TRUE>>) /\ Go(r, [at[r] EXCEPT !.ph = "mark"])
            ELSE UNCHANGED disk /\ Go(r, [at[r] EXCEPT !.ph = "retry"])
       /\ UNCHANGED table
    \/ /\ Phase(r, "rename", "mark")
       /\ dirents' = [dirents EXCEPT ![at[r].i].R = TRUE] /\ UNCHANGED num_dirents
       /\ Go(r, Again(r)) /\ UNCHANGED disk

\* The same for two entries; here "continue" counts as a round.
random_deleting_rename(r) ==
    \/ Enter(r, "delren")
    \/ Leave(r, "delren", at[r].n = 0)
    \/ /\ \/ Phase(r, "delren", "loop") /\ at[r].n > 0
          \/ Phase(r, "delren", "retry")
       /\ \E i, j \in Slots :
             LET mine == [at[r] EXCEPT !.i = i, !.from = NameOf(dirents[i]), !.to = NameOf(dirents[j])]
                 use == i # j /\ Usable(i) /\ Usable(j) IN
             \/ use /\ Go(r, [mine EXCEPT !.ph = "call"])
             \/ ~ use /\ at[r].ph = "retry" /\ Go(r, [mine EXCEPT !.ph = "mark"])
             \/ ~ use /\ at[r].ph = "loop" /\ Go(r, Again(r))
       /\ UNCHANGED <<table, disk>>
    \/ /\ Phase(r, "delren", "call")
       /\ IF at[r].from \in disk
            THEN disk' = Renamed(at[r].from, at[r].to) /\ Go(r, [at[r] EXCEPT !.ph = "mark"])
            ELSE UNCHANGED disk /\ Go(r, [at[r] EXCEPT !.ph = "retry"])
       /\ UNCHANGED table
    \/ /\ Phase(r, "delren", "mark")
       /\ SetLive(at[r].i, FALSE)
       /\ Go(r, Again(r)) /\ UNCHANGED disk

Step(r) ==
    \/ mkdir(r) \/ create_files(r) \/ verify_dirents(r) \/ destroy_dir(r) \/ should_inlined_or_not(r)
    \/ random_unlink(r) \/ random_fill_empty_entries(r)
    \/ random_rename_same_reclen(r) \/ random_deleting_rename(r)
    \/ ~ aborted /\ MPI_Barrier(r) /\ UNCHANGED <<table, local>>

Next == \E r \in Ranks : Step(r)
Spec == Init /\ [][Next]_vars

-----------------------------------------------------------------------------
TypeOK ==
    /\ num_dirents \in 0 .. Entries + 2 /\ Len(dirents) = num_dirents
    /\ \A i \in Slots : dirents[i].name \in 0 .. Entries + 1
    /\ disk \subseteq (0 .. Entries + 1) \X BOOLEAN

\* The table is right when rank 0 compares it with the directory: always with one rank at work
\* on it, with two of them after they have unlinked and filled entries (line 890).
TableKept ==
    At(0, "verify") => \/ TableIsTrue
                               \/ size > (IF Call(0).n = 890 THEN 3 ELSE 2)

\* With one rank at work, the job is aborted only by a rank that looks at a directory rank 0
\* has removed.
OnlyLateLookAborts == size = 2 /\ aborted => disk = {} /\ At(1, "inlined")

\* "Verify failure" is printed only when the file system has failed.
VerifyFailureIsReal == ~ (aborted /\ At(0, "verify"))

\* The ranks meet in the same barriers, and nobody waits for ever.
NobodyLeftBehind == BarriersMeet /\ ~ Stuck

\* random_unlink and random_rename_same_reclen look for an entry they can use until they find
\* one.  There is always one while all ranks together unlink fewer entries than there are: a
\* rank that found none would be a deadlock here.
Over == JobOver
=============================================================================
