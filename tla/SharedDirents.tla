---------------------------- MODULE SharedDirents ----------------------------
(***************************************************************************)
(* What programs/inline-data/multi-inline-dirs.c and                       *)
(* programs/dx_dirs_tests/multi_index_dir.c have in common: a directory    *)
(* that several ranks change at the same time, and a table of the entries  *)
(* it should have, in a file that all ranks map.  No lock protects the     *)
(* table.  A rank reads an entry of it, makes a system call, and writes    *)
(* the entry; other ranks may run in between.                              *)
(*                                                                         *)
(* The entry of "." and ".." is entry 1.  Any other file is known by the   *)
(* number of its name and by whether the first letter was changed to 'R'.  *)
(***************************************************************************)
EXTENDS MpiScript, Functions

VARIABLES dirents,       \* dirents[i] = [name, R, live]: live is name_len # 0
          num_dirents,
          disk,          \* the names in the directory; {} when it does not exist
          at             \* at[r]: where rank r is inside a call, and its local variables

table == <<dirents, num_dirents>>
local == <<disk, at>>

Dot == 0
Entry(name) == [name |-> name, R |-> FALSE, live |-> TRUE]
NameOf(e) == <<e.name, e.R>>
DotName == <<Dot, FALSE>>

Idle == [ph |-> "idle", i |-> 0, j |-> 0, from |-> DotName, to |-> DotName, n |-> 0, times |-> 0]

TableInit ==
    /\ dirents = <<>> /\ num_dirents = 0
    /\ disk = {}
    /\ at = [r \in Ranks |-> Idle]

\* The entries below num_dirents.
Slots == 1 .. num_dirents
is_dot_entry(i) == dirents[i].live /\ NameOf(dirents[i]) = DotName
Free(i) == ~ dirents[i].live
Usable(i) == dirents[i].live /\ ~ is_dot_entry(i)

-----------------------------------------------------------------------------
(* The calls of a script: [op |-> the function, n |-> how often it goes round]. *)

Doing(r, op) == ~ aborted /\ At(r, op)

\* The rank enters the function.
Enter(r, op) ==
    /\ Doing(r, op) /\ at[r].ph = "idle"
    /\ at' = [at EXCEPT ![r] = [Idle EXCEPT !.ph = "loop", !.n = Call(r).n,
                                            !.times = 2 * Call(r).n]]
    /\ UNCHANGED <<mpi, table, disk>>

\* while (iters > 0) ends.
Leave(r, op, over) ==
    /\ Doing(r, op) /\ at[r].ph = "loop" /\ over
    /\ at' = [at EXCEPT ![r] = Idle]
    /\ Skip(r, 0)
    /\ UNCHANGED <<epoch, mail, aborted, table, disk>>

Phase(r, op, ph) == Doing(r, op) /\ at[r].ph = ph

\* A call that runs while no rank but r works on the directory.
Alone(r, op) ==
    /\ Doing(r, op)
    /\ Skip(r, 0)
    /\ UNCHANGED <<epoch, mail, aborted, at>>

-----------------------------------------------------------------------------
(* The directory and the table compared. *)

\* Names readdir returns that no live entry has.
Unexpected == {nm \in disk : \A i \in Slots : dirents[i].live => NameOf(dirents[i]) # nm}

\* Live entries whose name readdir does not return, or that a former entry has claimed.
Missing ==
    {i \in Slots : /\ dirents[i].live
                   /\ \/ NameOf(dirents[i]) \notin disk
                      \/ \E k \in 1 .. i - 1 : dirents[k].live /\ NameOf(dirents[k]) = NameOf(dirents[i])}

\* What the table says is what there is.
TableIsTrue == Unexpected = {} /\ Missing = {}

\* rename(2): the old name goes, the new one is there.
Renamed(from, to) == (disk \ {from}) \cup {to}
=============================================================================
