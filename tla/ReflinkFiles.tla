---------------------------- MODULE ReflinkFiles ----------------------------
(***************************************************************************)
(* What the calls of the reflink tests do.  A file is the sequence of its  *)
(* blocks: 0 is a block of orig_pattern, 1 is anything else.  -r           *)
(* (RAND_TEST) only changes sizes and offsets below a block.  One fault    *)
(* may happen: the file system lets a write or a truncation of a reflink   *)
(* reach the original it shares extents with, or a system call fails.      *)
(***************************************************************************)
EXTENDS MultiReflinkScript, Functions

CONSTANT Faults         \* the faults considered: "none", "leak", "shrink", "call"

ConstantsOK == size \in Nat \ {0} /\ ref_counts \in Nat /\ Blocks \in Nat \ {0}

VARIABLES files,   \* the files there are: name -> [data, ea, src]
          mem,     \* mem[r]: what rank r remembers of its last read or update
          fault    \* the fault that may still happen, or what came of it

vars == <<mpi, files, mem, fault>>

-----------------------------------------------------------------------------
(* What the calls do to the files.  The file system is external. *)

Empty == [data |-> <<>>, ea |-> Absent, src |-> Orig]
There(f) == f \in DOMAIN files
Sized(data, n) == [b \in 1 .. n |-> IF b <= Len(data) THEN data[b] ELSE 1]

\* A mutant: the last block is not compared.
PatternShort(data) == \A b \in DOMAIN data : b < Blocks => data[b] = 0
Pattern(data) == \A b \in DOMAIN data : b <= Blocks => data[b] = 0

\* The files there can be after call c of rank r; open_rw_flags has O_CREAT.
After(c) ==
    LET old == IF There(c.f) THEN files[c.f] ELSE Empty
        Put(new) == (c.f :> new) @@ files
        Data(d) == Put([old EXCEPT !.data = d])
        Longer(n) == Sized(old.data, Max({n, Len(old.data)}))
    IN CASE c.op = "prep" -> {Data([b \in DOMAIN Longer(Blocks) |->
                                       IF b <= Blocks THEN 0 ELSE old.data[b]])}
         [] c.op = "reflink" -> {Put([files[c.from] EXCEPT !.src = c.from])}
         [] c.op = "unlink" -> {Restrict(files, DOMAIN files \ {c.f})}
         [] c.op = "write" -> {Data([Longer(c.b) EXCEPT ![c.b] = 1])}
         [] c.op = "append" -> {Data(Append(old.data, 1))}
         [] c.op = "truncate" -> {Data(Sized(old.data, n)) : n \in c.lens}
         [] c.op = "setea" -> {Put([old EXCEPT !.ea = v]) : v \in c.values}
         [] OTHER -> {files}

\* Whether call c of rank r, when no system call in it fails, returns 0.
Succeeds(r, c) ==
    CASE c.op = "reflink" -> There(c.from) /\ ~ There(c.f)
      [] c.op \in {"prep", "write", "append", "setea"} -> TRUE
      [] c.op = "verify" -> There(c.f) /\ Pattern(files[c.f].data)
      [] c.op = "checkea" -> mem[r] = <<Built>> => There(c.f) /\ files[c.f].ea = Built
      [] c.op = "listea" -> There(c.f) /\ files[c.f].ea # Absent
      [] c.op = "compare" -> There(c.f) /\ mem[r] = files[c.f].data
      [] OTHER -> There(c.f)

\* read_at goes round until it has all the bytes it wants.
Spins(r) ==
    /\ At(r, "read")
    /\ LET c == Call(r) IN There(c.f) /\ Len(files[c.f].data) < c.b

-----------------------------------------------------------------------------
Init ==
    /\ MpiInit
    /\ files = <<>>
    /\ mem = [r \in Ranks |-> <<>>]
    /\ fault \in Faults

\* What rank r remembers of call c, which leaves files' behind.
Remember(r, c) ==
    mem' = [mem EXCEPT ![r] = CASE c.op = "setea" -> <<files'[c.f].ea>>
                                [] c.op = "remember" -> files[c.f].data
                                [] c.op \in {"checkea", "compare"} -> <<>>
                                [] OTHER -> @]

IsCall(r) == ~ Finished(r) /\ "f" \in DOMAIN Call(r)

\* The call returns 0, or should_exit calls MPI_Abort.
Return(r) ==
    /\ IsCall(r) /\ ~ Spins(r)
    /\ LET c == Call(r) IN
       IF Succeeds(r, c)
         THEN Skip(r, 0) /\ files' \in After(c) /\ Remember(r, c) /\ UNCHANGED <<epoch, mail, aborted>>
         ELSE MPI_Abort /\ UNCHANGED <<files, mem>>
    /\ UNCHANGED fault

\* A system call in it fails; should_exit is told, or is not.
Fail(r) ==
    /\ fault = "call" /\ IsCall(r)
    /\ fault' = "failed"
    /\ \E n \in Call(r).fail :
          IF n < 0 THEN MPI_Abort ELSE Skip(r, n) /\ UNCHANGED <<epoch, mail, aborted>>
    /\ LET c == Call(r) IN
       files' = IF c.op = "prep" /\ ~ There(c.f) THEN (c.f :> Empty) @@ files ELSE files
    /\ UNCHANGED mem

\* The file system lets a write, or a truncation, of a reflink through to the file it was
\* made from.
Corrupt(r) ==
    /\ \/ fault = "leak" /\ At(r, "write")
       \/ fault = "shrink" /\ At(r, "truncate")
    /\ LET c == Call(r) IN
       /\ There(c.f) /\ There(files[c.f].src) /\ files[c.f].src # c.f
       /\ \E after \in After(c) :
             LET src == files[c.f].src
                 old == files[src].data
                 new == IF fault = "leak" THEN [b \in DOMAIN old |-> IF b = c.b THEN 1 ELSE old[b]]
                        ELSE Sized(old, Min({Len(old), Len(after[c.f].data)}))
             IN /\ new # old
                /\ files' = [after EXCEPT ![src].data = new]
                /\ fault' = IF src # Orig THEN "other" ELSE IF fault = "leak" THEN "leaked" ELSE "shrunk"
    /\ Skip(r, 0)
    /\ UNCHANGED <<epoch, mail, aborted, mem>>

\* rand() decides, or while (1) goes round.
Jump(r) ==
    /\ \/ At(r, "coin") /\ \E n \in {0, Call(r).n} : Skip(r, n)
       \/ At(r, "loop") /\ Skip(r, - Call(r).n - 1)
    /\ UNCHANGED <<epoch, mail, aborted, files, mem, fault>>

Communicate(r) ==
    /\ \/ MPI_Barrier(r)
       \/ MPI_Isend(r, "name")
       \/ MPI_Irecv(r)
       \/ \E q \in Ranks : Meet(r, q)
    /\ UNCHANGED <<files, mem, fault>>

Step(r) == ~ aborted /\ (Return(r) \/ Fail(r) \/ Corrupt(r) \/ Jump(r) \/ Communicate(r))

Next == \E r \in Ranks : Step(r)

Spec == Init /\ [][Next]_vars

-----------------------------------------------------------------------------
TypeOK ==
    /\ fault \in Faults \cup {"failed", "leaked", "shrunk", "other"}
    /\ \A f \in DOMAIN files : files[f].data \in Seq({0, 1}) /\ files[f].ea \in {Absent, Plain, Built}

\* With a file system that works the job is aborted by nothing but xattr_value_validator,
\* which do_xattr_data_cows calls while another rank may be updating the attribute.
NoFalseAlarm ==
    aborted => \/ fault \in {"failed", "leaked", "shrunk", "other"}
               \/ \E r \in Ranks : r % 6 = 3 /\ At(r, "checkea")

\* The tests that look at the original after the last write to a reflink do not end well
\* when that write reached the original.
LeakIsFound ==
    fault = "leaked" /\ test_flags \subseteq {"BASC", "RAND", "MMAP", "COMP"}
        => aborted \/ ~ Finished(0)

\* The job is over, or a rank reads for ever from a reflink that others have truncated.
Over == JobOver \/ \E r \in Ranks : Spins(r)

\* Nobody is left waiting in a barrier the others have passed or never reach, or for a message
\* nobody sends.  Only comp_test, whose ranks truncate what others read, has a rank that reads
\* for ever, unless the file system shortens the original.
NobodyLeftBehind ==
    /\ BarriersMeet /\ ~ Stuck
    /\ \A r \in Ranks : Spins(r) => fault = "shrunk" \/ "COMP" \in test_flags
=============================================================================
