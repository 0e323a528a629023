------------------------------ MODULE WriteMap ------------------------------
(***************************************************************************)
(* What a log of writes says of a file: each byte has the character of the *)
(* last record that covers it.  This is the promise in the comment at      *)
(* verify_holes.c:420, "records later in the log file are assumed to       *)
(* overwrite those with which they overlap".                               *)
(***************************************************************************)
EXTENDS WriteRecords

VARIABLES size,      \* the size of the file
          log,       \* the log
          line,      \* how many of its records count
          map        \* map[b]: the character byte b must have

Logs == Seq([ch : Chars, off : Nat, len : Nat])

Init ==
    /\ size \in Nat /\ log \in Logs
    /\ line = 0 /\ map = [b \in 0 .. size - 1 |-> NUL]

\* The log is still being written.
WriteLog ==
    /\ line = 0
    /\ log' \in Logs
    /\ UNCHANGED <<size, line, map>>

NextRecord ==
    /\ line < Len(log)
    /\ line' = line + 1
    /\ map' = ApplyWrite(map, log[line'])
    /\ UNCHANGED <<size, log>>

Spec == Init /\ [][WriteLog \/ NextRecord]_<<size, log, line, map>>
=============================================================================
