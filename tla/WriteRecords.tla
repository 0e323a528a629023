---------------------------- MODULE WriteRecords ----------------------------
(***************************************************************************)
(* struct fh_write_unit (programs/fill_verify_holes/fill_holes.h), a       *)
(* record [ch, off, len], and what writing it does to the bytes of a file. *)
(***************************************************************************)
EXTENDS Integers, Sequences

CONSTANTS Chars,            \* the characters that are written
          MAX_WRITE_SIZE

NUL == "nul"
MAGIC_HOLE_CHAR == "@"

\* The characters come from 'A' to 'z', and '@' stands before them.
HeaderOK ==
    /\ MAX_WRITE_SIZE \in Nat /\ MAX_WRITE_SIZE > 1
    /\ MAGIC_HOLE_CHAR \notin Chars /\ NUL \notin Chars

End(wu) == wu.off + wu.len
Covers(wu, b) == wu.off <= b /\ b < End(wu)

\* The character byte b has after the write.
Written(map, wu, b) == IF Covers(wu, b) THEN wu.ch ELSE map[b]

ApplyWrite(map, wu) == [b \in DOMAIN map |-> Written(map, wu, b)]

\* The last of some places in a log.
Latest(places) == CHOOSE k \in places : \A m \in places : m <= k

\* The character of the last of the first n records that covers byte b.
LastChar(log, n, b) ==
    LET covering == {k \in 1 .. n : Covers(log[k], b)}
    IN  IF covering = {} THEN NUL ELSE log[Latest(covering)].ch

\* The bytes a log of writes makes of a file of zeros.
LastWriterWins(Bytes, log) == [b \in Bytes |-> LastChar(log, Len(log), b)]

\* A log as verify_holes takes it: a record of a hole is one of zeros.
HoleChar(ch) == IF ch = MAGIC_HOLE_CHAR THEN NUL ELSE ch
AsRead(l) == [n \in DOMAIN l |-> [l[n] EXCEPT !.ch = HoleChar(@)]]
=============================================================================
