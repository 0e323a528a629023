---------------------------- MODULE VerifyHoles -----------------------------
(***************************************************************************)
(* programs/fill_verify_holes/verify_holes.c: the log of fill_holes or     *)
(* punch_holes is turned into a red-black tree of disjoint extents, which  *)
(* is then compared with the file.                                         *)
(*                                                                         *)
(* The tree is the set of its extents; vh_insert_chunk's search meets, of  *)
(* the extents that overlap the new one, any: the choice in Insert.  The   *)
(* nested vh_insert_chunk of a trimmed extent is part of the step: it goes *)
(* to a region the step has cleared (Disjoint).                            *)
(***************************************************************************)
EXTENDS WriteRecords

CONSTANT LenMod      \* unsigned int holds values below this, 2^32 in the code

ASSUME LenModAssumption == LenMod \in Nat \ {0}

BadLine == [ch |-> "bad", off |-> 0, len |-> 0]    \* a line fscanf cannot read
None == [ch |-> "none", off |-> 0, len |-> 0]

VARIABLES file_size, \* what vh_get_i_size returns
          file,      \* file[b]: the bytes of the file
          log,       \* the log
          line,      \* records of the log read so far
          tree,      \* chunk_root: a set of extents
          chunk,     \* the extent being inserted, or None
          pc,        \* "init", "read", "insert", "check", "done", or "failed"
          ret        \* what main returns

vars == <<file_size, file, log, line, tree, chunk, pc, ret>>

Bytes == 0 .. file_size - 1
FileChars == Chars \cup {NUL}

\* The records of writes and holes inside the file.
Records ==
    {wu \in [ch : Chars \cup {MAGIC_HOLE_CHAR}, off : Bytes, len : 1 .. file_size] :
        End(wu) <= file_size}

Init ==
    /\ file_size \in Nat
    /\ file \in [Bytes -> FileChars]
    /\ log \in Seq(Records \cup {BadLine})
    /\ line = 0
    /\ tree = {}
    /\ chunk = None
    /\ pc = "init"
    /\ ret = 0

\* The initial extent: w_len is 32 bits wide.
vh_init_tree ==
    /\ pc = "init"
    /\ chunk' = [ch |-> NUL, off |-> 0, len |-> file_size % LenMod]
    /\ pc' = "insert"
    /\ UNCHANGED <<file_size, file, log, line, tree, ret>>

vh_read_log ==
    /\ pc = "read"
    /\ \/ /\ line < Len(log) /\ log[line + 1] # BadLine
          /\ LET wu == log[line + 1]
             IN  chunk' = [wu EXCEPT !.ch = HoleChar(@)]
          /\ line' = line + 1
          /\ pc' = "insert"
          /\ UNCHANGED ret
       \/ /\ line < Len(log) /\ log[line + 1] = BadLine
          /\ pc' = "done" /\ ret' = 1
          /\ UNCHANGED <<chunk, line>>
       \/ /\ line = Len(log)
          /\ pc' = "check"
          /\ UNCHANGED <<chunk, line, ret>>
    /\ UNCHANGED <<file_size, file, log, tree>>

(***************************************************************************)
(* vh_insert_chunk: the four ways an extent of the tree can be in the way. *)
(***************************************************************************)
Encompasses(c, e) == c.off <= e.off /\ End(c) >= End(e)
Splits(c, e) == c.off > e.off /\ End(c) < End(e)
StraddlesLeft(c, e) ==
    ~ Encompasses(c, e) /\ c.off <= e.off /\ End(c) <= End(e) /\ End(c) > e.off

\* An overlap of one byte is not noticed.
StraddlesRightShort(c, e) == c.off > e.off /\ c.off < End(e) - 1 /\ End(c) >= End(e)

StraddlesRight(c, e) == c.off > e.off /\ c.off < End(e) /\ End(c) >= End(e)

InTheWay(c, e) ==
    Encompasses(c, e) \/ Splits(c, e) \/ StraddlesLeft(c, e) \/ StraddlesRight(c, e)

LeftPart(c, e) == [e EXCEPT !.len = c.off - e.off]
RightPart(c, e) == [ch |-> e.ch, off |-> End(c), len |-> End(e) - End(c)]

\* A split that puts the left part back only.
RemainsHalf(c, e) ==
    CASE Encompasses(c, e)    -> {}
      [] Splits(c, e)         -> {LeftPart(c, e)}
      [] StraddlesLeft(c, e)  -> {RightPart(c, e)}
      [] StraddlesRight(c, e) -> {LeftPart(c, e)}

\* The rb_erase of an encompassed extent is forgotten.
RemainsNoErase(c, e) ==
    CASE Encompasses(c, e)    -> {e}
      [] Splits(c, e)         -> {LeftPart(c, e), RightPart(c, e)}
      [] StraddlesLeft(c, e)  -> {RightPart(c, e)}
      [] StraddlesRight(c, e) -> {LeftPart(c, e)}

\* What is put back of e.
Remains(c, e) ==
    CASE Encompasses(c, e)    -> {}
      [] Splits(c, e)         -> {LeftPart(c, e), RightPart(c, e)}
      [] StraddlesLeft(c, e)  -> {RightPart(c, e)}
      [] StraddlesRight(c, e) -> {LeftPart(c, e)}

\* One round of the search: clear one extent out of the way.
Insert ==
    /\ pc = "insert"
    /\ \E e \in tree :
           /\ InTheWay(chunk, e)
           /\ tree' = (tree \ {e}) \cup Remains(chunk, e)
    /\ UNCHANGED <<file_size, file, log, line, chunk, pc, ret>>

\* The search reaches a leaf: rb_link_node.
Link ==
    /\ pc = "insert"
    /\ \A e \in tree : ~ InTheWay(chunk, e)
    /\ tree' = tree \cup {chunk}
    /\ chunk' = None
    /\ pc' = "read"
    /\ UNCHANGED <<file_size, file, log, line, ret>>

\* The last byte is left out.
CheckChunkShort(e) ==
    \A b \in e.off .. End(e) - 2 : b < file_size /\ file[b] = e.ch

\* vh_check_chunk: every byte of the extent is in the file and as expected.
vh_check_chunk(e) ==
    \A b \in e.off .. End(e) - 1 : b < file_size /\ file[b] = e.ch

vh_check_file ==
    /\ pc = "check"
    /\ ret' = IF \A e \in tree : vh_check_chunk(e) THEN 0 ELSE 1
    /\ pc' = "done"
    /\ UNCHANGED <<file_size, file, log, line, tree, chunk>>

\* open or fstat fails, calloc for a record or for the half of a split extent, or pread:
\* the program returns 1 and has compared nothing, or not all.
CallFails ==
    /\ \/ pc \in {"init", "read"}
       \/ pc = "insert" /\ \E e \in tree : Splits(chunk, e)
       \/ pc = "check" /\ \E e \in tree : e.len > 0
    /\ pc' = "failed" /\ ret' = 1
    /\ UNCHANGED <<file_size, file, log, line, tree, chunk>>

Step == vh_init_tree \/ vh_read_log \/ Insert \/ Link \/ vh_check_file \/ CallFails

Over == pc \in {"done", "failed"}

Done == Over /\ UNCHANGED vars

Next == Step \/ Done

Spec == Init /\ [][Next]_vars
FairSpec == Spec /\ WF_vars(Step)

-----------------------------------------------------------------------------
Extents == [ch : Chars \cup {NUL}, off : Nat, len : Nat]

\* Every variable has its type; an extent of the tree never carries the '@' of
\* the log, which vh_read_log has turned into NUL.
TypeOK ==
    /\ file_size \in Nat
    /\ file \in [Bytes -> FileChars]
    /\ log \in Seq(Records \cup {BadLine})
    /\ line \in 0 .. Len(log)
    /\ tree \subseteq Extents
    /\ chunk \in Extents \cup {None}
    /\ pc \in {"init", "read", "insert", "check", "done", "failed"}
    /\ pc = "insert" => chunk # None
    /\ pc \in {"init", "read", "check", "done"} => chunk = None
    /\ ret \in 0 .. 1

Overlap(e, f) == e.off < End(f) /\ f.off < End(e)

\* Two extents of the tree never share a byte.  The nested insert of a trimmed
\* extent therefore never finds another extent in its way, which is the comment
\* at verify_holes.c:140: "the second insert (if called) should _always_ be to a
\* region which has been pre-cleared".
Disjoint == \A e, f \in tree : e # f => ~ Overlap(e, f)

\* What the tree and the extent being inserted say of byte b.
CharOf(b) ==
    IF chunk # None /\ Covers(chunk, b) THEN chunk.ch
    ELSE IF \E e \in tree : Covers(e, b)
         THEN (CHOOSE e \in tree : Covers(e, b)).ch
         ELSE NUL

Map == INSTANCE WriteMap WITH
           Chars <- Chars \cup {NUL, BadLine.ch},
           size <- file_size,
           log <- AsRead(log),
           map <- [b \in Bytes |-> CharOf(b)]

\* The tree, while it is cut up and rearranged record by record, is at every
\* step the byte map in which later records overwrite earlier ones
\* (verify_holes.c:420): clearing extents out of the way never changes what the
\* tree says of a byte outside the new record.
LastRecordWins == Map!Spec

\* verify_holes succeeds exactly when no call of it failed, the log can be read and
\* every byte of the file, holes included, is what the log says: no false alarm and
\* nothing missed, in files whose size fits into the 32 bits of w_len.
VerdictIsExact ==
    Over /\ file_size < LenMod =>
        ((ret = 0) <=> /\ pc = "done"
                       /\ \A n \in 1 .. Len(log) : log[n] # BadLine
                       /\ file = LastWriterWins(Bytes, AsRead(log)))

\* The restarts of the search come to an end for every record.
Termination == <>Over

\* The comment at verify_holes.c:430: "Iterate over the file, looking for zeros
\* where holes should be, and the right characters where holes were filled."
HolesAreChecked ==
    (pc = "done" /\ ret = 0) => file = LastWriterWins(Bytes, AsRead(log))
=============================================================================
