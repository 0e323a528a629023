----------------------- MODULE HolesPipeline_proofs ------------------------
(***************************************************************************)
(* Proofs about verify_holes, fill_holes and the script that runs them one *)
(* after the other, for every size of the file, number of iterations,      *)
(* chunk size and set of characters.                                       *)
(*                                                                         *)
(* verify_holes: the extent tree stays disjoint while it is cut up, it     *)
(* implements WriteMap, the byte map in which later records win, and the   *)
(* verdict on the file is exact.                                           *)
(* fill_holes: log and file agree, drawn writes stay inside the file, and  *)
(* the chunks get their turns in order.                                    *)
(* The script: it succeeds exactly when the file system changed nothing.   *)
(***************************************************************************)
EXTENDS HolesPipeline, TLAPS

\* Zenon is the prover of a leaf that names none.
USE Zenon

-----------------------------------------------------------------------------
(* verify_holes. *)

\* The inductive invariant: types, disjoint extents, and an empty tree until
\* the initial extent is inserted.
IInv == TypeOK /\ Disjoint /\ (pc = "init" => tree = {})

\* An extent that shares a byte with the one being inserted is one of the four
\* cases vh_insert_chunk tests for.
LEMMA OverlapIsInTheWay ==
    ASSUME NEW c \in Extents, NEW e \in Extents, Overlap(c, e)
    PROVE  InTheWay(c, e)
BY SMT DEF Extents, Overlap, End, InTheWay, Encompasses, Splits, StraddlesLeft, StraddlesRight

\* What vh_insert_chunk puts back of an extent: pieces of it, apart from each
\* other, that cover what it covered outside the new extent.
LEMMA RemainsArePieces ==
    ASSUME NEW c \in Extents, NEW e \in Extents, InTheWay(c, e)
    PROVE  /\ Remains(c, e) \subseteq Extents
           /\ \A p \in Remains(c, e) : p.ch = e.ch /\ e.off <= p.off /\ End(p) <= End(e)
           /\ \A p, q \in Remains(c, e) : p # q => ~ Overlap(p, q)
           /\ \A b \in Nat : ~ Covers(c, b) /\ Covers(e, b) => \E p \in Remains(c, e) : Covers(p, b)
<1> USE DEF Extents, End
<1>1. CASE Encompasses(c, e)
  <2>1. Remains(c, e) = {}
    BY <1>1, SMT DEF Remains, Splits, StraddlesLeft, StraddlesRight, Encompasses
  <2> QED BY <1>1, <2>1, SMT DEF Encompasses, Covers
<1>2. CASE Splits(c, e)
  <2>1. Remains(c, e) = {LeftPart(c, e), RightPart(c, e)}
    BY <1>2, SMT DEF Remains, Splits, StraddlesLeft, StraddlesRight, Encompasses
  <2>2. /\ LeftPart(c, e) = [ch |-> e.ch, off |-> e.off, len |-> c.off - e.off]
        /\ RightPart(c, e) = [ch |-> e.ch, off |-> c.off + c.len, len |-> e.off + e.len - (c.off + c.len)]
    BY SMT DEF LeftPart, RightPart
  <2> QED BY <1>2, <2>1, <2>2, SMT DEF Splits, Covers, Overlap
<1>3. CASE StraddlesLeft(c, e)
  <2>1. Remains(c, e) = {RightPart(c, e)}
    BY <1>3, SMT DEF Remains, Splits, StraddlesLeft, StraddlesRight, Encompasses
  <2>2. RightPart(c, e) = [ch |-> e.ch, off |-> c.off + c.len, len |-> e.off + e.len - (c.off + c.len)]
    BY SMT DEF RightPart
  <2> QED BY <1>3, <2>1, <2>2, SMT DEF StraddlesLeft, Encompasses, Covers, Overlap
<1>4. CASE StraddlesRight(c, e)
  <2>1. Remains(c, e) = {LeftPart(c, e)}
    BY <1>4, SMT DEF Remains, Splits, StraddlesLeft, StraddlesRight, Encompasses
  <2>2. LeftPart(c, e) = [ch |-> e.ch, off |-> e.off, len |-> c.off - e.off]
    BY SMT DEF LeftPart
  <2> QED BY <1>4, <2>1, <2>2, SMT DEF StraddlesRight, Covers, Overlap
<1> QED BY <1>1, <1>2, <1>3, <1>4 DEF InTheWay

\* The program starts in the invariant.
LEMMA InitIInv == Init => IInv
<1> SUFFICES ASSUME Init PROVE IInv
  OBVIOUS
<1>1. Len(log) \in Nat
  BY SMT DEF Init
<1> QED BY <1>1, SMT DEF Init, IInv, TypeOK, Disjoint

\* A record that vh_read_log takes becomes an extent of at least one byte.
LEMMA RecordIsExtent ==
    ASSUME file_size \in Nat, NEW w \in Records
    PROVE  /\ [w EXCEPT !.ch = HoleChar(@)] \in Extents
           /\ [w EXCEPT !.ch = HoleChar(@)] # None
<1> DEFINE x == [w EXCEPT !.ch = HoleChar(@)]
<1>1. w \in [ch : Chars \cup {MAGIC_HOLE_CHAR}, off : Bytes, len : 1 .. file_size]
  BY DEF Records
<1>2. x = [ch |-> HoleChar(w.ch), off |-> w.off, len |-> w.len]
  BY <1>1, SMT
<1>3. HoleChar(w.ch) \in Chars \cup {NUL} /\ w.off \in Nat /\ w.len \in Nat /\ w.len > 0
  BY <1>1, SMT DEF HoleChar, Bytes
<1>4. x.len # 0
  BY <1>2, <1>3, SMT
<1> QED BY <1>2, <1>3, <1>4 DEF Extents, None

\* Cutting an extent up leaves the extents apart.
LEMMA InsertDisjoint ==
    ASSUME IInv, Insert
    PROVE  tree' \subseteq Extents /\ Disjoint'
<1>1. chunk \in Extents /\ tree \subseteq Extents
  BY DEF IInv, TypeOK, Insert
<1>2. PICK e \in tree : InTheWay(chunk, e) /\ tree' = (tree \ {e}) \cup Remains(chunk, e)
  BY DEF Insert
<1>3. /\ Remains(chunk, e) \subseteq Extents
      /\ \A p \in Remains(chunk, e) : e.off <= p.off /\ End(p) <= End(e)
      /\ \A p, q \in Remains(chunk, e) : p # q => ~ Overlap(p, q)
  BY <1>1, <1>2, RemainsArePieces
<1>4. \A p \in Remains(chunk, e), f \in tree \ {e} : ~ Overlap(p, f) /\ ~ Overlap(f, p)
  <2> TAKE p \in Remains(chunk, e), f \in tree \ {e}
  <2>1. ~ Overlap(e, f)
    BY DEF IInv, Disjoint
  <2>2. p \in Extents /\ e \in Extents /\ f \in Extents /\ e.off <= p.off /\ End(p) <= End(e)
    BY <1>1, <1>3
  <2> QED BY <2>1, <2>2, SMT DEF Overlap, Extents, End
<1>5. Disjoint'
  BY <1>2, <1>3, <1>4 DEF IInv, Disjoint
<1> QED BY <1>1, <1>2, <1>3, <1>5

\* Nothing is in the way of the extent that is linked.
LEMMA LinkDisjoint ==
    ASSUME IInv, Link
    PROVE  tree' \subseteq Extents /\ Disjoint'
<1>1. chunk \in Extents /\ tree \subseteq Extents
  BY DEF IInv, TypeOK, Link
<1>2. \A e \in tree : ~ Overlap(chunk, e) /\ ~ Overlap(e, chunk)
  BY <1>1, OverlapIsInTheWay DEF Link, Overlap
<1>3. tree' = tree \cup {chunk}
  BY DEF Link
<1> QED BY <1>1, <1>2, <1>3 DEF IInv, Disjoint

\* The size of the file stays as it is, and with it what a record can be.
LEMMA SizeStays ==
    ASSUME [Next]_vars
    PROVE  /\ log' = log /\ file_size' = file_size
           /\ Bytes' = Bytes /\ Records' = Records
<1>1. log' = log /\ file_size' = file_size
  BY DEF Next, Step, vh_init_tree, vh_read_log, Insert, Link, vh_check_file, CallFails, Done, vars
<1> QED BY <1>1 DEF Bytes, Records

\* Every step of verify_holes keeps the invariant.
LEMMA NextIInv == ASSUME IInv, [Next]_vars PROVE IInv'
<1>0. file_size' = file_size /\ Bytes' = Bytes /\ Records' = Records
  BY SizeStays
<1>1. CASE vh_init_tree
  <2>1. file_size % LenMod \in Nat
    BY LenModAssumption, SMT DEF IInv, TypeOK
  <2>2. chunk' \in Extents /\ chunk' # None
    BY <1>1, <2>1 DEF vh_init_tree, Extents, None, NUL
  <2> QED BY <1>0, <1>1, <2>2 DEF vh_init_tree, IInv, TypeOK, Disjoint
<1>2. CASE vh_read_log
  <2>1. CASE line < Len(log) /\ log[line + 1] # BadLine /\ pc' = "insert"
    <3>0. file_size \in Nat
      BY DEF IInv, TypeOK
    <3>1. log[line + 1] \in Records /\ line + 1 \in 0 .. Len(log)
      BY <2>1, SMT DEF IInv, TypeOK
    <3>2. chunk' \in Extents /\ chunk' # None /\ line' = line + 1 /\ UNCHANGED ret
      BY <1>2, <2>1, <3>1, <3>0, RecordIsExtent DEF vh_read_log
    <3> QED BY <1>0, <1>2, <2>1, <3>1, <3>2 DEF vh_read_log, IInv, TypeOK, Disjoint
  <2>2. CASE pc' \in {"done", "check"}
    BY <1>0, <1>2, <2>2, SMT DEF vh_read_log, IInv, TypeOK, Disjoint
  <2> QED BY <1>2, <2>1, <2>2 DEF vh_read_log
<1>3. CASE Insert
  BY <1>0, <1>3, InsertDisjoint DEF Insert, IInv, TypeOK
<1>4. CASE Link
  BY <1>0, <1>4, LinkDisjoint DEF Link, IInv, TypeOK
<1>5. CASE vh_check_file
  BY <1>0, <1>5, SMT DEF vh_check_file, IInv, TypeOK, Disjoint
<1>6. CASE CallFails
  BY <1>0, <1>6, SMT DEF CallFails, IInv, TypeOK, Disjoint
<1>7. CASE Done \/ UNCHANGED vars
  BY <1>0, <1>7 DEF Done, vars, IInv, TypeOK, Disjoint
<1> QED BY <1>1, <1>2, <1>3, <1>4, <1>5, <1>6, <1>7 DEF Next, Step

\* Two extents of the tree never share a byte, so the nested insert of a trimmed
\* extent goes to a pre-cleared region (verify_holes.c:140), for every log.
THEOREM TreeStaysDisjoint == Spec => []Disjoint
<1>1. Init => IInv
  BY InitIInv
<1>2. IInv /\ [Next]_vars => IInv'
  BY NextIInv
<1>3. IInv => Disjoint
  BY DEF IInv
<1> QED BY <1>1, <1>2, <1>3, PTL DEF Spec

-----------------------------------------------------------------------------
(* The refinement: what the tree says of a byte, step by step. *)

Apart(t) == \A e, f \in t : e # f => ~ Overlap(e, f)

TreeChar(t, b) == IF \E e \in t : Covers(e, b) THEN (CHOOSE e \in t : Covers(e, b)).ch ELSE NUL

\* In a disjoint tree the extent that covers a byte is the only one.
LEMMA CoverDecides ==
    ASSUME NEW t, t \subseteq Extents, Apart(t), NEW b \in Nat, NEW e \in t, Covers(e, b)
    PROVE  TreeChar(t, b) = e.ch
<1>1. \A f \in t : Covers(f, b) => f = e
  <2> SUFFICES ASSUME NEW f \in t, Covers(f, b), f # e PROVE FALSE
    OBVIOUS
  <2>1. Overlap(f, e)
    BY SMT DEF Covers, Overlap, Extents, End
  <2> QED BY <2>1 DEF Apart
<1>2. (CHOOSE f \in t : Covers(f, b)) = e
  BY <1>1
<1> QED BY <1>2 DEF TreeChar

\* Clearing an extent out of the way changes no byte outside the new record.
LEMMA InsertKeepsChars ==
    ASSUME IInv, Insert, NEW b \in Nat, ~ Covers(chunk, b)
    PROVE  TreeChar(tree', b) = TreeChar(tree, b)
<1>1. chunk \in Extents /\ tree \subseteq Extents /\ Apart(tree)
  BY DEF IInv, TypeOK, Insert, Disjoint, Apart
<1>2. tree' \subseteq Extents /\ Apart(tree')
  BY InsertDisjoint DEF Disjoint, Apart
<1>3. PICK e \in tree : InTheWay(chunk, e) /\ tree' = (tree \ {e}) \cup Remains(chunk, e)
  BY DEF Insert
<1>4. /\ Remains(chunk, e) \subseteq Extents
      /\ \A p \in Remains(chunk, e) : p.ch = e.ch /\ e.off <= p.off /\ End(p) <= End(e)
      /\ \A x \in Nat : ~ Covers(chunk, x) /\ Covers(e, x) => \E p \in Remains(chunk, e) : Covers(p, x)
  BY <1>1, <1>3, RemainsArePieces
<1>5. \A p \in Remains(chunk, e) : Covers(p, b) => Covers(e, b)
  BY <1>1, <1>4, SMT DEF Covers, Extents, End
<1>6. CASE \E f \in tree \ {e} : Covers(f, b)
  <2>1. PICK f \in tree \ {e} : Covers(f, b)
    BY <1>6
  <2> QED BY <1>1, <1>2, <1>3, <2>1, CoverDecides, SMT
<1>7. CASE Covers(e, b)
  <2>1. PICK p \in Remains(chunk, e) : Covers(p, b)
    BY <1>4, <1>7
  <2>2. TreeChar(tree', b) = p.ch
    BY <1>2, <1>3, <2>1, CoverDecides, SMT
  <2>3. TreeChar(tree, b) = e.ch
    BY <1>1, <1>7, CoverDecides
  <2> QED BY <1>4, <2>1, <2>2, <2>3
<1>8. CASE ~ Covers(e, b) /\ ~ \E f \in tree \ {e} : Covers(f, b)
  BY <1>3, <1>5, <1>8 DEF TreeChar
<1> QED BY <1>6, <1>7, <1>8

\* Linking the new extent makes it the one that decides its bytes.
LEMMA LinkTakesChunk ==
    ASSUME IInv, Link, NEW b \in Nat
    PROVE  TreeChar(tree', b) = IF Covers(chunk, b) THEN chunk.ch ELSE TreeChar(tree, b)
<1>1. chunk \in Extents /\ tree \subseteq Extents /\ Apart(tree)
  BY DEF IInv, TypeOK, Link, Disjoint, Apart
<1>2. tree' \subseteq Extents /\ Apart(tree') /\ tree' = tree \cup {chunk}
  BY LinkDisjoint DEF Disjoint, Apart, Link
<1>3. CASE Covers(chunk, b)
  BY <1>2, <1>3, CoverDecides, SMT
<1>4. CASE ~ Covers(chunk, b) /\ \E e \in tree : Covers(e, b)
  <2>1. PICK e \in tree : Covers(e, b)
    BY <1>4
  <2> QED BY <1>1, <1>2, <1>4, <2>1, CoverDecides, SMT
<1>5. CASE ~ Covers(chunk, b) /\ ~ \E e \in tree : Covers(e, b)
  BY <1>2, <1>5 DEF TreeChar
<1> QED BY <1>3, <1>4, <1>5

\* The refinement mapping in terms of TreeChar: the chunk that is out of the tree
\* for clearing still counts.
LEMMA CharOfTree ==
    ASSUME NEW b
    PROVE  CharOf(b) = IF chunk # None /\ Covers(chunk, b) THEN chunk.ch ELSE TreeChar(tree, b)
BY DEF CharOf, TreeChar

\* The same after a step.
LEMMA CharOfTreeNext ==
    ASSUME NEW b
    PROVE  CharOf(b)' = IF chunk' # None /\ Covers(chunk', b) THEN chunk'.ch ELSE TreeChar(tree', b)
BY DEF CharOf, TreeChar

\* Only vh_read_log changes the byte map, and it does what the next record says.
LEMMA StepSimulates ==
    ASSUME IInv, [Next]_vars
    PROVE  [Map!NextRecord]_<<file_size, AsRead(log), line, [b \in Bytes |-> CharOf(b)]>>
<1> DEFINE same == UNCHANGED <<file_size, AsRead(log), line, [b \in Bytes |-> CharOf(b)]>>
<1>0. Bytes \subseteq Nat /\ file_size \in Nat
  BY SMT DEF Bytes, IInv, TypeOK
<1>00. file_size' = file_size /\ Bytes' = Bytes
  BY SizeStays
<1>1. CASE vh_init_tree
  <2>1. \A b \in Bytes : CharOf(b)' = CharOf(b)
    <3> TAKE b \in Bytes
    <3>1. chunk = None /\ tree = {} /\ tree' = {} /\ chunk'.ch = NUL
      BY <1>1 DEF vh_init_tree, IInv, TypeOK
    <3>2. TreeChar({}, b) = NUL
      BY DEF TreeChar
    <3> QED BY <3>1, <3>2, CharOfTree, CharOfTreeNext
  <2>2. same
    BY <1>00, <1>1, <2>1 DEF vh_init_tree, AsRead
  <2> QED BY <2>2
<1>2. CASE vh_read_log
  <2>1. CASE line < Len(log) /\ log[line + 1] # BadLine /\ pc' = "insert"
    <3>1. log[line + 1] \in Records /\ line \in Nat /\ line + 1 \in DOMAIN log
      BY <2>1, SMT DEF IInv, TypeOK
    <3>2. /\ chunk = None
          /\ chunk' = [log[line + 1] EXCEPT !.ch = HoleChar(@)] /\ chunk' # None
          /\ line' = line + 1 /\ UNCHANGED <<log, tree>>
      BY <1>0, <1>2, <2>1, <3>1, RecordIsExtent DEF vh_read_log, IInv, TypeOK
    <3>3. AsRead(log)[line + 1] = chunk' /\ AsRead(log)' = AsRead(log)
      BY <3>1, <3>2 DEF AsRead
    <3>4. Len(AsRead(log)) = Len(log)
      BY SMT DEF AsRead, IInv, TypeOK
    <3>5. \A b \in Bytes : CharOf(b)' = IF Covers(chunk', b) THEN chunk'.ch ELSE CharOf(b)
      BY <3>2, CharOfTree, CharOfTreeNext, SMT
    <3>6. [b \in Bytes |-> CharOf(b)]' = ApplyWrite([b \in Bytes |-> CharOf(b)], chunk')
      BY <1>00, <3>5 DEF ApplyWrite, Written
    <3> QED BY <1>00, <2>1, <3>2, <3>3, <3>4, <3>6 DEF Map!NextRecord, Map!ApplyWrite, Map!Written, Map!Covers, Map!End, ApplyWrite, Written, Covers, End
  <2>2. CASE pc' \in {"done", "check"}
    <3>1. UNCHANGED <<log, line, tree, chunk>>
      BY <1>2, <2>2 DEF vh_read_log
    <3> QED BY <1>00, <3>1, CharOfTree, CharOfTreeNext DEF AsRead
  <2> QED BY <1>2, <2>1, <2>2 DEF vh_read_log
<1>3. CASE Insert
  <2>1. \A b \in Bytes : CharOf(b)' = CharOf(b)
    <3> TAKE b \in Bytes
    <3>1. chunk' = chunk /\ chunk # None
      BY <1>3 DEF Insert, IInv, TypeOK
    <3> QED BY <1>0, <1>3, <3>1, InsertKeepsChars, CharOfTree, CharOfTreeNext
  <2> QED BY <1>00, <1>3, <2>1 DEF Insert, AsRead
<1>4. CASE Link
  <2>1. \A b \in Bytes : CharOf(b)' = CharOf(b)
    <3> TAKE b \in Bytes
    <3>1. chunk' = None /\ chunk # None
      BY <1>4 DEF Link, IInv, TypeOK
    <3> QED BY <1>0, <1>4, <3>1, LinkTakesChunk, CharOfTree, CharOfTreeNext
  <2> QED BY <1>00, <1>4, <2>1 DEF Link, AsRead
<1>5. CASE vh_check_file \/ CallFails \/ Done \/ UNCHANGED vars
  <2>1. UNCHANGED <<log, line, tree, chunk>>
    BY <1>5 DEF vh_check_file, CallFails, Done, vars
  <2> QED BY <1>00, <2>1, CharOfTree, CharOfTreeNext DEF AsRead
<1> QED BY <1>1, <1>2, <1>3, <1>4, <1>5 DEF Next, Step

\* A log, as vh_read_log takes it, is a log of writes.
LEMMA AsReadLog ==
    ASSUME file_size \in Nat, NEW l \in Seq(Records \cup {BadLine})
    PROVE  AsRead(l) \in Map!Logs /\ Len(AsRead(l)) = Len(l)
<1>1. \A n \in DOMAIN l : [l[n] EXCEPT !.ch = HoleChar(@)]
                            \in [ch : Chars \cup {NUL, BadLine.ch}, off : Nat, len : Nat]
  <2> TAKE n \in DOMAIN l
  <2>1. l[n] \in Records \cup {BadLine}
    BY SMT
  <2>2. CASE l[n] \in Records
    BY <2>2, SMT DEF Records, Bytes, HoleChar
  <2>3. CASE l[n] = BadLine
    BY <2>3, SMT DEF BadLine, HoleChar
  <2> QED BY <2>1, <2>2, <2>3
<1> DEFINE S == [ch : Chars \cup {NUL, BadLine.ch}, off : Nat, len : Nat]
<1>2. AsRead(l) \in [1 .. Len(l) -> S]
  BY <1>1, SMT DEF AsRead
<1> HIDE DEF S
<1>3. AsRead(l) \in Seq(S) /\ Len(AsRead(l)) = Len(l)
  BY <1>2, SMT
<1> QED BY <1>3 DEF Map!Logs, S

\* The extent tree implements the byte map: at every step of every insertion the
\* tree and the extent on its way into it say of each byte what the last record
\* read so far that covers it says (verify_holes.c:420).
THEOREM TreeIsLastWriterMap == Spec => LastRecordWins
<1>1. Init => Map!Init
  <2> SUFFICES ASSUME Init PROVE Map!Init
    OBVIOUS
  <2>1. file_size \in Nat /\ log \in Seq(Records \cup {BadLine})
    BY DEF Init
  <2>2. AsRead(log) \in Map!Logs
    BY <2>1, AsReadLog
  <2>3. [b \in Bytes |-> CharOf(b)] = [b \in 0 .. file_size - 1 |-> NUL]
    BY DEF CharOf, Init, Bytes
  <2> QED BY <2>2, <2>3 DEF Map!Init, Map!NUL, NUL, Init
<1>2. Init => IInv
  BY InitIInv
<1>3. IInv /\ [Next]_vars => IInv'
  BY NextIInv
<1>4. IInv /\ [Next]_vars => [Map!NextRecord]_<<file_size, AsRead(log), line, [b \in Bytes |-> CharOf(b)]>>
  BY StepSimulates
<1>5. IInv /\ [Next]_vars =>
          [Map!WriteLog \/ Map!NextRecord]_<<file_size, AsRead(log), line, [b \in Bytes |-> CharOf(b)]>>
  BY <1>4
<1> QED BY <1>1, <1>2, <1>3, <1>5, PTL DEF Spec, LastRecordWins, Map!Spec
-----------------------------------------------------------------------------
(* The verdict. *)

\* The chunk on its way into the tree counts as part of it.
Tracked == IF chunk = None THEN tree ELSE tree \cup {chunk}

\* The invariant of the verdict: the records read so far are good ones; tree and
\* chunk cover the whole file once the initial extent is there, reach no further
\* than the file, and say of a byte what the last record read that covers it says.
VInv ==
    /\ \A n \in 1 .. line : log[n] # BadLine
    /\ \A e \in Tracked : End(e) <= file_size
    /\ pc \notin {"init", "failed"} => \A b \in Bytes : \E e \in Tracked : Covers(e, b)
    /\ \A b \in Bytes : CharOf(b) = LastChar(AsRead(log), line, b)
    /\ pc = "check" => line = Len(log)

\* The next record decides the bytes it covers and no others.
LEMMA LastCharNext ==
    ASSUME NEW l, NEW n \in Nat, NEW b
    PROVE  LastChar(l, n + 1, b) = IF Covers(l[n + 1], b) THEN l[n + 1].ch ELSE LastChar(l, n, b)
<1> DEFINE old == {k \in 1 .. n : Covers(l[k], b)}
           new == {k \in 1 .. n + 1 : Covers(l[k], b)}
<1>1. CASE Covers(l[n + 1], b)
  <2>1. n + 1 \in new /\ \A m \in new : m <= n + 1
    BY <1>1, SMT
  <2>2. Latest(new) = n + 1
    <3>1. \A k \in new : (\A m \in new : m <= k) => k = n + 1
      BY <2>1, SMT
    <3> QED BY <2>1, <3>1 DEF Latest
  <2> QED BY <1>1, <2>1, <2>2 DEF LastChar
<1>2. CASE ~ Covers(l[n + 1], b)
  <2>1. new = old
    BY <1>2, SMT
  <2> QED BY <1>2, <2>1 DEF LastChar
<1> QED BY <1>1, <1>2

\* A step of verify_holes either leaves the byte map and the place in the log as
\* they are or takes the next record.
LEMMA MapStep ==
    ASSUME IInv, [Next]_vars, NEW b \in Bytes
    PROVE  \/ line' = line /\ CharOf(b)' = CharOf(b)
           \/ /\ line' = line + 1
              /\ CharOf(b)' = IF Covers(AsRead(log)[line + 1], b)
                              THEN AsRead(log)[line + 1].ch ELSE CharOf(b)
<1> DEFINE map == [x \in Bytes |-> CharOf(x)]
<1>1. [Map!NextRecord]_<<file_size, AsRead(log), line, map>>
  BY StepSimulates
<1>2. map[b] = CharOf(b)
  OBVIOUS
<1>3. map'[b] = CharOf(b)'
  <2>1. Bytes' = Bytes
    BY SizeStays
  <2> QED BY <2>1
<1>4. CASE UNCHANGED <<file_size, AsRead(log), line, map>>
  BY <1>2, <1>3, <1>4
<1>5. CASE Map!NextRecord
  <2>1. line' = line + 1 /\ map' = Map!ApplyWrite(map, AsRead(log)[line'])
    BY <1>5 DEF Map!NextRecord
  <2>2. map'[b] = Map!Written(map, AsRead(log)[line'], b)
    BY <2>1 DEF Map!ApplyWrite
  <2> QED BY <1>2, <1>3, <2>1, <2>2 DEF Map!Written, Map!Covers, Map!End, Covers, End
<1> QED BY <1>1, <1>4, <1>5

\* verify_holes starts in the invariant of the verdict.
LEMMA InitVInv == Init => VInv
<1> SUFFICES ASSUME Init PROVE VInv
  OBVIOUS
<1>1. \A b \in Bytes : CharOf(b) = NUL /\ LastChar(AsRead(log), line, b) = NUL
  BY SMT DEF CharOf, LastChar, Init
<1>2. Tracked = {}
  BY DEF Tracked, Init
<1> QED BY <1>1, <1>2, SMT DEF VInv, Init

\* Every step keeps the invariant of the verdict, as long as the size of the file
\* fits into the 32 bits of w_len.
LEMMA NextVInv ==
    ASSUME file_size < LenMod, IInv, VInv, [Next]_vars
    PROVE  VInv'
<1>0. line \in Nat /\ line <= Len(log) /\ Len(log) \in Nat /\ file_size \in Nat /\ Bytes \subseteq Nat
  BY SMT DEF IInv, TypeOK, Bytes
<1>1. log' = log /\ file_size' = file_size /\ Bytes' = Bytes
  BY SizeStays
<1>2. \A b \in Bytes : CharOf(b)' = LastChar(AsRead(log), line, b)'
  <2> TAKE b \in Bytes
  <2>1. LastChar(AsRead(log), line, b)' = LastChar(AsRead(log), line', b)
    BY <1>1 DEF AsRead
  <2>2. CharOf(b) = LastChar(AsRead(log), line, b)
    BY DEF VInv
  <2> QED BY <1>0, <2>1, <2>2, MapStep, LastCharNext, SMT
<1>3. CASE vh_init_tree
  <2>1. file_size % LenMod = file_size
    BY <1>0, LenModAssumption, SMT
  <2>2. chunk' = [ch |-> NUL, off |-> 0, len |-> file_size] /\ chunk' # None /\ tree' = {}
        /\ pc' = "insert" /\ line' = line
    BY <1>3, <2>1 DEF vh_init_tree, IInv, None, NUL
  <2>3. Tracked' = {chunk'}
    BY <2>2 DEF Tracked
  <2>4. End(chunk') = file_size /\ \A b \in Bytes : Covers(chunk', b)
    BY <1>0, <2>2, SMT DEF End, Covers, Bytes
  <2> QED BY <1>0, <1>1, <1>2, <2>2, <2>3, <2>4, SMT DEF VInv
<1>4. CASE vh_read_log
  <2>1. CASE line < Len(log) /\ log[line + 1] # BadLine /\ pc' = "insert"
    <3>1. log[line + 1] \in Records /\ line + 1 \in DOMAIN log
      BY <2>1, SMT DEF IInv, TypeOK
    <3>2. /\ chunk = None
          /\ chunk' = [log[line + 1] EXCEPT !.ch = HoleChar(@)] /\ chunk' # None
          /\ line' = line + 1 /\ tree' = tree
      BY <1>0, <1>4, <2>1, <3>1, RecordIsExtent DEF vh_read_log, IInv, TypeOK
    <3>3. End(chunk') = End(log[line + 1]) /\ End(log[line + 1]) <= file_size
      BY <3>1, <3>2 DEF Records, End
    <3>4. Tracked = tree /\ Tracked' = tree \cup {chunk'}
      BY <3>2 DEF Tracked
    <3>5. \A n \in 1 .. line' : log[n] # BadLine
      BY <1>0, <2>1, <3>2, SMT DEF VInv
    <3>6. pc \notin {"init", "failed"}
      BY <1>4 DEF vh_read_log
    <3> QED BY <1>1, <1>2, <2>1, <3>3, <3>4, <3>5, <3>6 DEF VInv
  <2>2. CASE pc' \in {"done", "check"}
    <3>1. UNCHANGED <<log, line, tree, chunk>> /\ (pc' = "check" => line = Len(log)) /\ pc \notin {"init", "failed"}
      BY <1>4, <2>2 DEF vh_read_log
    <3>2. Tracked' = Tracked
      BY <3>1 DEF Tracked
    <3> QED BY <1>1, <1>2, <3>1, <3>2 DEF VInv
  <2> QED BY <1>4, <2>1, <2>2 DEF vh_read_log
<1>5. CASE Insert
  <2>1. chunk \in Extents /\ chunk # None /\ tree \subseteq Extents
    BY <1>5 DEF IInv, TypeOK, Insert
  <2>2. PICK e \in tree : InTheWay(chunk, e) /\ tree' = (tree \ {e}) \cup Remains(chunk, e)
    BY <1>5 DEF Insert
  <2>3. /\ Remains(chunk, e) \subseteq Extents
        /\ \A p \in Remains(chunk, e) : End(p) <= End(e)
        /\ \A b \in Nat : ~ Covers(chunk, b) /\ Covers(e, b) => \E p \in Remains(chunk, e) : Covers(p, b)
    BY <2>1, <2>2, RemainsArePieces
  <2>4. Tracked = tree \cup {chunk} /\ Tracked' = (tree \ {e}) \cup Remains(chunk, e) \cup {chunk}
    BY <1>5, <2>1, <2>2 DEF Tracked, Insert
  <2>5. \A f \in Tracked' : End(f) <= file_size
    <3> TAKE f \in Tracked'
    <3>1. End(e) <= file_size
      BY <2>2, <2>4 DEF VInv
    <3>2. CASE f \in Remains(chunk, e)
      <4>1. End(f) \in Nat /\ End(e) \in Nat
        BY <2>1, <2>2, <2>3, <3>2, SMT DEF Extents, End
      <4> QED BY <1>0, <2>3, <3>1, <3>2, <4>1, SMT
    <3>3. CASE f \in Tracked
      BY <3>3 DEF VInv
    <3> QED BY <2>4, <3>2, <3>3
  <2>6. \A b \in Bytes : \E f \in Tracked' : Covers(f, b)
    <3> TAKE b \in Bytes
    <3>1. PICK f \in Tracked : Covers(f, b)
      BY <1>5 DEF VInv, Insert
    <3>2. CASE f = e /\ ~ Covers(chunk, b)
      BY <1>0, <2>3, <2>4, <3>1, <3>2
    <3>3. CASE f # e \/ Covers(chunk, b)
      BY <2>4, <3>1, <3>3
    <3> QED BY <3>2, <3>3
  <2> QED BY <1>1, <1>2, <1>5, <2>5, <2>6 DEF VInv, Insert
<1>6. CASE Link
  <2>1. Tracked' = Tracked
    BY <1>6 DEF Tracked, Link, IInv, TypeOK
  <2> QED BY <1>1, <1>2, <1>6, <2>1 DEF VInv, Link
<1>7. CASE vh_check_file \/ CallFails \/ Done \/ UNCHANGED vars
  <2>1. Tracked' = Tracked /\ line' = line
    BY <1>7 DEF Tracked, vh_check_file, CallFails, Done, vars
  <2> QED BY <1>1, <1>2, <1>7, <2>1 DEF VInv, vh_check_file, CallFails, Done, vars
<1> QED BY <1>3, <1>4, <1>5, <1>6, <1>7 DEF Next, Step

\* vh_check_file compares every byte of the file with what the log says of it.
LEMMA CheckIsExact ==
    ASSUME IInv, VInv, pc = "check"
    PROVE  (\A e \in tree : vh_check_chunk(e)) <=> file = LastWriterWins(Bytes, AsRead(log))
<1>1. chunk = None /\ Tracked = tree /\ tree \subseteq Extents /\ Apart(tree)
  BY DEF IInv, TypeOK, Tracked, Disjoint, Apart
<1>2. file_size \in Nat /\ Bytes = 0 .. file_size - 1 /\ DOMAIN file = Bytes
      /\ file = [b \in Bytes |-> file[b]]
  BY DEF Bytes, IInv, TypeOK
<1>3. Len(AsRead(log)) = line
  BY SMT DEF VInv, AsRead, IInv, TypeOK
<1>4. \A b \in Bytes : LastWriterWins(Bytes, AsRead(log))[b] = TreeChar(tree, b)
  <2> TAKE b \in Bytes
  <2>1. CharOf(b) = TreeChar(tree, b)
    BY <1>1, CharOfTree
  <2> QED BY <1>3, <2>1 DEF LastWriterWins, VInv
<1>5. file = LastWriterWins(Bytes, AsRead(log)) <=> \A b \in Bytes : file[b] = TreeChar(tree, b)
  <2>1. LastWriterWins(Bytes, AsRead(log)) = [b \in Bytes |-> TreeChar(tree, b)]
    BY <1>4 DEF LastWriterWins
  <2> QED BY <1>2, <2>1
<1>6. ASSUME \A e \in tree : vh_check_chunk(e), NEW b \in Bytes
      PROVE  file[b] = TreeChar(tree, b)
  <2>1. PICK e \in tree : Covers(e, b)
    BY <1>1 DEF VInv
  <2>2. b \in Nat /\ e \in Extents /\ b \in e.off .. End(e) - 1
    BY <1>1, <1>2, <2>1, SMT DEF Covers, Extents, End
  <2>3. file[b] = e.ch
    BY <1>6, <2>1, <2>2 DEF vh_check_chunk
  <2> QED BY <1>1, <2>1, <2>2, <2>3, CoverDecides
<1>7. ASSUME \A b \in Bytes : file[b] = TreeChar(tree, b), NEW e \in tree
      PROVE  vh_check_chunk(e)
  <2> SUFFICES ASSUME NEW b \in e.off .. End(e) - 1 PROVE b < file_size /\ file[b] = e.ch
    BY DEF vh_check_chunk
  <2>1. e \in Extents /\ End(e) <= file_size
    BY <1>1 DEF VInv
  <2>2. b \in Nat /\ b < file_size /\ Covers(e, b)
    BY <1>2, <2>1, SMT DEF Covers, Extents, End
  <2>3. b \in Bytes
    BY <1>2, <2>2, SMT
  <2> QED BY <1>1, <1>7, <2>2, <2>3, CoverDecides
<1> QED BY <1>5, <1>6, <1>7

\* The verdict is exact when it is given, and stays so.
LEMMA NextVerdict ==
    ASSUME IInv, file_size < LenMod => VInv, VerdictIsExact, [Next]_vars
    PROVE  VerdictIsExact'
<1>0. file_size' = file_size
  BY SizeStays
<1> SUFFICES ASSUME file_size < LenMod, Over'
             PROVE  (ret' = 0) <=> /\ pc' = "done"
                                   /\ \A n \in 1 .. Len(log') : log'[n] # BadLine
                                   /\ file' = LastWriterWins(Bytes', AsRead(log)')
  BY <1>0 DEF VerdictIsExact
<1>1. CASE vh_check_file
  <2>1. /\ file' = file /\ log' = log /\ pc' = "done"
        /\ ret' = IF \A e \in tree : vh_check_chunk(e) THEN 0 ELSE 1
        /\ pc = "check"
    BY <1>1 DEF vh_check_file
  <2>2. \A n \in 1 .. Len(log) : log[n] # BadLine
    BY <2>1 DEF VInv
  <2>3. LastWriterWins(Bytes', AsRead(log)') = LastWriterWins(Bytes, AsRead(log))
    BY <1>0, <2>1 DEF LastWriterWins, AsRead, Bytes
  <2> QED BY <2>1, <2>2, <2>3, CheckIsExact, SMT
<1>2. CASE vh_read_log
  <2>1. line < Len(log) /\ log[line + 1] = BadLine /\ ret' = 1 /\ log' = log
    BY <1>2 DEF vh_read_log, Over
  <2>2. line + 1 \in 1 .. Len(log)
    BY <2>1, SMT DEF IInv, TypeOK
  <2> QED BY <2>1, <2>2, SMT
<1>3. CASE vh_init_tree \/ Insert \/ Link
  BY <1>3 DEF vh_init_tree, Insert, Link, Over
<1>4. CASE Done \/ UNCHANGED vars
  <2>1. UNCHANGED <<file, log, pc, ret>>
    BY <1>4 DEF Done, vars
  <2>2. LastWriterWins(Bytes', AsRead(log)') = LastWriterWins(Bytes, AsRead(log))
    BY <1>0, <2>1 DEF LastWriterWins, AsRead, Bytes
  <2> QED BY <2>1, <2>2 DEF VerdictIsExact, Over
<1>5. CASE CallFails
  BY <1>5, SMT DEF CallFails
<1> QED BY <1>1, <1>2, <1>3, <1>4, <1>5 DEF Next, Step

\* verify_holes accepts a file exactly when no call fails, the log can be read and every
\* byte of the file, holes included, is what the last record that covers it says, for
\* every log and every file smaller than 4 GiB.
THEOREM VerdictAlwaysExact == Spec => []VerdictIsExact
<1> DEFINE Inv == IInv /\ (file_size < LenMod => VInv) /\ VerdictIsExact
<1>1. Init => Inv
  BY InitIInv, InitVInv DEF Init, VerdictIsExact, Over
<1>2. Inv /\ [Next]_vars => Inv'
  BY NextIInv, NextVInv, NextVerdict, SizeStays
<1>3. Inv => VerdictIsExact
  OBVIOUS
<1> QED BY <1>1, <1>2, <1>3, PTL DEF Spec

-----------------------------------------------------------------------------
(* fill_holes. *)

\* A product grows with its factor.
LEMMA TimesMonotone ==
    ASSUME NEW a \in Nat, NEW b \in Nat, NEW c \in Nat, a <= b
    PROVE  a * c <= b * c
<1>1. PICK d \in Nat : b = a + d
  <2>1. b - a \in Nat /\ b = a + (b - a)
    BY SMT
  <2> QED BY <2>1
<1>2. d * c \in Nat /\ a * c \in Nat
  BY SMT
<1>3. b * c = a * c + d * c
  BY <1>1, SMT
<1> QED BY <1>2, <1>3, SMT

\* Quotient and remainder.
LEMMA DivMod ==
    ASSUME NEW a \in Nat, NEW b \in Nat \ {0}
    PROVE  /\ a \div b \in Nat
           /\ (a \div b) * b <= a
           /\ a < (a \div b) * b + b
BY SMT

\* The quotient of a number that is given by quotient and remainder.
LEMMA DivOf ==
    ASSUME NEW k \in Nat, NEW b \in Nat \ {0}, NEW r \in 0 .. b - 1
    PROVE  (k * b + r) \div b = k
<1> DEFINE a == k * b + r
           q == a \div b
<1>1. a \in Nat /\ q \in Nat /\ q * b <= a /\ a < q * b + b
  BY DivMod, SMT
<1> HIDE DEF q
<1>2. CASE q < k
  <2>1. (q + 1) * b <= k * b
    BY <1>1, <1>2, TimesMonotone, SMT
  <2>2. (q + 1) * b = q * b + b
    BY <1>1, SMT
  <2> QED BY <1>1, <2>1, <2>2, SMT
<1>3. CASE q > k
  <2>1. (k + 1) * b <= q * b
    BY <1>1, <1>3, TimesMonotone, SMT
  <2>2. (k + 1) * b = k * b + b
    BY SMT
  <2> QED BY <1>1, <2>1, <2>2, SMT
<1>4. q = k
  BY <1>1, <1>2, <1>3, SMT
<1> QED BY <1>4 DEF q

ArgsOK == file_size \in Nat \ {0} /\ max_iter \in Nat
Writes == {u \in Records : u.ch \in Chars}
Share == Fill!max_iter_per_chunk
Number == Fill!num_chunks
Size == Fill!rounded_size

\* What is assumed of the constants.
LEMMA ScriptFacts ==
    /\ TWO_GIGA_BYTE \in Nat /\ TWO_GIGA_BYTE > 1
    /\ MAX_WRITE_SIZE \in Nat /\ MAX_WRITE_SIZE > 1
    /\ MAGIC_HOLE_CHAR \notin Chars /\ NUL \notin Chars
BY ScriptConstants
   DEF Fill!ConstantsOK, Fill!HeaderOK, Fill!MAGIC_HOLE_CHAR, Fill!NUL, MAGIC_HOLE_CHAR, NUL

\* How main shares iterations and bytes out: with more than one chunk's worth of
\* bytes the size is a number of whole chunks, and there are fewer iterations
\* than Share + 1 for each of them.
LEMMA ChunkFacts ==
    ASSUME ArgsOK
    PROVE  /\ Share \in Nat /\ Number \in Nat /\ Size \in Nat /\ 0 < Size /\ Size <= file_size
           /\ Share > 0 => Size = Number * TWO_GIGA_BYTE /\ max_iter < Number * (Share + 1)
           /\ Share = 0 /\ Size > TWO_GIGA_BYTE => max_iter < Number
<1>0. /\ file_size \in Nat \ {0} /\ max_iter \in Nat
      /\ TWO_GIGA_BYTE \in Nat \ {0} /\ TWO_GIGA_BYTE > 1
  BY ScriptFacts, SMT DEF ArgsOK
<1>1. /\ Number \in Nat /\ Number * TWO_GIGA_BYTE <= file_size
      /\ file_size < Number * TWO_GIGA_BYTE + TWO_GIGA_BYTE
  BY <1>0, DivMod DEF Number, Fill!num_chunks
<1>2. CASE file_size > TWO_GIGA_BYTE
  <2>1. Number \in Nat \ {0}
    BY <1>0, <1>1, <1>2, SMT
  <2>2. Share = max_iter \div Number /\ Size = Number * TWO_GIGA_BYTE
    BY <1>2 DEF Share, Number, Size, Fill!rounded_size, Fill!max_iter_per_chunk
  <2>3. Share \in Nat /\ max_iter < Share * Number + Number
    BY <1>0, <2>1, <2>2, DivMod
  <2>4. Share * Number + Number = Number * (Share + 1)
    BY <2>1, <2>3, SMT
  <2>5. Share = 0 => max_iter < Number
    BY <2>1, <2>3, SMT
  <2>6. Size \in Nat /\ 0 < Size /\ Size <= file_size
    <3>1. 1 * TWO_GIGA_BYTE <= Number * TWO_GIGA_BYTE
      BY <1>0, <2>1, TimesMonotone, SMT
    <3> QED BY <1>0, <1>1, <2>1, <2>2, <3>1, SMT
  <2> QED BY <2>1, <2>2, <2>3, <2>4, <2>5, <2>6
<1>3. CASE ~ (file_size > TWO_GIGA_BYTE)
  <2>1. Share = 0 /\ Size = file_size
    BY <1>3 DEF Share, Size, Fill!rounded_size, Fill!max_iter_per_chunk
  <2> QED BY <1>0, <1>1, <1>3, <2>1, SMT
<1> QED BY <1>2, <1>3

\* The arguments stay as they are, and with them all that is computed from them.
LEMMA ArgsStay ==
    ASSUME file_size' = file_size, max_iter' = max_iter
    PROVE  /\ Bytes' = Bytes /\ Records' = Records /\ Writes' = Writes
           /\ Share' = Share /\ Number' = Number /\ Size' = Size
<1>1. Bytes' = Bytes
  BY DEF Bytes
<1>2. Records' = Records
  BY <1>1 DEF Records
<1>3. Writes' = Writes
  BY <1>2 DEF Writes
<1>4. Number' = Number
  BY DEF Number, Fill!num_chunks
<1> QED BY <1>1, <1>2, <1>3, <1>4
        DEF Share, Number, Size, Fill!rounded_size, Fill!max_iter_per_chunk

\* The iterations that have drawn their write.
Turns == IF w_pc = "loop" THEN i ELSE i + 1

\* The counters of fh_prep_rand_write_unit: after Turns draws the offset is that
\* of chunk k, which has had cur_iter_per_chunk of them, or one more if k > 0.
Counted ==
    /\ Share = 0 => cur_iter_offset = 0 /\ (Size > TWO_GIGA_BYTE => w_pc = "loop" /\ log = <<>>)
    /\ Share > 0 => \E k \in Nat : /\ cur_iter_offset = k * TWO_GIGA_BYTE
                                   /\ k * (Share + 1) + cur_iter_per_chunk = Turns

\* A drawn write lies in the chunk whose turn it is.
Drawn ==
    /\ wu.len \in 1 .. MAX_WRITE_SIZE /\ End(wu) <= Size
    /\ cur_iter_offset <= wu.off
    /\ Share > 0 => wu.off < cur_iter_offset + TWO_GIGA_BYTE

\* f holds what the first n records of l make of a file of zeros.
Made(B, l, n, f) ==
    \A b \in B :
        \/ f[b] = NUL /\ \A k \in 1 .. n : ~ Covers(l[k], b)
        \/ \E k \in 1 .. n : /\ Covers(l[k], b) /\ f[b] = l[k].ch
                            /\ \A m \in k + 1 .. n : ~ Covers(l[m], b)

\* Made, the form that later writes preserve, is what LastWriterWins says.
LEMMA MadeWins ==
    ASSUME NEW B, NEW l, NEW n \in Nat, Len(l) = n, NEW f \in [B -> FileChars], Made(B, l, n, f)
    PROVE  f = LastWriterWins(B, l)
<1>1. ASSUME NEW b \in B PROVE f[b] = LastChar(l, n, b)
  <2> DEFINE covering == {k \in 1 .. n : Covers(l[k], b)}
  <2>1. CASE f[b] = NUL /\ \A k \in 1 .. n : ~ Covers(l[k], b)
    <3>1. covering = {}
      BY <2>1
    <3> QED BY <2>1, <3>1 DEF LastChar
  <2>2. CASE \E k \in 1 .. n : /\ Covers(l[k], b) /\ f[b] = l[k].ch
                              /\ \A m \in k + 1 .. n : ~ Covers(l[m], b)
    <3>1. PICK k \in 1 .. n : /\ Covers(l[k], b) /\ f[b] = l[k].ch
                              /\ \A m \in k + 1 .. n : ~ Covers(l[m], b)
      BY <2>2
    <3>2. k \in covering /\ \A m \in covering : m <= k
      BY <3>1, SMT
    <3>3. \A j \in covering : (\A m \in covering : m <= j) => j = k
      BY <3>2, SMT
    <3>4. Latest(covering) = k
      BY <3>2, <3>3 DEF Latest
    <3> QED BY <3>1, <3>2, <3>4 DEF LastChar
  <2> QED BY <1>1, <2>1, <2>2 DEF Made
<1>2. LastWriterWins(B, l) = [b \in B |-> LastChar(l, n, b)]
  BY DEF LastWriterWins
<1> QED BY <1>1, <1>2

\* The next write makes the next file.
LEMMA MadeNext ==
    ASSUME NEW B, NEW l, NEW n \in Nat, NEW f \in [B -> FileChars], Made(B, l, n, f)
    PROVE  Made(B, l, n + 1, ApplyWrite(f, l[n + 1]))
<1> DEFINE g == ApplyWrite(f, l[n + 1])
<1>1. SUFFICES ASSUME NEW b \in B
               PROVE  \/ g[b] = NUL /\ \A k \in 1 .. n + 1 : ~ Covers(l[k], b)
                      \/ \E k \in 1 .. n + 1 : /\ Covers(l[k], b) /\ g[b] = l[k].ch
                                              /\ \A m \in k + 1 .. n + 1 : ~ Covers(l[m], b)
  BY DEF Made
<1>2. g[b] = IF Covers(l[n + 1], b) THEN l[n + 1].ch ELSE f[b]
  BY DEF ApplyWrite, Written
<1> HIDE DEF g
<1>3. CASE Covers(l[n + 1], b)
  <2>1. n + 1 \in 1 .. n + 1 /\ \A m \in (n + 1) + 1 .. n + 1 : ~ Covers(l[m], b)
    BY SMT
  <2> QED BY <1>2, <1>3, <2>1
<1>4. CASE ~ Covers(l[n + 1], b) /\ f[b] = NUL /\ \A k \in 1 .. n : ~ Covers(l[k], b)
  <2>1. \A k \in 1 .. n + 1 : k \in 1 .. n \/ k = n + 1
    BY SMT
  <2> QED BY <1>2, <1>4, <2>1
<1>5. CASE /\ ~ Covers(l[n + 1], b)
           /\ \E k \in 1 .. n : /\ Covers(l[k], b) /\ f[b] = l[k].ch
                               /\ \A m \in k + 1 .. n : ~ Covers(l[m], b)
  <2>1. PICK k \in 1 .. n : /\ Covers(l[k], b) /\ f[b] = l[k].ch
                            /\ \A m \in k + 1 .. n : ~ Covers(l[m], b)
    BY <1>5
  <2>2. k \in 1 .. n + 1 /\ \A m \in k + 1 .. n + 1 : m \in k + 1 .. n \/ m = n + 1
    BY SMT
  <2> QED BY <1>2, <1>5, <2>1, <2>2
<1> QED BY <1>3, <1>4, <1>5 DEF Made

\* Logs that agree make the same file.
LEMMA MadeSame ==
    ASSUME NEW B, NEW l, NEW o, NEW n \in Nat, NEW f, \A k \in 1 .. n : l[k] = o[k], Made(B, l, n, f)
    PROVE  Made(B, o, n, f)
<1>1. \A k \in 1 .. n : \A m \in k + 1 .. n : m \in 1 .. n
  BY SMT
<1> QED BY <1>1, SMT DEF Made

\* Before the first write the file is zeros.
LEMMA MadeNothing == ASSUME NEW B, NEW l PROVE Made(B, l, 0, [b \in B |-> NUL])
BY SMT DEF Made

\* The inductive invariant of fill_holes.
FInv ==
    /\ ArgsOK
    /\ i \in 0 .. max_iter
    /\ cur_iter_per_chunk \in 0 .. Share /\ cur_iter_offset \in Nat
    /\ w_pc \in {"loop", "log", "write", "done"} /\ w_ret \in 0 .. 1
    /\ replaying \in BOOLEAN /\ asserted \in BOOLEAN
    /\ replay \in Seq(Writes) /\ log \in Seq(Writes) /\ file \in [Bytes -> FileChars]
    /\ w_pc \in {"log", "write"} => wu \in Writes /\ i < max_iter
    /\ w_pc = "write" => Len(log) > 0 /\ log[Len(log)] = wu
    /\ w_pc # "done" => ~ asserted
    /\ w_pc # "done" /\ ~ replaying => Counted
    /\ w_pc \in {"log", "write"} /\ ~ replaying => Drawn
    /\ asserted => max_iter < Number /\ log = <<>>
    /\ w_pc \in {"loop", "log"} \/ (w_pc = "done" /\ w_ret = 0) => Made(Bytes, log, Len(log), file)
    /\ w_pc = "write" => Made(Bytes, log, Len(log) - 1, file)

\* What Draw comes to, with room behind base: a write inside the file, of an
\* allowed length, so that its asserts hold.
LEMMA DrawInside ==
    ASSUME ArgsOK, NEW range \in Nat, NEW base \in Nat, base + range < Size,
           asserted = FALSE, Fill!Draw(range, base)
    PROVE  /\ wu' \in Writes
           /\ wu'.len \in 1 .. MAX_WRITE_SIZE /\ End(wu') <= Size
           /\ base <= wu'.off /\ wu'.off <= base + range
           /\ asserted' = FALSE /\ w_pc' = "log" /\ w_ret' = w_ret
<1>0. /\ MAX_WRITE_SIZE \in Nat /\ MAX_WRITE_SIZE > 1 /\ file_size \in Nat
      /\ Size \in Nat /\ Size <= file_size
  BY ChunkFacts, ScriptFacts DEF ArgsOK
<1> DEFINE Len1(off, l) == IF off + l > Size THEN Size - off ELSE l
<1>1. PICK r \in Fill!fh_get_rand(range), l \in Fill!fh_get_rand(MAX_WRITE_SIZE), c \in Chars :
         /\ Len1(r + base, l) # 0
         /\ wu' = [ch |-> c, off |-> r + base, len |-> Len1(r + base, l)]
         /\ asserted' = (asserted \/ ~ (0 < Len1(r + base, l) /\ Len1(r + base, l) <= MAX_WRITE_SIZE))
         /\ IF asserted' THEN Fill!Stop(1) ELSE w_pc' = "log" /\ UNCHANGED w_ret
  BY DEF Fill!Draw, Size
<1>2. r \in Nat /\ r <= range /\ l \in Nat /\ l < MAX_WRITE_SIZE
  BY <1>0, <1>1, SMT DEF Fill!fh_get_rand
<1> DEFINE off == r + base
           len == Len1(off, l)
<1>3. /\ off \in Nat /\ base <= off /\ off <= base + range /\ off < Size
      /\ len \in 1 .. MAX_WRITE_SIZE /\ off + len <= Size
  BY <1>0, <1>1, <1>2, SMT
<1>4. wu' = [ch |-> c, off |-> off, len |-> len]
  BY <1>1
<1>7. asserted' = FALSE
  <2>1. (0 < Len1(r + base, l) /\ Len1(r + base, l) <= MAX_WRITE_SIZE) = TRUE
    BY <1>0, <1>3, SMT
  <2> QED BY <1>1, <2>1
<1> HIDE DEF off, len
<1>5. wu'.ch = c /\ wu'.off = off /\ wu'.len = len
  BY <1>4
<1>6. wu' \in Writes
  BY <1>0, <1>3, <1>4, <1>5, SMT DEF Writes, Records, Bytes, End
<1> QED BY <1>1, <1>3, <1>5, <1>6, <1>7 DEF End

\* The first n records of a log.
LEMMA FrontOf ==
    ASSUME NEW S, NEW l \in Seq(S), NEW n \in 0 .. Len(l)
    PROVE  /\ SubSeq(l, 1, n) \in Seq(S) /\ Len(SubSeq(l, 1, n)) = n
           /\ \A k \in 1 .. n : l[k] = SubSeq(l, 1, n)[k]
BY SMT

\* fill_holes and the script speak of the same writes.
LEMMA FillApplies == \A f, u : Fill!ApplyWrite(f, u) = ApplyWrite(f, u)
BY DEF Fill!ApplyWrite, Fill!Written, Fill!Covers, Fill!End, ApplyWrite, Written, Covers, End

\* The counters after a turn, before the draw: the chunk is one of the file's.
LEMMA TurnCounted ==
    ASSUME FInv, ~ replaying, w_pc = "loop", i < max_iter,
           Share > 0, Fill!ChunkTurn
    PROVE  /\ cur_iter_per_chunk' \in 0 .. Share /\ cur_iter_offset' \in Nat
           /\ cur_iter_offset' + (TWO_GIGA_BYTE - 1) < Size
           /\ \E k \in Nat : /\ cur_iter_offset' = k * TWO_GIGA_BYTE
                             /\ k * (Share + 1) + cur_iter_per_chunk' = i + 1
<1>0. /\ Share \in Nat /\ Number \in Nat /\ Size = Number * TWO_GIGA_BYTE
      /\ max_iter < Number * (Share + 1)
      /\ i \in Nat /\ max_iter \in Nat /\ cur_iter_per_chunk \in 0 .. Share
      /\ TWO_GIGA_BYTE \in Nat /\ TWO_GIGA_BYTE > 1
  BY ChunkFacts, ScriptFacts, SMT DEF FInv, ArgsOK
<1>1. PICK k \in Nat : /\ cur_iter_offset = k * TWO_GIGA_BYTE
                       /\ k * (Share + 1) + cur_iter_per_chunk = i
  BY DEF FInv, Counted, Turns
<1>2. \E x \in Nat : /\ cur_iter_offset' = x * TWO_GIGA_BYTE
                     /\ x * (Share + 1) + cur_iter_per_chunk' = i + 1
                     /\ cur_iter_per_chunk' \in 0 .. Share
  <2>1. CASE cur_iter_per_chunk = Share
    <3>1. cur_iter_offset' = cur_iter_offset + TWO_GIGA_BYTE /\ cur_iter_per_chunk' = 0
      BY <2>1 DEF Fill!ChunkTurn, Share
    <3>2. (k + 1) * TWO_GIGA_BYTE = k * TWO_GIGA_BYTE + TWO_GIGA_BYTE
      BY <1>0, SMT
    <3>3. (k + 1) * (Share + 1) = k * (Share + 1) + Share + 1
      BY <1>0, SMT
    <3> DEFINE x == k + 1
    <3>4. x \in Nat /\ cur_iter_offset' = x * TWO_GIGA_BYTE
      BY <1>1, <3>1, <3>2, SMT
    <3>5. x * (Share + 1) + cur_iter_per_chunk' = i + 1
      BY <1>0, <1>1, <2>1, <3>1, <3>3, SMT
    <3>6. cur_iter_per_chunk' \in 0 .. Share
      BY <1>0, <3>1, SMT
    <3> HIDE DEF x
    <3> QED BY <3>4, <3>5, <3>6
  <2>2. CASE cur_iter_per_chunk # Share
    <3>1. cur_iter_offset' = cur_iter_offset /\ cur_iter_per_chunk' = cur_iter_per_chunk + 1
      BY <2>2 DEF Fill!ChunkTurn, Share
    <3>2. cur_iter_per_chunk' \in 0 .. Share
      BY <1>0, <2>2, <3>1, SMT
    <3>3. k * (Share + 1) + cur_iter_per_chunk' = i + 1
      BY <1>0, <1>1, <3>1, SMT
    <3> QED BY <1>1, <3>1, <3>2, <3>3
  <2> QED BY <2>1, <2>2
<1>3. PICK x \in Nat : /\ cur_iter_offset' = x * TWO_GIGA_BYTE
                       /\ x * (Share + 1) + cur_iter_per_chunk' = i + 1
                       /\ cur_iter_per_chunk' \in 0 .. Share
  BY <1>2
<1>4. x < Number
  <2> SUFFICES ASSUME Number <= x PROVE FALSE
    BY <1>0, SMT
  <2>1. Number * (Share + 1) <= x * (Share + 1)
    BY <1>0, TimesMonotone, SMT
  <2>2. PICK a \in Nat : a = x * (Share + 1)
    BY <1>0, SMT
  <2>3. PICK b \in Nat : b = Number * (Share + 1)
    BY <1>0, SMT
  <2>4. PICK c \in Nat : c = cur_iter_per_chunk'
    BY <1>0, <1>3, SMT
  <2>5. b <= a /\ max_iter < b /\ a + c = i + 1
    BY <1>0, <1>3, <2>1, <2>2, <2>3, <2>4
  <2>6. i \in Nat /\ max_iter \in Nat /\ i + 1 <= max_iter
    BY <1>0, SMT
  <2> QED BY <2>5, <2>6, SMT
<1>5. cur_iter_offset' + (TWO_GIGA_BYTE - 1) < Size
  <2>1. (x + 1) * TWO_GIGA_BYTE <= Number * TWO_GIGA_BYTE
    BY <1>0, <1>4, TimesMonotone, SMT
  <2>2. (x + 1) * TWO_GIGA_BYTE = x * TWO_GIGA_BYTE + TWO_GIGA_BYTE
    BY <1>0, SMT
  <2>3. x * TWO_GIGA_BYTE \in Nat /\ Number * TWO_GIGA_BYTE \in Nat
    BY <1>0, SMT
  <2> QED BY <1>0, <1>3, <2>1, <2>2, <2>3, SMT
<1>6. cur_iter_offset' \in Nat
  BY <1>0, <1>3, SMT
<1> QED BY <1>3, <1>5, <1>6

\* fh_prep_write_unit keeps the invariant.
LEMMA FillPrepareStep ==
    ASSUME FInv, Fill!Prepare
    PROVE  FInv'
<1>0. /\ w_pc = "loop" /\ i < max_iter /\ i' = i /\ replaying' = replaying /\ log' = log
      /\ file' = file /\ asserted = FALSE
  BY DEF Fill!Prepare, Fill!args, FInv
<1>a. /\ ArgsOK /\ ArgsOK' /\ max_iter' = max_iter
      /\ Bytes' = Bytes /\ Writes' = Writes /\ Share' = Share /\ Number' = Number /\ Size' = Size
  <2>1. file_size' = file_size /\ max_iter' = max_iter
    BY DEF Fill!Prepare, Fill!args
  <2> QED BY <2>1, ArgsStay DEF FInv, ArgsOK
<1>1. Made(Bytes, log, Len(log), file)
  BY <1>0 DEF FInv
<1>2. Share \in Nat /\ Size \in Nat /\ 0 < Size /\ TWO_GIGA_BYTE \in Nat /\ TWO_GIGA_BYTE > 1
  BY ChunkFacts, ScriptFacts DEF FInv
<1>3. CASE ~ replaying /\ replay' = replay /\ Share > 0 /\ Fill!ChunkTurn
             /\ Fill!Draw(TWO_GIGA_BYTE - 1, cur_iter_offset')
  <2>1. /\ cur_iter_per_chunk' \in 0 .. Share /\ cur_iter_offset' \in Nat
        /\ cur_iter_offset' + (TWO_GIGA_BYTE - 1) < Size
        /\ \E k \in Nat : /\ cur_iter_offset' = k * TWO_GIGA_BYTE
                          /\ k * (Share + 1) + cur_iter_per_chunk' = i + 1
    BY <1>0, <1>3, TurnCounted
  <2>2. /\ wu' \in Writes
        /\ wu'.len \in 1 .. MAX_WRITE_SIZE /\ End(wu') <= Size
        /\ cur_iter_offset' <= wu'.off /\ wu'.off <= cur_iter_offset' + (TWO_GIGA_BYTE - 1)
        /\ asserted' = FALSE /\ w_pc' = "log" /\ w_ret' = w_ret
    <3>1. TWO_GIGA_BYTE - 1 \in Nat
      BY <1>2, SMT
    <3> QED BY <1>0, <1>a, <1>3, <2>1, <3>1, DrawInside
  <2>3. Counted'
    <3>1. Turns' = i + 1 /\ Share # 0
      BY <1>0, <1>3, <2>2, SMT DEF Turns
    <3> QED BY <1>a, <2>1, <3>1 DEF Counted
  <2>4. wu'.off \in Nat
    BY <2>2, SMT DEF Writes, Records, Bytes
  <2>5. Drawn'
    BY <1>2, <1>a, <2>1, <2>2, <2>4, SMT DEF Drawn
  <2> QED BY <1>0, <1>a, <1>1, <1>3, <2>1, <2>2, <2>3, <2>5 DEF FInv
<1>4. CASE ~ replaying /\ replay' = replay /\ Share = 0 /\ Size <= TWO_GIGA_BYTE
             /\ Fill!Draw(Size - 1, cur_iter_offset)
             /\ UNCHANGED <<cur_iter_offset, cur_iter_per_chunk>>
  <2>1. cur_iter_offset = 0 /\ Size - 1 \in Nat /\ 0 + (Size - 1) < Size
    BY <1>0, <1>2, <1>4, SMT DEF FInv, Counted
  <2>2. Fill!Draw(Size - 1, 0)
    BY <1>4, <2>1
  <2>3. /\ wu' \in Writes
        /\ wu'.len \in 1 .. MAX_WRITE_SIZE /\ End(wu') <= Size /\ 0 <= wu'.off
        /\ asserted' = FALSE /\ w_pc' = "log" /\ w_ret' = w_ret
    BY <1>0, <1>a, <2>1, <2>2, DrawInside
  <2>4. Counted' /\ Drawn'
    BY <1>2, <1>a, <1>4, <2>1, <2>3, SMT DEF Counted, Drawn
  <2> QED BY <1>0, <1>a, <1>1, <1>4, <2>3, <2>4 DEF FInv
<1>5. CASE ~ replaying /\ replay' = replay /\ Share = 0 /\ Size > TWO_GIGA_BYTE
             /\ asserted' = TRUE /\ Fill!Stop(1)
             /\ UNCHANGED <<cur_iter_offset, cur_iter_per_chunk, wu>>
  <2>1. log = <<>> /\ max_iter < Number
    BY <1>0, <1>a, <1>5, ChunkFacts DEF FInv, Counted
  <2> QED BY <1>0, <1>a, <1>1, <1>5, <2>1, SMT DEF FInv, Fill!Stop
<1>6. CASE replaying /\ replay = <<>> /\ Fill!Stop(1)
             /\ UNCHANGED <<wu, replay, cur_iter_offset, cur_iter_per_chunk, asserted>>
  BY <1>0, <1>a, <1>6, SMT DEF FInv, Fill!Stop
<1>7. CASE replaying /\ replay # <<>> /\ wu' = Head(replay) /\ replay' = Tail(replay)
             /\ w_pc' = "log" /\ w_ret' = w_ret
             /\ UNCHANGED <<cur_iter_offset, cur_iter_per_chunk, asserted>>
  <2>1. replay \in Seq(Writes)
    BY DEF FInv
  <2>2. wu' \in Writes /\ replay' \in Seq(Writes)
    BY <1>7, <2>1, SMT
  <2> QED BY <1>0, <1>a, <1>1, <1>7, <2>2 DEF FInv
<1>8. \/ ~ replaying /\ Fill!fh_prep_rand_write_unit /\ replay' = replay
      \/ /\ replaying
         /\ IF replay = <<>>
            THEN Fill!Stop(1) /\ UNCHANGED <<wu, replay>>
            ELSE wu' = Head(replay) /\ replay' = Tail(replay) /\ w_pc' = "log" /\ UNCHANGED w_ret
         /\ UNCHANGED <<cur_iter_offset, cur_iter_per_chunk, asserted>>
  BY DEF Fill!Prepare
<1> QED BY <1>3, <1>4, <1>5, <1>6, <1>7, <1>8 DEF Fill!fh_prep_rand_write_unit, Share, Size

\* Every step of fill_holes keeps the invariant.
LEMMA FillKeeps ==
    ASSUME FInv, [Fill!Next]_Fill!vars
    PROVE  FInv'
<1>0. log \in Seq(Writes) /\ Len(log) \in Nat /\ file \in [Bytes -> FileChars]
  BY SMT DEF FInv
<1>a. /\ ArgsOK /\ ArgsOK' /\ max_iter' = max_iter /\ replaying' = replaying
      /\ Bytes' = Bytes /\ Writes' = Writes /\ Share' = Share /\ Number' = Number /\ Size' = Size
  <2>1. UNCHANGED <<file_size, max_iter, replaying>>
    BY DEF Fill!Next, Fill!Step, Fill!Prepare, Fill!Finish, Fill!fh_log_write, Fill!fh_do_write,
           Fill!Done, Fill!vars, Fill!args
  <2> QED BY <2>1, ArgsStay DEF FInv, ArgsOK
<1>1. CASE Fill!Prepare
  BY <1>1, FillPrepareStep
<1>2. CASE Fill!Finish
  <2>1. /\ w_pc = "loop" /\ w_pc' = "done" /\ w_ret' = 0
        /\ UNCHANGED <<i, cur_iter_per_chunk, cur_iter_offset, wu, replay, log, file, asserted>>
    BY <1>2 DEF Fill!Finish, Fill!Stop
  <2>2. Made(Bytes, log, Len(log), file)
    BY <2>1 DEF FInv
  <2> QED BY <1>a, <2>1, <2>2, SMT DEF FInv
<1>3. CASE Fill!fh_log_write
  <2>1. /\ w_pc = "log" /\ log' = Append(log, wu) /\ w_pc' = "write"
        /\ UNCHANGED <<i, cur_iter_per_chunk, cur_iter_offset, wu, replay, file, w_ret, asserted>>
    BY <1>3 DEF Fill!fh_log_write
  <2>2. wu \in Writes /\ i < max_iter /\ Made(Bytes, log, Len(log), file) /\ asserted = FALSE
    BY <2>1 DEF FInv
  <2>3. /\ log' \in Seq(Writes) /\ Len(log') = Len(log) + 1 /\ log'[Len(log')] = wu
        /\ \A k \in 1 .. Len(log) : log[k] = log'[k]
    BY <1>0, <2>1, <2>2, SMT
  <2>4. Made(Bytes, log', Len(log') - 1, file')
    <3>1. Made(Bytes, log', Len(log), file)
      BY <1>0, <2>2, <2>3, MadeSame
    <3>2. Len(log') - 1 = Len(log) /\ file' = file
      BY <1>0, <2>1, <2>3, SMT
    <3> QED BY <1>a, <3>1, <3>2
  <2>5. ~ replaying => Counted' /\ Drawn'
    <3>1. ~ replaying => Counted /\ Drawn
      BY <2>1 DEF FInv
    <3>2. ~ replaying /\ Share = 0 => ~ (Size > TWO_GIGA_BYTE)
      BY <2>1, <3>1 DEF Counted
    <3> QED BY <1>a, <2>1, <3>1, <3>2 DEF Counted, Drawn, Turns
  <2>6. Len(log') > 0
    BY <1>0, <2>3, SMT
  <2> QED BY <1>a, <2>1, <2>2, <2>3, <2>4, <2>5, <2>6 DEF FInv
<1>4. CASE Fill!fh_do_write
  <2>1. /\ w_pc = "write"
        /\ UNCHANGED <<cur_iter_per_chunk, cur_iter_offset, wu, replay, log, asserted>>
        /\ wu \in Writes /\ i < max_iter /\ Len(log) > 0 /\ log[Len(log)] = wu
        /\ Made(Bytes, log, Len(log) - 1, file) /\ asserted = FALSE
    BY <1>4 DEF Fill!fh_do_write, FInv
  <2>2. CASE UNCHANGED <<file, i>> /\ Fill!Stop(1)
    BY <1>a, <2>1, <2>2, SMT DEF FInv, Fill!Stop
  <2>3. CASE /\ \E n \in 0 .. wu.len : /\ n < wu.len => FALSE
                                      /\ file' = Fill!ApplyWrite(file, [wu EXCEPT !.len = n])
             /\ i' = i + 1 /\ w_pc' = "loop" /\ w_ret' = w_ret
    <3>1. wu.len \in Nat /\ [wu EXCEPT !.len = wu.len] = wu /\ wu.ch \in Chars
      BY <2>1, SMT DEF Writes, Records
    <3>2. file' = ApplyWrite(file, wu)
      BY <2>3, <3>1, FillApplies, SMT
    <3>3. Made(Bytes, log, Len(log), file')
      <4>1. Len(log) - 1 \in Nat /\ (Len(log) - 1) + 1 = Len(log)
        BY <1>0, <2>1, SMT
      <4> QED BY <1>0, <2>1, <3>2, <4>1, MadeNext
    <3>4. file' \in [Bytes -> FileChars]
      BY <1>0, <3>1, <3>2 DEF ApplyWrite, Written, FileChars
    <3>5. i' \in 0 .. max_iter
      BY <1>a, <2>1, <2>3, SMT DEF FInv, ArgsOK
    <3>6. ~ replaying => Counted'
      <4>1. ~ replaying => Counted
        BY <2>1 DEF FInv
      <4> QED BY <1>a, <2>1, <2>3, <4>1 DEF Counted, Turns
    <3> QED BY <1>a, <2>1, <2>3, <3>3, <3>4, <3>5, <3>6 DEF FInv
  <2> QED BY <1>4, <2>2, <2>3 DEF Fill!fh_do_write
<1>5. CASE Fill!Done \/ UNCHANGED Fill!vars
  <2>1. UNCHANGED <<i, cur_iter_per_chunk, cur_iter_offset, wu, replay, log, file, w_pc, w_ret, asserted>>
    BY <1>5 DEF Fill!Done, Fill!vars
  <2>2. (Counted' <=> Counted) /\ (Drawn' <=> Drawn)
    BY <1>a, <2>1 DEF Counted, Drawn, Turns
  <2> QED BY <1>a, <2>1, <2>2 DEF FInv
<1> QED BY <1>1, <1>2, <1>3, <1>4, <1>5 DEF Fill!Next, Fill!Step

\* fill_holes and the script read a log in the same way.
LEMMA FillReads == \A l : Fill!LastWriterWins(Bytes, l) = LastWriterWins(Bytes, l)
<1>1. \A l, n, b : Fill!LastChar(l, n, b) = LastChar(l, n, b)
  BY DEF Fill!LastChar, Fill!Latest, Fill!Covers, Fill!End, Fill!NUL, LastChar, Latest, Covers, End, NUL
<1> QED BY <1>1 DEF Fill!LastWriterWins, LastWriterWins

\* The invariant says what the properties of fill_holes say.
LEMMA FillSays ==
    ASSUME FInv
    PROVE  /\ Fill!TypeOK /\ Fill!FileFollowsLog /\ Fill!WritesStayInFile
           /\ Fill!OnlySizeAssertFails /\ Fill!ChunkSchedule
<1>0. /\ log \in Seq(Writes) /\ Len(log) \in Nat /\ file \in [Bytes -> FileChars]
      /\ Bytes = Fill!Bytes
  BY SMT DEF FInv, Bytes, Fill!Bytes
<1>1. Fill!TypeOK
  BY <1>0 DEF FInv, Fill!TypeOK, Share
<1>2. Fill!FileFollowsLog
  <2>1. CASE w_pc = "write"
    <3> DEFINE done == SubSeq(log, 1, Len(log) - 1)
    <3>1. Len(log) - 1 \in Nat /\ Made(Bytes, log, Len(log) - 1, file)
      BY <1>0, <2>1, SMT DEF FInv
    <3>2. Len(done) = Len(log) - 1 /\ \A k \in 1 .. Len(log) - 1 : log[k] = done[k]
      <4>1. Len(log) - 1 \in 0 .. Len(log)
        BY <1>0, <3>1, SMT
      <4> QED BY <1>0, <4>1, FrontOf
    <3> HIDE DEF done
    <3>3. Made(Bytes, done, Len(log) - 1, file)
      BY <3>1, <3>2, MadeSame
    <3>4. file = LastWriterWins(Bytes, done)
      BY <1>0, <3>1, <3>2, <3>3, MadeWins
    <3> QED BY <1>0, <2>1, <3>4, FillReads DEF Fill!FileFollowsLog, done
  <2>2. CASE w_pc # "write" /\ (w_pc # "done" \/ w_ret = 0)
    <3>1. Made(Bytes, log, Len(log), file)
      BY <2>2 DEF FInv
    <3>2. file = LastWriterWins(Bytes, log)
      BY <1>0, <3>1, MadeWins
    <3> QED BY <1>0, <2>2, <3>2, FillReads DEF Fill!FileFollowsLog
  <2>3. CASE w_pc = "done" /\ w_ret # 0
    BY <2>3 DEF Fill!FileFollowsLog
  <2> QED BY <2>1, <2>2, <2>3
<1>3. ASSUME w_pc \in {"log", "write"}, ~ replaying
      PROVE  Drawn /\ Counted /\ wu \in Writes
  BY <1>3 DEF FInv
<1>4. Fill!WritesStayInFile
  <2> SUFFICES ASSUME w_pc \in {"log", "write"}, ~ replaying
               PROVE  wu.off >= 0 /\ Fill!End(wu) <= Size /\ wu.len \in 1 .. MAX_WRITE_SIZE
    BY DEF Fill!WritesStayInFile, Size
  <2>1. wu.off \in Nat
    BY <1>3, SMT DEF Writes, Records, Bytes
  <2> QED BY <1>3, <2>1, SMT DEF Drawn, End, Fill!End
<1>5. Fill!OnlySizeAssertFails
  BY DEF FInv, Fill!OnlySizeAssertFails, Number
<1>6. Fill!ChunkSchedule
  <2> SUFFICES ASSUME w_pc \in {"log", "write"}, ~ replaying, Share > 0
               PROVE  wu.off \div TWO_GIGA_BYTE = (i + 1) \div (Share + 1)
    BY DEF Fill!ChunkSchedule, Share
  <2>0. /\ Share \in Nat /\ TWO_GIGA_BYTE \in Nat \ {0} /\ Share + 1 \in Nat \ {0}
        /\ cur_iter_per_chunk \in 0 .. (Share + 1) - 1 /\ wu.off \in Nat
    <3>1. Share \in Nat /\ TWO_GIGA_BYTE \in Nat \ {0} /\ cur_iter_per_chunk \in 0 .. Share
      BY ChunkFacts, ScriptFacts, SMT DEF FInv, ArgsOK
    <3>2. wu.off \in Nat
      BY <1>3, SMT DEF Writes, Records, Bytes
    <3>3. Share + 1 \in Nat \ {0} /\ (Share + 1) - 1 = Share
      BY <3>1, SMT
    <3> QED BY <3>1, <3>2, <3>3
  <2>1. PICK k \in Nat : /\ cur_iter_offset = k * TWO_GIGA_BYTE
                         /\ k * (Share + 1) + cur_iter_per_chunk = i + 1
    BY <1>3 DEF Counted, Turns
  <2>2. (i + 1) \div (Share + 1) = k
    BY <2>0, <2>1, DivOf
  <2>3. PICK r \in 0 .. TWO_GIGA_BYTE - 1 : wu.off = k * TWO_GIGA_BYTE + r
    <3>1. cur_iter_offset \in Nat /\ cur_iter_offset <= wu.off /\ wu.off < cur_iter_offset + TWO_GIGA_BYTE
      BY <1>3 DEF Drawn, FInv
    <3>2. /\ wu.off - cur_iter_offset \in 0 .. TWO_GIGA_BYTE - 1
          /\ wu.off = cur_iter_offset + (wu.off - cur_iter_offset)
      BY <2>0, <3>1, SMT
    <3> QED BY <2>1, <3>2
  <2>4. wu.off \div TWO_GIGA_BYTE = k
    BY <2>0, <2>3, DivOf
  <2> QED BY <2>2, <2>4
<1> QED BY <1>1, <1>2, <1>4, <1>5, <1>6

\* What a replay log holds is what a log of fill_holes holds.
LEMMA FillUnits == Fill!Units = Writes
BY DEF Fill!Units, Writes, Records, Fill!Bytes, Bytes, Fill!End, End

\* fill_holes starts in the invariant.
LEMMA FillStarts == ASSUME Fill!Init PROVE FInv
<1>0. ArgsOK
  BY DEF Fill!Init, ArgsOK
<1>1. /\ i = 0 /\ cur_iter_per_chunk = 0 /\ cur_iter_offset = 0 /\ replaying \in BOOLEAN
      /\ log = <<>> /\ file = [b \in Bytes |-> NUL] /\ w_pc = "loop" /\ w_ret = 0 /\ asserted = FALSE
  BY DEF Fill!Init, Fill!Bytes, Bytes, Fill!NUL, NUL
<1>2. replay \in Seq(Writes) /\ log \in Seq(Writes) /\ Len(log) = 0
  BY <1>1, FillUnits, SMT DEF Fill!Init
<1>3. max_iter \in Nat /\ Share \in Nat /\ TWO_GIGA_BYTE \in Nat
  BY <1>0, ChunkFacts, ScriptFacts DEF ArgsOK
<1>4. Counted
  <2>1. 0 = 0 * TWO_GIGA_BYTE /\ 0 * (Share + 1) + 0 = 0
    BY <1>3, SMT
  <2>2. \E k \in Nat : cur_iter_offset = k * TWO_GIGA_BYTE /\ k * (Share + 1) + cur_iter_per_chunk = Turns
    BY <1>1, <2>1 DEF Turns
  <2> QED BY <1>1, <2>2 DEF Counted
<1>5. Made(Bytes, log, Len(log), file)
  BY <1>1, <1>2, MadeNothing
<1>6. file \in [Bytes -> FileChars]
  BY <1>1 DEF FileChars
<1>7. i \in 0 .. max_iter /\ cur_iter_per_chunk \in 0 .. Share /\ cur_iter_offset \in Nat
  BY <1>1, <1>3, SMT
<1>8. w_ret \in 0 .. 1 /\ w_pc \in {"loop", "log", "write", "done"} /\ w_pc \notin {"log", "write"}
  BY <1>1, SMT
<1> QED BY <1>0, <1>1, <1>2, <1>4, <1>5, <1>6, <1>7, <1>8 DEF FInv

\* fill_holes, for every size, number of iterations and replay log: each record is
\* logged before it is written and describes it, no write leaves the file, the
\* chunks get their turns in order, and only the assert on the size can fail.
THEOREM FillHolesCorrect ==
    Fill!Spec => [](/\ Fill!TypeOK /\ Fill!FileFollowsLog /\ Fill!WritesStayInFile
                           /\ Fill!OnlySizeAssertFails /\ Fill!ChunkSchedule)
<1>1. Fill!Init => FInv
  BY FillStarts
<1>2. FInv /\ [Fill!Next]_Fill!vars => FInv'
  BY FillKeeps
<1>3. FInv => /\ Fill!TypeOK /\ Fill!FileFollowsLog /\ Fill!WritesStayInFile
              /\ Fill!OnlySizeAssertFails /\ Fill!ChunkSchedule
  BY FillSays
<1> QED BY <1>1, <1>2, <1>3, PTL DEF Fill!Spec

-----------------------------------------------------------------------------
(* The script. *)

\* verify_holes has not been started.
Idle == line = 0 /\ tree = {} /\ chunk = None /\ pc = "init" /\ ret = 0

\* The file is what the log says.
Agrees == file = LastWriterWins(Bytes, AsRead(log))

\* What holds while verify_holes runs.
Verifies == IInv /\ (file_size < LenMod => VInv) /\ VerdictIsExact

\* The inductive invariant of the script: the writer's own, then a log and a file
\* that agree, then verify_holes' own and whether they still do.
SInv ==
    /\ stage \in {"write", "remount", "verify", "done"}
    /\ damaged \in BOOLEAN
    /\ stage \in {"write", "remount"} => Idle
    /\ stage = "write" => FInv
    /\ stage \in {"remount", "verify"} => log \in Seq(Records)
    /\ stage = "remount" => file_size \in Nat /\ file \in [Bytes -> FileChars] /\ Agrees
    /\ stage = "verify" => Verifies /\ (damaged <=> ~ Agrees)
    /\ FailureMeansDamage

\* A log of whole records has no line that cannot be read.
LEMMA RecordsAreGood ==
    ASSUME file_size \in Nat, NEW l \in Seq(Records)
    PROVE  l \in Seq(Records \cup {BadLine}) /\ \A n \in 1 .. Len(l) : l[n] # BadLine
<1>1. \A r \in Records : r # BadLine
  BY SMT DEF Records, BadLine
<1> QED BY <1>1, SMT

\* What verify_holes starts from.
LEMMA InitVerifies == Init => Verifies
BY InitIInv, InitVInv DEF Init, VerdictIsExact, Over, Verifies

\* What a writer that ends with 0 leaves.
LEMMA WriterLeaves ==
    ASSUME SInv, stage = "write", w_pc = "done", w_ret = 0
    PROVE  /\ log \in Seq(Records) /\ file_size \in Nat /\ file \in [Bytes -> FileChars] /\ Agrees
<1>1. /\ FInv /\ log \in Seq(Writes) /\ Len(log) \in Nat /\ file_size \in Nat
      /\ file \in [Bytes -> FileChars] /\ Made(Bytes, log, Len(log), file)
  BY SMT DEF SInv, FInv, ArgsOK
<1>2. log \in Seq(Records) /\ \A n \in 1 .. Len(log) : log[n] \in Records /\ log[n].ch \in Chars
  BY <1>1, SMT DEF Writes
<1>3. AsRead(log) = log
  <2>1. \A n \in 1 .. Len(log) : [log[n] EXCEPT !.ch = HoleChar(@)] = log[n]
    BY <1>2, ScriptFacts DEF Records, HoleChar
  <2>2. DOMAIN log = 1 .. Len(log) /\ log = [n \in 1 .. Len(log) |-> log[n]]
    BY <1>2, SMT
  <2>3. AsRead(log) = [n \in 1 .. Len(log) |-> [log[n] EXCEPT !.ch = HoleChar(@)]]
    BY <2>2 DEF AsRead
  <2>4. AsRead(log) = [n \in 1 .. Len(log) |-> log[n]]
    BY <2>1, <2>3
  <2> QED BY <2>2, <2>4
<1>4. file = LastWriterWins(Bytes, log)
  BY <1>1, MadeWins
<1> QED BY <1>1, <1>2, <1>3, <1>4 DEF Agrees

\* The script starts in the invariant.
LEMMA ScriptStarts == ASSUME ScriptInit PROVE SInv
<1>1. Idle /\ stage = "write" /\ damaged = FALSE
  BY DEF ScriptInit, Idle
<1>2. FInv
  BY FillStarts DEF ScriptInit
<1> QED BY <1>1, <1>2 DEF SInv, FailureMeansDamage

\* Every step of the script keeps it.
LEMMA ScriptKeeps == ASSUME SInv, [ScriptNext]_scriptVars PROVE SInv'
<1>1. CASE WriterStep
  <2>1. stage = "write" /\ UNCHANGED <<script, verify>>
    BY <1>1 DEF WriterStep
  <2>2. UNCHANGED <<stage, damaged, status, line, tree, chunk, pc, ret>>
    BY <2>1 DEF script, verify
  <2>3. FInv'
    <3>1. FInv /\ Fill!Step
      BY <1>1, <2>1 DEF SInv, WriterStep
    <3>2. [Fill!Next]_Fill!vars
      BY <3>1 DEF Fill!Next
    <3> QED BY <3>1, <3>2, FillKeeps
  <2>4. Idle'
    BY <2>1, <2>2 DEF SInv, Idle
  <2> QED BY <2>1, <2>2, <2>3, <2>4 DEF SInv, FailureMeansDamage
<1>2. CASE WriterEnds
  <2>1. stage = "write" /\ w_pc = "done" /\ UNCHANGED <<damaged, data, verify>>
    BY <1>2 DEF WriterEnds
  <2>2. UNCHANGED <<damaged, file_size, log, file, line, tree, chunk, pc, ret>>
    BY <2>1 DEF data, verify
  <2>3. Idle' /\ pc' = "init"
    BY <2>1, <2>2 DEF SInv, Idle
  <2>4. CASE w_ret # 0
    <3>1. stage' = "done" /\ status' = 1
      BY <1>2, <2>4 DEF WriterEnds
    <3> QED BY <2>2, <2>3, <3>1, SMT DEF SInv, FailureMeansDamage
  <2>5. CASE w_ret = 0
    <3>1. stage' = "remount"
      BY <1>2, <2>5 DEF WriterEnds
    <3>2. log \in Seq(Records) /\ file_size \in Nat /\ file \in [Bytes -> FileChars] /\ Agrees
      BY <2>1, <2>5, WriterLeaves
    <3>3. Bytes' = Bytes /\ Records' = Records
      BY <2>2 DEF Bytes, Records
    <3>4. Agrees'
      BY <2>2, <3>2, <3>3 DEF Agrees, AsRead
    <3> QED BY <2>2, <2>3, <3>1, <3>2, <3>3, <3>4 DEF SInv, FailureMeansDamage
  <2> QED BY <2>4, <2>5
<1>3. CASE Remount
  <2>1. stage = "remount" /\ UNCHANGED <<file_size, log, line, tree, chunk, pc, ret>>
    BY <1>3 DEF Remount, verify
  <2>2. /\ Idle /\ log \in Seq(Records) /\ file_size \in Nat /\ file \in [Bytes -> FileChars] /\ Agrees
    BY <2>1 DEF SInv
  <2>3. Idle' /\ pc' = "init" /\ Bytes' = Bytes /\ Records' = Records
    BY <2>1, <2>2 DEF Idle, Bytes, Records
  <2>4. CASE stage' = "done" /\ status' = 1 /\ UNCHANGED <<file, damaged>>
    BY <2>1, <2>3, <2>4, SMT DEF SInv, FailureMeansDamage
  <2>5. CASE /\ \/ UNCHANGED file
                \/ \E b \in DOMAIN file, c \in Chars \cup {NUL} : file' = [file EXCEPT ![b] = c]
             /\ damaged' = (file' # file) /\ stage' = "verify"
    <3>1. file' \in [Bytes -> FileChars]
      BY <2>2, <2>5 DEF FileChars
    <3>2. log \in Seq(Records \cup {BadLine})
      BY <2>2, RecordsAreGood
    <3>3. Init'
      BY <2>1, <2>2, <2>3, <3>1, <3>2 DEF Init, Idle
    <3>4. (Init => Verifies)'
      BY InitVerifies, PTL
    <3>5. LastWriterWins(Bytes, AsRead(log))' = file
      BY <2>1, <2>2, <2>3 DEF Agrees, AsRead
    <3>6. damaged' \in BOOLEAN /\ (damaged' <=> ~ Agrees')
      BY <2>5, <3>5 DEF Agrees
    <3> QED BY <2>1, <2>2, <2>3, <2>5, <3>3, <3>4, <3>6 DEF SInv, FailureMeansDamage
  <2> QED BY <1>3, <2>4, <2>5 DEF Remount
<1>4. CASE VerifyStep
  <2>1. stage = "verify" /\ Step /\ UNCHANGED <<stage, damaged, status>>
    BY <1>4 DEF VerifyStep, script
  <2>2. [Next]_vars
    BY <2>1 DEF Next
  <2>3. log \in Seq(Records) /\ Verifies /\ (damaged <=> ~ Agrees)
    BY <2>1 DEF SInv
  <2>4. log' = log /\ file_size' = file_size /\ Bytes' = Bytes /\ Records' = Records
    BY <2>2, SizeStays
  <2>5. file' = file
    BY <2>1 DEF Step, vh_init_tree, vh_read_log, Insert, Link, vh_check_file, CallFails
  <2>6. Verifies'
    BY <2>2, <2>3, <2>4, NextIInv, NextVInv, NextVerdict DEF Verifies
  <2>7. Agrees' = Agrees
    BY <2>4, <2>5 DEF Agrees, AsRead
  <2> QED BY <2>1, <2>3, <2>4, <2>6, <2>7 DEF SInv, FailureMeansDamage
<1>5. CASE VerifyEnds
  <2>1. /\ stage = "verify" /\ Over /\ stage' = "done" /\ status' = IF ret # 0 THEN 1 ELSE 0
        /\ UNCHANGED <<damaged, file_size, log, file, line, tree, chunk, pc, ret>>
    BY <1>5 DEF VerifyEnds, data, verify
  <2>2. log \in Seq(Records) /\ Verifies /\ (damaged <=> ~ Agrees)
    BY <2>1 DEF SInv
  <2>3. file_size \in Nat
    BY <2>2 DEF Verifies, IInv, TypeOK
  <2>4. \A n \in 1 .. Len(log) : log[n] # BadLine
    BY <2>2, <2>3, RecordsAreGood
  <2>5. file_size < LenMod => (ret = 0 <=> pc = "done" /\ Agrees)
    BY <2>1, <2>2, <2>4 DEF Verifies, VerdictIsExact, Agrees
  <2>6. FailureMeansDamage'
    BY <2>1, <2>2, <2>5, SMT DEF FailureMeansDamage
  <2> QED BY <2>1, <2>6 DEF SInv
<1>6. CASE UNCHANGED scriptVars
  <2>1. /\ UNCHANGED <<stage, damaged, status, file_size, log, file, line, tree, chunk, pc, ret>>
        /\ UNCHANGED fill
    BY <1>6 DEF scriptVars, script, data, verify
  <2>2. stage = "write" => FInv'
    <3>1. UNCHANGED Fill!vars
      BY <2>1 DEF fill, Fill!vars, Fill!args
    <3> QED BY <3>1, FillKeeps DEF SInv
  <2>3. UNCHANGED vars /\ Bytes' = Bytes /\ Records' = Records
    BY <2>1 DEF vars, Bytes, Records
  <2>4. stage = "verify" => Verifies'
    BY <2>1, <2>3, NextIInv, NextVInv, NextVerdict DEF SInv, Verifies
  <2>5. Agrees' = Agrees /\ Idle' = Idle
    BY <2>1, <2>3 DEF Agrees, AsRead, Idle
  <2>6. FailureMeansDamage'
    BY <2>1 DEF SInv, FailureMeansDamage
  <2> QED BY <2>1, <2>2, <2>3, <2>4, <2>5, <2>6 DEF SInv
<1> QED BY <1>1, <1>2, <1>3, <1>4, <1>5, <1>6 DEF ScriptNext, ScriptStep

\* The script reaches no state outside its invariant.
LEMMA ScriptInvariant == ScriptSpec => []SInv
<1>1. ScriptInit => SInv
  BY ScriptStarts
<1>2. SInv /\ [ScriptNext]_scriptVars => SInv'
  BY ScriptKeeps
<1> QED BY <1>1, <1>2, PTL DEF ScriptSpec

\* fill_holes logs before it writes, draws its writes at random, cuts them to the
\* file, or replays a log: for every size of the file and every number of
\* iterations, log and file agree up to the pending write, and no drawn write
\* leaves the file.
THEOREM LogsAreFollowed == ScriptSpec => []FileFollowsLog
<1>1. SInv => FileFollowsLog
  BY FillSays DEF SInv, FileFollowsLog
<1> QED BY <1>1, ScriptInvariant, PTL

\* fill_holes gives every chunk of 2 GiB its turns in order, for every size and
\* number of iterations, and fails no assert but the one on the size.
THEOREM ChunksTakeTurns == ScriptSpec => []ChunkSchedule
<1>1. SInv => ChunkSchedule
  BY FillSays DEF SInv, ChunkSchedule
<1> QED BY <1>1, ScriptInvariant, PTL

\* The script as a whole: it succeeds exactly when the verification ran and the
\* file system has changed no byte, whatever was written, for every
\* file smaller than 4 GiB.
THEOREM ScriptFindsDamage == ScriptSpec => []FailureMeansDamage
<1>1. SInv => FailureMeansDamage
  BY DEF SInv
<1> QED BY <1>1, ScriptInvariant, PTL

\* A log that is being written holds whole records.
LEMMA WritersLog == SInv /\ stage = "write" => log \in Seq(Records) /\ file_size \in Nat
<1> SUFFICES ASSUME SInv, stage = "write" PROVE log \in Seq(Records) /\ file_size \in Nat
  OBVIOUS
<1>1. log \in Seq(Writes) /\ file_size \in Nat
  BY DEF SInv, FInv, ArgsOK
<1> QED BY <1>1, SMT DEF Writes

\* A step of the script as the byte map sees it: the log grows before its first
\* record is read, then the records are taken in their order.
LEMMA ScriptSimulates ==
    ASSUME SInv, [ScriptNext]_scriptVars
    PROVE  [Map!WriteLog \/ Map!NextRecord]_<<file_size, AsRead(log), line, [b \in Bytes |-> CharOf(b)]>>
<1>1. CASE WriterStep
  <2>1. /\ stage = "write" /\ UNCHANGED <<stage, damaged, status, line, tree, chunk, pc, ret>>
    BY <1>1 DEF WriterStep, script, verify
  <2>2. file_size' = file_size
    <3>1. Fill!Step
      BY <1>1 DEF WriterStep
    <3> QED BY <3>1 DEF Fill!Step, Fill!Prepare, Fill!Finish, Fill!fh_log_write, Fill!fh_do_write, Fill!args
  <2>3. Bytes' = Bytes /\ Records' = Records /\ line = 0
    BY <2>1, <2>2 DEF Bytes, Records, SInv, Idle
  <2>4. UNCHANGED [b \in Bytes |-> CharOf(b)]
    BY <2>1, <2>3 DEF CharOf
  <2>5. log' \in Seq(Records) /\ file_size \in Nat
    <3>1. SInv'
      BY ScriptKeeps
    <3>2. (SInv /\ stage = "write" => log \in Seq(Records) /\ file_size \in Nat)'
      BY WritersLog, PTL
    <3> QED BY <2>1, <2>2, <2>3, <3>1, <3>2
  <2>6. AsRead(log)' \in Map!Logs
    <3>1. log' \in Seq(Records \cup {BadLine})
      BY <2>5, RecordsAreGood
    <3>2. AsRead(log') \in Map!Logs
      BY <2>5, <3>1, AsReadLog
    <3> QED BY <3>2 DEF AsRead
  <2> QED BY <2>1, <2>2, <2>3, <2>4, <2>6 DEF Map!WriteLog
<1>2. CASE VerifyStep
  <2>1. IInv /\ [Next]_vars
    BY <1>2 DEF VerifyStep, SInv, Verifies, Next
  <2> QED BY <2>1, StepSimulates
<1>3. CASE WriterEnds \/ Remount \/ VerifyEnds \/ UNCHANGED scriptVars
  <2>1. UNCHANGED <<file_size, log, line, tree, chunk>>
    BY <1>3 DEF WriterEnds, Remount, VerifyEnds, scriptVars, data, verify
  <2>2. Bytes' = Bytes /\ UNCHANGED AsRead(log)
    BY <2>1 DEF Bytes, AsRead
  <2> QED BY <2>1, <2>2 DEF CharOf
<1> QED BY <1>1, <1>2, <1>3 DEF ScriptNext, ScriptStep

\* Over the whole turn of the script the extent tree implements the byte map of
\* the log (verify_holes.c:420), the writing of the log included.
THEOREM ScriptReadsTheMap == ScriptSpec => LastRecordWins
<1>1. ScriptInit => Map!Init
  <2> SUFFICES ASSUME ScriptInit PROVE Map!Init
    OBVIOUS
  <2>1. SInv /\ stage = "write" /\ line = 0 /\ tree = {} /\ chunk = None
    BY ScriptStarts DEF ScriptInit
  <2>2. log \in Seq(Records) /\ file_size \in Nat
    BY <2>1, WritersLog
  <2>3. AsRead(log) \in Map!Logs
    BY <2>2, RecordsAreGood, AsReadLog
  <2>4. [b \in Bytes |-> CharOf(b)] = [b \in 0 .. file_size - 1 |-> NUL]
    BY <2>1 DEF CharOf, Bytes
  <2> QED BY <2>1, <2>2, <2>3, <2>4 DEF Map!Init, Map!NUL, NUL
<1>2. SInv /\ [ScriptNext]_scriptVars =>
          [Map!WriteLog \/ Map!NextRecord]_<<file_size, AsRead(log), line, [b \in Bytes |-> CharOf(b)]>>
  BY ScriptSimulates
<1> QED BY <1>1, <1>2, ScriptInvariant, PTL DEF ScriptSpec, LastRecordWins, Map!Spec
=============================================================================
