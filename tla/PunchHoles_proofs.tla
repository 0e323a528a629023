------------------------- MODULE PunchHoles_proofs --------------------------
(***************************************************************************)
(* Proofs about two programs that make holes, each for every size and      *)
(* number of iterations.  punch_holes: the log says what the file is, no   *)
(* drawn operation leaves the file, and a log given back is repeated       *)
(* record by record.  verify_truncate: what it compares is what the file   *)
(* must hold, and what it accepts is right but for the cluster it leaves   *)
(* out.                                                                    *)
(***************************************************************************)
EXTENDS PunchHoles, VerifyTruncate, TLAPS

\* Zenon is the prover of a leaf that names none.
USE Zenon

-----------------------------------------------------------------------------
(* punch_holes. *)

ArgsOK == p_size \in Nat \ {0} /\ p_max_iter \in Nat

PunchChars == Chars \cup {NUL}

\* The records of writes and holes inside the file.
PunchRecords ==
    {u \in [ch : Chars \cup {MAGIC_HOLE_CHAR}, off : PunchBytes, len : 1 .. p_size] :
        End(u) <= p_size}

\* The arguments stay as they are, and with them all that is computed from them.
LEMMA ArgsStay ==
    ASSUME p_size' = p_size
    PROVE  PunchBytes' = PunchBytes /\ PunchRecords' = PunchRecords
BY DEF PunchBytes, PunchRecords

\* f holds what the first n records of l make of a file of zeros.
Made(B, l, n, f) ==
    \A b \in B :
        \/ f[b] = NUL /\ \A k \in 1 .. n : ~ Covers(l[k], b)
        \/ \E k \in 1 .. n : /\ Covers(l[k], b) /\ f[b] = l[k].ch
                            /\ \A m \in k + 1 .. n : ~ Covers(l[m], b)

\* Made, the form that later writes preserve, is what LastWriterWins says.
LEMMA MadeWins ==
    ASSUME NEW B, NEW l, NEW n \in Nat, Len(l) = n, NEW S, NEW f \in [B -> S], Made(B, l, n, f)
    PROVE  f = LastWriterWins(B, l)
<1>1. ASSUME NEW b \in B PROVE f[b] = LastChar(l, n, b)
  <2> DEFINE covering == {k \in 1 .. n : Covers(l[k], b)}
  <2>1. CASE f[b] = NUL /\ \A k \in 1 .. n : ~ Covers(l[k], b)
    <3>1. covering = {}
      BY <2>1
    <3> QED BY <2>1, <3>1 DEF LastChar
  <2>2. CASE \E k \in 1 .. n : /\ Covers(l[k], b) /\ f[b] = l[k].ch
                              /\ \A m \in k + 1 .. n : ~ Covers(l[m], b)
    <3>1. PICK k \in 1 .. n : /\ Covers(l[k], b) /\ f[b] = l[k].ch
                              /\ \A m \in k + 1 .. n : ~ Covers(l[m], b)
      BY <2>2
    <3>2. k \in covering /\ \A m \in covering : m <= k
      BY <3>1, SMT
    <3>3. \A j \in covering : (\A m \in covering : m <= j) => j = k
      BY <3>2, SMT
    <3>4. Latest(covering) = k
      BY <3>2, <3>3 DEF Latest
    <3> QED BY <3>1, <3>2, <3>4 DEF LastChar
  <2> QED BY <1>1, <2>1, <2>2 DEF Made
<1>2. LastWriterWins(B, l) = [b \in B |-> LastChar(l, n, b)]
  BY DEF LastWriterWins
<1> QED BY <1>1, <1>2

\* The next write makes the next file.
LEMMA MadeNext ==
    ASSUME NEW B, NEW l, NEW n \in Nat, NEW S, NEW f \in [B -> S], Made(B, l, n, f)
    PROVE  Made(B, l, n + 1, ApplyWrite(f, l[n + 1]))
<1> DEFINE g == ApplyWrite(f, l[n + 1])
<1>1. SUFFICES ASSUME NEW b \in B
               PROVE  \/ g[b] = NUL /\ \A k \in 1 .. n + 1 : ~ Covers(l[k], b)
                      \/ \E k \in 1 .. n + 1 : /\ Covers(l[k], b) /\ g[b] = l[k].ch
                                              /\ \A m \in k + 1 .. n + 1 : ~ Covers(l[m], b)
  BY DEF Made
<1>2. g[b] = IF Covers(l[n + 1], b) THEN l[n + 1].ch ELSE f[b]
  BY DEF ApplyWrite, Written
<1> HIDE DEF g
<1>3. CASE Covers(l[n + 1], b)
  <2>1. n + 1 \in 1 .. n + 1 /\ \A m \in (n + 1) + 1 .. n + 1 : ~ Covers(l[m], b)
    BY SMT
  <2> QED BY <1>2, <1>3, <2>1
<1>4. CASE ~ Covers(l[n + 1], b) /\ f[b] = NUL /\ \A k \in 1 .. n : ~ Covers(l[k], b)
  <2>1. \A k \in 1 .. n + 1 : k \in 1 .. n \/ k = n + 1
    BY SMT
  <2> QED BY <1>2, <1>4, <2>1
<1>5. CASE /\ ~ Covers(l[n + 1], b)
           /\ \E k \in 1 .. n : /\ Covers(l[k], b) /\ f[b] = l[k].ch
                               /\ \A m \in k + 1 .. n : ~ Covers(l[m], b)
  <2>1. PICK k \in 1 .. n : /\ Covers(l[k], b) /\ f[b] = l[k].ch
                            /\ \A m \in k + 1 .. n : ~ Covers(l[m], b)
    BY <1>5
  <2>2. k \in 1 .. n + 1 /\ \A m \in k + 1 .. n + 1 : m \in k + 1 .. n \/ m = n + 1
    BY SMT
  <2> QED BY <1>2, <1>5, <2>1, <2>2
<1> QED BY <1>3, <1>4, <1>5 DEF Made

\* Logs that agree make the same file.
LEMMA MadeSame ==
    ASSUME NEW B, NEW l, NEW o, NEW n \in Nat, NEW f, \A k \in 1 .. n : l[k] = o[k], Made(B, l, n, f)
    PROVE  Made(B, o, n, f)
<1>1. \A k \in 1 .. n : \A m \in k + 1 .. n : m \in 1 .. n
  BY SMT
<1> QED BY <1>1, SMT DEF Made

\* Before the first write the file is zeros.
LEMMA MadeNothing == ASSUME NEW B, NEW l PROVE Made(B, l, 0, [b \in B |-> NUL])
BY SMT DEF Made


\* The first n records of a log.
LEMMA FrontOf ==
    ASSUME NEW S, NEW l \in Seq(S), NEW n \in 0 .. Len(l)
    PROVE  /\ SubSeq(l, 1, n) \in Seq(S) /\ Len(SubSeq(l, 1, n)) = n
           /\ \A k \in 1 .. n : l[k] = SubSeq(l, 1, n)[k]
BY SMT

\* Where ph_prep_file goes on after the first k records of l.
NextStart(l, k) == IF k = 0 THEN 0 ELSE l[k].off + End(l[k])

\* The log of a run, or the beginning of one: f records of the filling, each where
\* the one before it has sent it, then at most max holes, and no hole before the
\* end of the file of this size is passed.
Shape(size, max, l, f) ==
    /\ f \in 0 .. Len(l)
    /\ \A k \in 1 .. f : l[k].ch \in Chars /\ l[k].off = NextStart(l, k - 1) /\ l[k].off < size
    /\ \A k \in f + 1 .. Len(l) : l[k].ch = MAGIC_HOLE_CHAR
    /\ f < Len(l) => NextStart(l, f) >= size
    /\ Len(l) <= f + max

FillPcs == {"open", "fill", "fill_log", "fill_write"}
PunchPcs == {"loop", "log", "punch"}
Logged == {"fill_write", "punch"}     \* the operation of the last record is pending

\* A first run has filled f records of its log.
First(f) ==
    /\ Shape(p_size, p_max_iter, p_log, f)
    /\ p_pc \in FillPcs => f = Len(p_log) /\ p_i = 0
    /\ p_pc \in {"open", "fill", "fill_log"} => p_start = NextStart(p_log, f)
    /\ p_pc = "fill_log" => p_wu.off = p_start
    /\ p_pc = "fill_write" => p_start = NextStart(p_log, f - 1)
    /\ p_pc \in PunchPcs => NextStart(p_log, f) >= p_size
    /\ p_pc \in {"loop", "log"} => Len(p_log) = f + p_i
    /\ p_pc = "punch" => Len(p_log) = f + p_i + 1
    /\ p_pc \in {"fill_log", "fill_write", "log", "punch"} => p_wu.len <= MAX_WRITE_SIZE

\* The records a replay has taken from the given log.
Taken == IF p_pc \in {"fill_log", "log"} THEN Len(p_log) + 1 ELSE Len(p_log)

\* A replay has repeated what its log holds of the records of the given one, in
\* which the first g are of the filling.
Second(g) ==
    /\ Shape(p_size, p_max_iter, given, g)
    /\ \A k \in 1 .. Len(p_log) : p_log[k] = given[k]
    /\ Taken <= Len(given) /\ p_replay = SubSeq(given, Taken + 1, Len(given))
    /\ p_pc \in {"fill_log", "log"} => p_wu = given[Taken]
    /\ p_pc \in FillPcs => Taken <= g /\ p_i = 0
    /\ p_pc \in {"open", "fill", "fill_log"} => p_start = NextStart(given, Len(p_log))
    /\ p_pc = "fill_write" => p_start = NextStart(given, Len(p_log) - 1)
    /\ p_pc \in {"loop", "log"} => Len(p_log) = g + p_i
    /\ p_pc = "punch" => Len(p_log) = g + p_i + 1
    /\ p_pc = "done" /\ p_ret = 0 => Len(p_log) = Len(given)

\* What both runs have in common.
Common ==
    /\ ArgsOK
    /\ p_start \in Nat /\ p_i \in 0 .. p_max_iter
    /\ p_pc \in FillPcs \cup PunchPcs \cup {"done"} /\ p_ret \in 0 .. 1 /\ p_replaying \in BOOLEAN
    /\ p_log \in Seq(PunchRecords) /\ given \in Seq(PunchRecords) /\ p_file \in [PunchBytes -> PunchChars]
    /\ p_pc = "open" => p_log = <<>>
    /\ p_pc \in {"fill_log", "fill_write", "log", "punch"} => p_wu \in PunchRecords
    /\ p_pc \in {"fill_log", "fill_write"} => p_wu.ch \in Chars
    /\ p_pc \in {"log", "punch"} => p_wu.ch = MAGIC_HOLE_CHAR /\ p_i < p_max_iter
    /\ p_pc \in Logged => Len(p_log) > 0 /\ p_log[Len(p_log)] = p_wu
    /\ p_pc \in Logged => Made(PunchBytes, AsRead(p_log), Len(p_log) - 1, p_file)
    /\ p_pc \notin Logged /\ (p_pc # "done" \/ p_ret = 0) => Made(PunchBytes, AsRead(p_log), Len(p_log), p_file)

\* The inductive invariant of punch_holes.
PInv == Common /\ IF p_replaying THEN \E g \in Nat : Second(g) ELSE \E f \in Nat : First(f)

-----------------------------------------------------------------------------
(* Lemmas about logs. *)

\* A write joins a log that is all filling.
LEMMA ShapeWrite ==
    ASSUME NEW size \in Nat, NEW max \in Nat, NEW l \in Seq(PunchRecords), NEW u \in PunchRecords,
           Shape(size, max, l, Len(l)), u.ch \in Chars, u.off = NextStart(l, Len(l)), u.off < size
    PROVE  Shape(size, max, Append(l, u), Len(l) + 1)
<1> DEFINE o == Append(l, u)
<1>1. /\ o \in Seq(PunchRecords) /\ Len(o) = Len(l) + 1 /\ o[Len(l) + 1] = u
      /\ \A k \in 1 .. Len(l) : o[k] = l[k]
  BY SMT
<1>2. Len(l) \in Nat
  BY SMT
<1> HIDE DEF o
<1>3. \A k \in 0 .. Len(l) : NextStart(o, k) = NextStart(l, k)
  BY <1>1, <1>2, SMT DEF NextStart
<1>4. ASSUME NEW k \in 1 .. Len(l) + 1
      PROVE  o[k].ch \in Chars /\ o[k].off = NextStart(o, k - 1) /\ o[k].off < size
  <2>1. k - 1 \in 0 .. Len(l)
    BY <1>2, SMT
  <2>2. CASE k \in 1 .. Len(l)
    BY <1>1, <1>3, <2>1, <2>2 DEF Shape
  <2>3. CASE k = Len(l) + 1
    BY <1>1, <1>2, <1>3, <2>3, SMT
  <2> QED BY <1>2, <2>2, <2>3, SMT
<1> QED BY <1>1, <1>2, <1>4, SMT DEF Shape, o

\* A hole joins a log whose filling is complete.
LEMMA ShapeHole ==
    ASSUME NEW size \in Nat, NEW max \in Nat, NEW l \in Seq(PunchRecords), NEW u \in PunchRecords, NEW f \in Nat,
           Shape(size, max, l, f), u.ch = MAGIC_HOLE_CHAR, NextStart(l, f) >= size, Len(l) < f + max
    PROVE  /\ Shape(size, max, Append(l, u), f)
           /\ NextStart(Append(l, u), f) = NextStart(l, f)
<1> DEFINE o == Append(l, u)
<1>1. /\ o \in Seq(PunchRecords) /\ Len(o) = Len(l) + 1 /\ o[Len(l) + 1] = u
      /\ \A k \in 1 .. Len(l) : o[k] = l[k]
  BY SMT
<1>2. Len(l) \in Nat /\ f <= Len(l)
  BY SMT DEF Shape
<1> HIDE DEF o
<1>3. \A k \in 0 .. Len(l) : NextStart(o, k) = NextStart(l, k)
  BY <1>1, <1>2, SMT DEF NextStart
<1>4. ASSUME NEW k \in 1 .. f
      PROVE  o[k].ch \in Chars /\ o[k].off = NextStart(o, k - 1) /\ o[k].off < size
  <2>1. k - 1 \in 0 .. Len(l) /\ k \in 1 .. Len(l)
    BY <1>2, SMT
  <2> QED BY <1>1, <1>3, <2>1 DEF Shape
<1>5. ASSUME NEW k \in f + 1 .. Len(l) + 1 PROVE o[k].ch = MAGIC_HOLE_CHAR
  <2>1. CASE k \in f + 1 .. Len(l)
    <3>1. k \in 1 .. Len(l)
      BY <1>2, <2>1, SMT
    <3> QED BY <1>1, <2>1, <3>1 DEF Shape
  <2>2. CASE k = Len(l) + 1
    BY <1>1, <2>2
  <2> QED BY <1>2, <2>1, <2>2, SMT
<1>6. f \in 0 .. Len(o) /\ Len(o) <= f + max /\ NextStart(o, f) = NextStart(l, f)
  BY <1>1, <1>2, <1>3, SMT
<1>7. Shape(size, max, o, f)
  BY <1>1, <1>4, <1>5, <1>6 DEF Shape
<1> QED BY <1>6, <1>7 DEF o

\* The beginning of a log is the beginning of a run.
LEMMA ShapeFront ==
    ASSUME NEW size \in Nat, NEW max \in Nat, NEW l \in Seq(PunchRecords), NEW f \in Nat,
           Shape(size, max, l, f), NEW n \in 0 .. Len(l)
    PROVE  \E g \in Nat : Shape(size, max, SubSeq(l, 1, n), g)
<1> DEFINE o == SubSeq(l, 1, n)
           g == IF f <= n THEN f ELSE n
<1>1. o \in Seq(PunchRecords) /\ Len(o) = n /\ \A k \in 1 .. n : l[k] = o[k]
  BY FrontOf
<1>2. Len(l) \in Nat /\ f <= Len(l) /\ g \in Nat /\ g <= n /\ g <= f /\ n <= Len(l)
  BY SMT DEF Shape
<1>3. Len(l) <= f + max /\ (g < n => g = f)
  BY <1>2, SMT DEF Shape
<1> HIDE DEF o, g
<1>4. \A k \in 0 .. n : NextStart(o, k) = NextStart(l, k)
  BY <1>1, SMT DEF NextStart
<1>5. ASSUME NEW k \in 1 .. g
      PROVE  o[k].ch \in Chars /\ o[k].off = NextStart(o, k - 1) /\ o[k].off < size
  <2>1. k \in 1 .. n /\ k - 1 \in 0 .. n /\ k \in 1 .. f
    BY <1>2, SMT
  <2> QED BY <1>1, <1>4, <2>1 DEF Shape
<1>6. ASSUME NEW k \in g + 1 .. n PROVE o[k].ch = MAGIC_HOLE_CHAR
  <2>1. g = f /\ k \in f + 1 .. Len(l) /\ k \in 1 .. n
    BY <1>2, <1>3, SMT
  <2> QED BY <1>1, <2>1 DEF Shape
<1>7. g < n => NextStart(o, g) >= size
  <2> SUFFICES ASSUME g < n PROVE NextStart(o, g) >= size
    OBVIOUS
  <2>1. g = f /\ f < Len(l) /\ g \in 0 .. n
    BY <1>2, <1>3, SMT
  <2> QED BY <1>4, <2>1 DEF Shape
<1>8. n <= g + max
  BY <1>2, <1>3, SMT
<1>9. Shape(size, max, o, g)
  BY <1>1, <1>2, <1>5, <1>6, <1>7, <1>8, SMT DEF Shape
<1> QED BY <1>2, <1>9 DEF o

\* Where a run of the filling stands: it goes on exactly while the file is not full.
LEMMA ShapeGoesOn ==
    ASSUME NEW size \in Nat, NEW max \in Nat, NEW l \in Seq(PunchRecords), NEW g \in Nat,
           Shape(size, max, l, g), NEW n \in 0 .. g
    PROVE  /\ n < g => NextStart(l, n) < size /\ NextStart(l, n) = l[n + 1].off
           /\ n < Len(l) /\ NextStart(l, n) < size => n < g
<1>1. Len(l) \in Nat /\ g <= Len(l)
  BY SMT DEF Shape
<1>2. ASSUME n < g PROVE NextStart(l, n) < size /\ NextStart(l, n) = l[n + 1].off
  <2>1. n + 1 \in 1 .. g /\ (n + 1) - 1 = n
    BY <1>2, SMT
  <2> QED BY <2>1 DEF Shape
<1>3. ASSUME n < Len(l), NextStart(l, n) < size, ~ (n < g) PROVE FALSE
  <2>1. n = g
    BY <1>3, SMT
  <2>2. NextStart(l, g) >= size
    BY <1>3, <2>1 DEF Shape
  <2>3. NextStart(l, g) \in Int
    <3>1. CASE g = 0
      BY <3>1, SMT DEF NextStart
    <3>2. CASE g # 0
      <4>1. l[g] \in PunchRecords
        BY <1>1, <3>2, SMT
      <4> QED BY <3>2, <4>1, SMT DEF NextStart, PunchRecords, PunchBytes, End
    <3> QED BY <3>1, <3>2
  <2> QED BY <1>3, <2>1, <2>2, <2>3, SMT
<1> QED BY <1>2, <1>3

\* A log as it is read, record by record.
LEMMA AsReadAt ==
    ASSUME NEW l \in Seq(PunchRecords)
    PROVE  /\ Len(l) \in Nat /\ Len(AsRead(l)) = Len(l)
           /\ \A k \in 1 .. Len(l) : AsRead(l)[k] = [l[k] EXCEPT !.ch = HoleChar(@)]
BY SMT DEF AsRead

\* A record added to a log leaves what the others say.
LEMMA AsReadAppend ==
    ASSUME NEW l \in Seq(PunchRecords), NEW u \in PunchRecords
    PROVE  /\ Append(l, u) \in Seq(PunchRecords) /\ Len(Append(l, u)) = Len(l) + 1
           /\ Append(l, u)[Len(l) + 1] = u
           /\ \A k \in 1 .. Len(l) : Append(l, u)[k] = l[k]
           /\ \A k \in 1 .. Len(l) : AsRead(l)[k] = AsRead(Append(l, u))[k]
<1> DEFINE o == Append(l, u)
<1>1. /\ o \in Seq(PunchRecords) /\ Len(o) = Len(l) + 1
      /\ o[Len(l) + 1] = u /\ \A k \in 1 .. Len(l) : o[k] = l[k]
      /\ Len(l) \in Nat
  BY SMT
<1> HIDE DEF o
<1>2. \A k \in 1 .. Len(l) : k \in 1 .. Len(o)
  BY <1>1, SMT
<1>3. \A k \in 1 .. Len(l) : AsRead(l)[k] = AsRead(o)[k]
  <2>1. \A k \in 1 .. Len(l) : AsRead(l)[k] = [l[k] EXCEPT !.ch = HoleChar(@)]
    BY AsReadAt
  <2>2. \A k \in 1 .. Len(o) : AsRead(o)[k] = [o[k] EXCEPT !.ch = HoleChar(@)]
    BY <1>1, AsReadAt
  <2> QED BY <1>1, <1>2, <2>1, <2>2, ZenonT(40)
<1> QED BY <1>1, <1>3 DEF o

\* Two logs with the same records are the same.
LEMMA SameSeq ==
    ASSUME NEW S, NEW a \in Seq(S), NEW b \in Seq(S), Len(a) = Len(b),
           \A k \in 1 .. Len(a) : a[k] = b[k]
    PROVE  a = b
BY SMT

\* What is left of a log after its first n records.
LEMMA RestOf ==
    ASSUME NEW S, NEW l \in Seq(S), NEW n \in 0 .. Len(l)
    PROVE  /\ SubSeq(l, n + 1, Len(l)) = <<>> <=> n = Len(l)
           /\ n < Len(l) => /\ Head(SubSeq(l, n + 1, Len(l))) = l[n + 1]
                            /\ Tail(SubSeq(l, n + 1, Len(l))) = SubSeq(l, n + 2, Len(l))
<1> DEFINE r == SubSeq(l, n + 1, Len(l))
<1>1. r \in Seq(S) /\ Len(r) = Len(l) - n /\ \A k \in 1 .. Len(l) - n : r[k] = l[n + k]
  BY SMT
<1>2. Len(l) \in Nat
  BY SMT
<1>3. r = <<>> <=> n = Len(l)
  <2> HIDE DEF r
  <2>1. r = <<>> => Len(r) = 0
    BY SMT
  <2>2. Len(r) = 0 => r = <<>>
    BY <1>1, SMT
  <2> QED BY <1>1, <1>2, <2>1, <2>2, SMT
<1>4. ASSUME n < Len(l) PROVE Head(r) = l[n + 1] /\ Tail(r) = SubSeq(l, n + 2, Len(l))
  <2>1. r # <<>> /\ Head(r) = r[1] /\ 1 \in 1 .. Len(l) - n
    BY <1>1, <1>2, <1>3, <1>4, SMT
  <2> DEFINE t == SubSeq(l, n + 2, Len(l))
  <2>2. t \in Seq(S) /\ Len(t) = Len(l) - n - 1 /\ \A k \in 1 .. Len(l) - n - 1 : t[k] = l[n + 1 + k]
    BY <1>4, SMT
  <2>3. Tail(r) \in Seq(S) /\ Len(Tail(r)) = Len(l) - n - 1
        /\ \A k \in 1 .. Len(l) - n - 1 : Tail(r)[k] = r[k + 1]
    <3> HIDE DEF r
    <3> QED BY <1>1, <1>2, <1>4, <2>1, SMT
  <2>4. \A k \in 1 .. Len(l) - n - 1 : Tail(r)[k] = t[k]
    <3> TAKE k \in 1 .. Len(l) - n - 1
    <3>1. k + 1 \in 1 .. Len(l) - n /\ n + (k + 1) = n + 1 + k
      BY <1>2, SMT
    <3> QED BY <1>1, <2>2, <2>3, <3>1, SMT
  <2> HIDE DEF r, t
  <2>5. Tail(r) = t
    <3>1. Len(Tail(r)) = Len(t) /\ \A k \in 1 .. Len(Tail(r)) : Tail(r)[k] = t[k]
      BY <2>2, <2>3, <2>4
    <3> QED BY <2>2, <2>3, <3>1, SameSeq
  <2> QED BY <1>1, <2>1, <2>5 DEF t
<1> QED BY <1>3, <1>4

\* The steps that only move on: opening the file, and the ends of the loops.
LEMMA PunchMovesOn ==
    ASSUME PInv, PunchOpen \/ FillCutShort \/ FillEnds \/ PunchFinish
    PROVE  PInv'
<1>0. /\ UNCHANGED <<p_size, p_max_iter, p_replaying, given, p_start, p_i, p_wu, p_replay, p_log, p_file>>
      /\ PunchBytes' = PunchBytes /\ PunchRecords' = PunchRecords /\ ArgsOK' /\ ArgsOK
  <2>1. UNCHANGED <<p_size, p_max_iter, p_replaying, given, p_start, p_i, p_wu, p_replay, p_log, p_file>>
    BY DEF PunchOpen, FillCutShort, FillEnds, PunchFinish, punchArgs
  <2> QED BY <2>1, ArgsStay DEF PInv, Common, ArgsOK
<1>1. /\ p_pc \in {"open", "fill", "loop"} /\ p_pc' \in {"fill", "loop", "done"}
      /\ p_ret' \in 0 .. 1 /\ (p_pc' # "done" => p_ret' = p_ret)
  BY SMT DEF PunchOpen, FillCutShort, FillEnds, PunchFinish, PInv, Common
<1>2. Common'
  <2>1. Common
    BY DEF PInv
  <2>2. Made(PunchBytes, AsRead(p_log), Len(p_log), p_file)
    BY <1>1, <2>1 DEF Common, Logged
  <2>3. AsRead(p_log)' = AsRead(p_log)
    BY <1>0 DEF AsRead
  <2>4. p_pc' \notin Logged /\ p_pc' \notin {"open", "fill_log", "fill_write", "log", "punch"}
    BY <1>1 DEF Logged
  <2>5. p_pc' \in FillPcs \cup PunchPcs \cup {"done"}
    BY <1>1 DEF FillPcs, PunchPcs
  <2> QED BY <1>0, <1>1, <2>1, <2>2, <2>3, <2>4, <2>5 DEF Common
<1>3. p_log \in Seq(PunchRecords) /\ Len(p_log) \in Nat /\ given \in Seq(PunchRecords) /\ Len(given) \in Nat
      /\ p_max_iter \in Nat /\ p_size \in Nat
  BY SMT DEF PInv, Common, ArgsOK
<1>4. ASSUME ~ p_replaying, NEW f \in Nat, First(f) PROVE First(f)'
  <2>1. Shape(p_size, p_max_iter, p_log, f)
    BY <1>4 DEF First
  <2>2. CASE FillEnds
    <3>1. f = Len(p_log) /\ p_i = 0 /\ p_start = NextStart(p_log, f) /\ p_start >= p_size /\ p_pc' = "loop"
      BY <1>4, <2>2 DEF FillEnds, First, FillPcs
    <3>2. p_pc' \notin FillPcs /\ Len(p_log) = f + p_i
      BY <1>3, <3>1, SMT DEF FillPcs
    <3> QED BY <1>0, <2>1, <3>1, <3>2 DEF First, FillPcs
  <2>3. CASE PunchOpen \/ FillCutShort \/ PunchFinish
    <3>1. p_pc' = "done" \/ (p_pc = "open" /\ p_pc' = "fill")
      BY <2>3 DEF PunchOpen, FillCutShort, PunchFinish
    <3> QED BY <1>0, <1>4, <2>1, <3>1 DEF First, FillPcs, PunchPcs
  <2> QED BY <2>2, <2>3
<1>5. ASSUME p_replaying, NEW g \in Nat, Second(g) PROVE Second(g)'
  <2>1. /\ Shape(p_size, p_max_iter, given, g) /\ \A k \in 1 .. Len(p_log) : p_log[k] = given[k]
        /\ Len(p_log) <= Len(given) /\ p_replay = SubSeq(given, Len(p_log) + 1, Len(given))
    BY <1>1, <1>5 DEF Second, Taken
  <2>2. Taken' = Len(p_log) /\ Taken = Len(p_log)
    BY <1>0, <1>1 DEF Taken
  <2>3. CASE PunchOpen
    <3>1. p_pc = "open" /\ (p_pc' = "fill" \/ (p_pc' = "done" /\ p_ret' = 1))
      BY <2>3 DEF PunchOpen
    <3>2. Len(p_log) <= g /\ p_i = 0 /\ p_start = NextStart(given, Len(p_log))
      BY <1>5, <2>2, <3>1 DEF Second, FillPcs
    <3> QED BY <1>0, <2>1, <2>2, <3>1, <3>2, SMT DEF Second, FillPcs
  <2>4. CASE FillEnds
    <3>1. /\ p_pc = "fill" /\ p_pc' = "loop" /\ p_start >= p_size
          /\ p_start = NextStart(given, Len(p_log)) /\ Len(p_log) <= g /\ p_i = 0
      BY <1>5, <2>2, <2>4 DEF Second, FillPcs, FillEnds
    <3>2. Len(p_log) < g => p_start < p_size
      <4>1. Len(p_log) \in 0 .. g
        BY <1>3, <3>1, SMT
      <4>2. Len(p_log) < g => NextStart(given, Len(p_log)) < p_size
        BY <1>3, <2>1, <4>1, ShapeGoesOn
      <4> QED BY <3>1, <4>2
    <3>3. p_start \in Nat
      BY DEF PInv, Common
    <3>4. Len(p_log) = g + p_i
      BY <1>3, <3>1, <3>2, <3>3, SMT
    <3> QED BY <1>0, <2>1, <2>2, <3>1, <3>4 DEF Second, FillPcs
  <2>5. CASE FillCutShort \/ PunchFinish
    <3>1. p_pc' = "done"
      BY <2>5 DEF FillCutShort, PunchFinish
    <3>2. Len(p_log) = Len(given)
      <4>1. CASE p_replay = <<>>
        <5>1. Len(p_log) \in 0 .. Len(given)
          BY <1>3, <2>1, SMT
        <5> QED BY <1>3, <2>1, <4>1, <5>1, RestOf
      <4>2. CASE p_pc = "loop" /\ p_i = p_max_iter
        <5>1. Len(p_log) = g + p_i /\ Len(given) <= g + p_max_iter
          BY <1>5, <2>1, <4>2 DEF Second, Shape
        <5> QED BY <1>3, <2>1, <4>2, <5>1, SMT
      <4>3. CASE FillCutShort /\ p_replay # <<>>
        <5>1. ph_prep_write_unit = {}
          BY <4>3 DEF FillCutShort
        <5>2. ph_prep_write_unit = {Head(p_replay)}
          BY <1>5, <4>3 DEF ph_prep_write_unit
        <5> QED BY <5>1, <5>2
      <4> QED BY <2>5, <4>1, <4>2, <4>3 DEF PunchFinish, ph_replay_eof
    <3> QED BY <1>0, <2>1, <2>2, <3>1, <3>2 DEF Second, FillPcs
  <2> QED BY <2>3, <2>4, <2>5
<1> QED BY <1>0, <1>2, <1>4, <1>5 DEF PInv

\* A length cut to the end of the file.
LEMMA CutFits ==
    ASSUME ArgsOK, NEW off \in Nat, off < p_size, NEW len \in Nat, len > 0
    PROVE  /\ Cut(off, len) \in 1 .. len
           /\ off + Cut(off, len) <= p_size
BY SMT DEF ArgsOK, Cut

\* What ph_prep_rand_write_unit draws: a write inside the file.
LEMMA UnitDrawn ==
    ASSUME ArgsOK, NEW u \in ph_prep_rand_write_unit
    PROVE  u \in PunchRecords /\ u.ch \in Chars /\ u.len \in 1 .. MAX_WRITE_SIZE
<1>0. /\ p_size \in Nat /\ p_size > 0
      /\ MAX_WRITE_SIZE \in Nat /\ MAX_WRITE_SIZE > 1
  BY PunchConstants, SMT DEF ArgsOK, HeaderOK
<1>1. PICK c \in Chars, r \in ph_get_rand(p_size - 1),
           l \in ph_get_rand(MAX_WRITE_SIZE) \ {0} :
         u = [ch |-> c, off |-> r, len |-> Cut(r, l)]
  BY SMT DEF ph_prep_rand_write_unit
<1>2. r \in Nat /\ r < p_size /\ l \in Nat /\ l > 0 /\ l < MAX_WRITE_SIZE
  BY <1>0, <1>1, SMT DEF ph_get_rand
<1> DEFINE len == Cut(r, l)
<1>3. len \in 1 .. l /\ r + len <= p_size
  BY <1>2, CutFits
<1> HIDE DEF len
<1>4. u = [ch |-> c, off |-> r, len |-> len]
  BY <1>1 DEF len
<1>5. u.ch = c /\ u.off = r /\ u.len = len
  BY <1>4
<1> QED BY <1>0, <1>2, <1>3, <1>4, <1>5, SMT DEF PunchRecords, PunchBytes, End

\* What ph_prep_file makes of it: a write at start.
LEMMA UnitMoved ==
    ASSUME ArgsOK, NEW u \in PunchRecords, u.ch \in Chars, u.len \in 1 .. MAX_WRITE_SIZE, ~ p_replaying,
           p_start \in Nat, p_start < p_size
    PROVE  /\ FillUnit(u) \in PunchRecords /\ FillUnit(u).ch \in Chars
           /\ FillUnit(u).off = p_start /\ FillUnit(u).len <= MAX_WRITE_SIZE
<1>0. /\ p_size \in Nat /\ MAX_WRITE_SIZE \in Nat
      /\ u \in [ch : Chars \cup {MAGIC_HOLE_CHAR}, off : PunchBytes, len : 1 .. p_size]
  BY PunchConstants DEF ArgsOK, HeaderOK, PunchRecords
<1> DEFINE len == Cut(p_start, u.len)
           v == FillUnit(u)
<1>1. u.len \in Nat /\ u.len > 0 /\ u.len <= MAX_WRITE_SIZE
  BY <1>0, SMT
<1>2. len \in 1 .. u.len /\ p_start + len <= p_size
  BY <1>1, CutFits
<1>3. v = [ch |-> u.ch, off |-> p_start, len |-> len]
  BY <1>0 DEF FillUnit
<1> HIDE DEF len, v
<1>4. v.ch = u.ch /\ v.off = p_start /\ v.len = len
  BY <1>3
<1>5. v \in PunchRecords /\ v.len <= MAX_WRITE_SIZE
  BY <1>0, <1>1, <1>2, <1>3, <1>4, SMT DEF PunchRecords, PunchBytes, End
<1> QED BY <1>4, <1>5 DEF v

\* What a replay takes next.
LEMMA ReplayTakes ==
    ASSUME PInv, p_replaying, p_pc \in {"fill", "loop"}, NEW g \in Nat, Second(g),
           NEW u \in ph_prep_write_unit, Consume
    PROVE  /\ Len(p_log) < Len(given) /\ u = given[Len(p_log) + 1] /\ u \in PunchRecords
           /\ p_replay' = SubSeq(given, Len(p_log) + 2, Len(given))
<1>1. /\ Len(p_log) \in Nat /\ given \in Seq(PunchRecords) /\ Len(given) \in Nat
      /\ Len(p_log) <= Len(given) /\ p_replay = SubSeq(given, Len(p_log) + 1, Len(given))
  <2>1. p_log \in Seq(PunchRecords) /\ given \in Seq(PunchRecords)
    BY DEF PInv, Common
  <2>2. Taken = Len(p_log)
    BY DEF Taken
  <2>3. Taken <= Len(given) /\ p_replay = SubSeq(given, Taken + 1, Len(given))
    BY DEF Second
  <2> QED BY <2>1, <2>2, <2>3, SMT
<1>2. p_replay # <<>> /\ u = Head(p_replay) /\ p_replay' = Tail(p_replay)
  BY DEF ph_prep_write_unit, Consume
<1>3. Len(p_log) \in 0 .. Len(given)
  BY <1>1, SMT
<1>4. Len(p_log) # Len(given)
  BY <1>1, <1>2, <1>3, RestOf
<1>5. Len(p_log) < Len(given) /\ Len(p_log) + 1 \in 1 .. Len(given)
  BY <1>1, <1>4, SMT
<1>6. u = given[Len(p_log) + 1] /\ p_replay' = SubSeq(given, Len(p_log) + 2, Len(given))
  BY <1>1, <1>2, <1>3, <1>5, RestOf
<1> QED BY <1>1, <1>5, <1>6, SMT

\* ph_prep_file takes a write, drawn or replayed.
LEMMA PunchFillStep == ASSUME PInv, PunchFill PROVE PInv'
<1>0. /\ UNCHANGED <<p_size, p_max_iter, p_replaying, given, p_start, p_i, p_log, p_file, p_ret>>
      /\ PunchBytes' = PunchBytes /\ PunchRecords' = PunchRecords /\ ArgsOK' /\ ArgsOK
      /\ p_pc = "fill" /\ p_pc' = "fill_log" /\ p_start < p_size
  <2>1. /\ UNCHANGED <<p_size, p_max_iter, p_replaying, given, p_start, p_i, p_log, p_file, p_ret>>
        /\ p_pc = "fill" /\ p_pc' = "fill_log" /\ p_start < p_size
    BY DEF PunchFill, punchArgs
  <2> QED BY <2>1, ArgsStay DEF PInv, Common, ArgsOK
<1>1. Common /\ Consume
  BY DEF PInv, PunchFill
<1>2. PICK u \in ph_prep_write_unit : p_wu' = FillUnit(u)
  BY DEF PunchFill
<1>3. /\ p_log \in Seq(PunchRecords) /\ Len(p_log) \in Nat /\ given \in Seq(PunchRecords) /\ Len(given) \in Nat
      /\ p_max_iter \in Nat /\ p_size \in Nat /\ p_start \in Nat /\ p_replaying \in BOOLEAN
      /\ Made(PunchBytes, AsRead(p_log), Len(p_log), p_file)
  BY <1>0, <1>1, SMT DEF Common, ArgsOK, Logged
<1>4. ASSUME p_wu' \in PunchRecords, p_wu'.ch \in Chars PROVE Common'
  <2>1. AsRead(p_log)' = AsRead(p_log)
    BY <1>0 DEF AsRead
  <2>2. p_pc' \notin Logged /\ p_pc' \in FillPcs
    BY <1>0 DEF Logged, FillPcs
  <2> QED BY <1>0, <1>1, <1>3, <1>4, <2>1, <2>2 DEF Common
<1>5. CASE ~ p_replaying
  <2>1. u \in PunchRecords /\ u.ch \in Chars /\ u.len \in 1 .. MAX_WRITE_SIZE
    BY <1>0, <1>2, <1>5, UnitDrawn DEF ph_prep_write_unit
  <2>2. p_wu' \in PunchRecords /\ p_wu'.ch \in Chars /\ p_wu'.off = p_start /\ p_wu'.len <= MAX_WRITE_SIZE
    BY <1>0, <1>2, <1>3, <1>5, <2>1, UnitMoved
  <2>3. PICK f \in Nat : First(f)
    BY <1>5 DEF PInv
  <2>4. /\ Shape(p_size, p_max_iter, p_log, f) /\ f = Len(p_log) /\ p_i = 0 /\ p_start = NextStart(p_log, f)
    BY <1>0, <2>3 DEF First, FillPcs
  <2>5. First(f)'
    BY <1>0, <2>2, <2>4 DEF First, FillPcs, PunchPcs
  <2> QED BY <1>0, <1>4, <1>5, <2>2, <2>5 DEF PInv
<1>6. CASE p_replaying
  <2>1. PICK g \in Nat : Second(g)
    BY <1>6 DEF PInv
  <2>2. /\ Len(p_log) < Len(given) /\ u = given[Len(p_log) + 1] /\ u \in PunchRecords
        /\ p_replay' = SubSeq(given, Len(p_log) + 2, Len(given))
    BY <1>0, <1>1, <1>2, <1>6, <2>1, ReplayTakes
  <2>3. p_wu' = u
    BY <1>2, <1>6 DEF FillUnit
  <2>4. /\ Shape(p_size, p_max_iter, given, g) /\ \A k \in 1 .. Len(p_log) : p_log[k] = given[k]
        /\ Len(p_log) <= g /\ p_i = 0 /\ p_start = NextStart(given, Len(p_log))
    BY <1>0, <2>1 DEF Second, Taken, FillPcs
  <2>5. Len(p_log) < g
    <3>1. Len(p_log) \in 0 .. g
      BY <1>3, <2>4, SMT
    <3> QED BY <1>0, <1>3, <2>2, <2>4, <3>1, ShapeGoesOn
  <2>6. u.ch \in Chars
    <3>1. Len(p_log) + 1 \in 1 .. g
      BY <1>3, <2>5, SMT
    <3> QED BY <2>2, <2>4, <3>1 DEF Shape
  <2>7. Taken' = Len(p_log) + 1 /\ Len(p_log) + 1 <= g /\ Len(p_log) + 1 <= Len(given)
        /\ (Len(p_log) + 1) + 1 = Len(p_log) + 2
    BY <1>0, <1>3, <2>2, <2>5, SMT DEF Taken
  <2>8. Second(g)'
    BY <1>0, <2>2, <2>3, <2>4, <2>7 DEF Second, FillPcs
  <2> QED BY <1>0, <1>4, <1>6, <2>2, <2>3, <2>6, <2>8 DEF PInv
<1> QED BY <1>3, <1>5, <1>6

\* main's loop takes a hole, drawn or replayed.
LEMMA PunchPrepareStep == ASSUME PInv, PunchPrepare PROVE PInv'
<1>0. /\ UNCHANGED <<p_size, p_max_iter, p_replaying, given, p_start, p_i, p_log, p_file, p_ret>>
      /\ PunchBytes' = PunchBytes /\ PunchRecords' = PunchRecords /\ ArgsOK' /\ ArgsOK
      /\ p_pc = "loop" /\ p_pc' = "log" /\ p_i < p_max_iter
  <2>1. /\ UNCHANGED <<p_size, p_max_iter, p_replaying, given, p_start, p_i, p_log, p_file, p_ret>>
        /\ p_pc = "loop" /\ p_pc' = "log" /\ p_i < p_max_iter
    BY DEF PunchPrepare, punchArgs
  <2> QED BY <2>1, ArgsStay DEF PInv, Common, ArgsOK
<1>1. Common /\ Consume
  BY DEF PInv, PunchPrepare
<1>2. PICK u \in ph_prep_write_unit : p_wu' = [u EXCEPT !.ch = MAGIC_HOLE_CHAR]
  BY DEF PunchPrepare
<1>3. /\ p_log \in Seq(PunchRecords) /\ Len(p_log) \in Nat /\ given \in Seq(PunchRecords) /\ Len(given) \in Nat
      /\ p_max_iter \in Nat /\ p_size \in Nat /\ p_i \in Nat /\ p_replaying \in BOOLEAN
      /\ Made(PunchBytes, AsRead(p_log), Len(p_log), p_file)
  BY <1>0, <1>1, SMT DEF Common, ArgsOK, Logged
<1>4. ASSUME u \in PunchRecords
      PROVE  p_wu' \in PunchRecords /\ p_wu'.ch = MAGIC_HOLE_CHAR /\ p_wu'.len = u.len
             /\ (u.ch = MAGIC_HOLE_CHAR => p_wu' = u)
  BY <1>2, <1>4 DEF PunchRecords, End, MAGIC_HOLE_CHAR, MAGIC_HOLE_CHAR
<1>5. ASSUME u \in PunchRecords PROVE Common'
  <2>1. AsRead(p_log)' = AsRead(p_log)
    BY <1>0 DEF AsRead
  <2>2. p_pc' \notin Logged /\ p_pc' \in PunchPcs
    BY <1>0 DEF Logged, PunchPcs
  <2> QED BY <1>0, <1>1, <1>3, <1>4, <1>5, <2>1, <2>2 DEF Common
<1>6. CASE ~ p_replaying
  <2>1. u \in PunchRecords /\ u.len \in 1 .. MAX_WRITE_SIZE
    BY <1>0, <1>2, <1>6, UnitDrawn DEF ph_prep_write_unit
  <2>2. PICK f \in Nat : First(f)
    BY <1>6 DEF PInv
  <2>3. /\ Shape(p_size, p_max_iter, p_log, f) /\ NextStart(p_log, f) >= p_size
        /\ Len(p_log) = f + p_i
    BY <1>0, <2>2 DEF First, PunchPcs
  <2>4. p_wu'.len <= MAX_WRITE_SIZE
    BY <1>4, <2>1, SMT
  <2>5. First(f)'
    BY <1>0, <2>3, <2>4 DEF First, FillPcs, PunchPcs
  <2> QED BY <1>0, <1>5, <1>6, <2>1, <2>5 DEF PInv
<1>7. CASE p_replaying
  <2>1. PICK g \in Nat : Second(g)
    BY <1>7 DEF PInv
  <2>2. /\ Len(p_log) < Len(given) /\ u = given[Len(p_log) + 1] /\ u \in PunchRecords
        /\ p_replay' = SubSeq(given, Len(p_log) + 2, Len(given))
    BY <1>0, <1>1, <1>2, <1>7, <2>1, ReplayTakes
  <2>3. /\ Shape(p_size, p_max_iter, given, g) /\ \A k \in 1 .. Len(p_log) : p_log[k] = given[k]
        /\ Len(p_log) = g + p_i
    BY <1>0, <2>1 DEF Second
  <2>4. u.ch = MAGIC_HOLE_CHAR
    <3>0. /\ Len(p_log) \in Nat /\ Len(given) \in Nat /\ p_i \in Nat
          /\ Len(p_log) = g + p_i /\ Len(p_log) < Len(given)
      BY <1>3, <2>2, <2>3
    <3>1. Len(p_log) + 1 \in g + 1 .. Len(given)
      BY <3>0, SMT
    <3>2. \A k \in g + 1 .. Len(given) : given[k].ch = MAGIC_HOLE_CHAR
      BY <2>3 DEF Shape
    <3> QED BY <2>2, <3>1, <3>2
  <2>5. p_wu' = u
    BY <1>4, <2>2, <2>4
  <2>6. Taken' = Len(p_log) + 1 /\ Len(p_log) + 1 <= Len(given) /\ (Len(p_log) + 1) + 1 = Len(p_log) + 2
    BY <1>0, <1>3, <2>2, SMT DEF Taken
  <2>7. Second(g)'
    BY <1>0, <2>2, <2>3, <2>5, <2>6 DEF Second, FillPcs
  <2> QED BY <1>0, <1>5, <1>7, <2>2, <2>7 DEF PInv
<1> QED BY <1>3, <1>6, <1>7

\* ph_log_write prints the record of the operation that comes next.
LEMMA PunchLogStep == ASSUME PInv, ph_log_write PROVE PInv'
<1>0. /\ UNCHANGED <<p_size, p_max_iter, p_replaying, given, p_replay, p_start, p_i, p_wu, p_file, p_ret>>
      /\ PunchBytes' = PunchBytes /\ PunchRecords' = PunchRecords /\ ArgsOK' /\ ArgsOK /\ p_log' = Append(p_log, p_wu)
      /\ \/ p_pc = "fill_log" /\ p_pc' = "fill_write"
         \/ p_pc = "log" /\ p_pc' = "punch"
  <2>1. /\ UNCHANGED <<p_size, p_max_iter, p_replaying, given, p_replay, p_start, p_i, p_wu, p_file, p_ret>>
        /\ p_log' = Append(p_log, p_wu)
        /\ \/ p_pc = "fill_log" /\ p_pc' = "fill_write"
           \/ p_pc = "log" /\ p_pc' = "punch"
    BY DEF ph_log_write, punchArgs
  <2> QED BY <2>1, ArgsStay DEF PInv, Common, ArgsOK
<1>1. Common
  BY DEF PInv
<1>2. /\ p_log \in Seq(PunchRecords) /\ Len(p_log) \in Nat /\ given \in Seq(PunchRecords) /\ Len(given) \in Nat
      /\ p_max_iter \in Nat /\ p_size \in Nat /\ p_i \in Nat /\ p_replaying \in BOOLEAN
      /\ p_wu \in PunchRecords /\ Made(PunchBytes, AsRead(p_log), Len(p_log), p_file)
  BY <1>0, <1>1, SMT DEF Common, ArgsOK, Logged
<1>3. /\ p_log' \in Seq(PunchRecords) /\ Len(p_log') = Len(p_log) + 1 /\ p_log'[Len(p_log) + 1] = p_wu
      /\ \A k \in 1 .. Len(p_log) : p_log'[k] = p_log[k]
      /\ \A k \in 1 .. Len(p_log) : AsRead(p_log)[k] = AsRead(p_log')[k]
  BY <1>0, <1>2, AsReadAppend, SMT
<1>4. Made(PunchBytes, AsRead(p_log'), Len(p_log), p_file)
  BY <1>2, <1>3, MadeSame
<1>5. Common'
  <2>1. Made(PunchBytes, AsRead(p_log)', Len(p_log') - 1, p_file') /\ Len(p_log') > 0 /\ p_log'[Len(p_log')] = p_wu
    <3>1. AsRead(p_log)' = AsRead(p_log') /\ Len(p_log') - 1 = Len(p_log) /\ Len(p_log') > 0
      BY <1>2, <1>3, SMT DEF AsRead
    <3> QED BY <1>0, <1>3, <1>4, <3>1
  <2>2. p_pc' \in Logged /\ p_pc' \in FillPcs \cup PunchPcs \cup {"done"}
    BY <1>0 DEF Logged, FillPcs, PunchPcs
  <2> QED BY <1>0, <1>1, <1>2, <1>3, <2>1, <2>2 DEF Common
<1>6. ASSUME ~ p_replaying, NEW f \in Nat, First(f), p_pc = "fill_log" PROVE First(f + 1)'
  <2>1. /\ Shape(p_size, p_max_iter, p_log, f) /\ f = Len(p_log) /\ p_i = 0
        /\ p_start = NextStart(p_log, f) /\ p_wu.off = p_start /\ p_wu.len <= MAX_WRITE_SIZE
    BY <1>6 DEF First, FillPcs
  <2>2. p_wu.ch \in Chars /\ p_wu.off < p_size
    BY <1>1, <1>2, <1>6, SMT DEF Common, PunchRecords, PunchBytes
  <2>3. Shape(p_size, p_max_iter, p_log', f + 1)
    BY <1>0, <1>2, <2>1, <2>2, ShapeWrite
  <2>4. p_pc' = "fill_write" /\ f + 1 = Len(p_log')
    BY <1>0, <1>3, <1>6, <2>1
  <2>5. NextStart(p_log', (f + 1) - 1) = NextStart(p_log, f)
    <3>1. (f + 1) - 1 = f /\ (f # 0 => f \in 1 .. Len(p_log))
      BY <1>2, <2>1, SMT
    <3> QED BY <1>3, <3>1 DEF NextStart
  <2> QED BY <1>0, <2>1, <2>3, <2>4, <2>5 DEF First, FillPcs, PunchPcs
<1>7. ASSUME ~ p_replaying, NEW f \in Nat, First(f), p_pc = "log" PROVE First(f)'
  <2>1. /\ Shape(p_size, p_max_iter, p_log, f) /\ NextStart(p_log, f) >= p_size
        /\ Len(p_log) = f + p_i /\ p_wu.len <= MAX_WRITE_SIZE
    BY <1>7 DEF First, PunchPcs
  <2>2. p_wu.ch = MAGIC_HOLE_CHAR /\ p_i < p_max_iter
    BY <1>1, <1>7 DEF Common
  <2>3. Len(p_log) < f + p_max_iter
    BY <1>2, <2>1, <2>2, SMT
  <2>4. Shape(p_size, p_max_iter, p_log', f) /\ NextStart(p_log', f) = NextStart(p_log, f)
    BY <1>0, <1>2, <2>1, <2>2, <2>3, ShapeHole, SMT
  <2>5. p_pc' = "punch" /\ Len(p_log') = f + p_i + 1
    BY <1>0, <1>2, <1>3, <1>7, <2>1
  <2> QED BY <1>0, <2>1, <2>4, <2>5 DEF First, FillPcs, PunchPcs
<1>8. ASSUME p_replaying, NEW g \in Nat, Second(g) PROVE Second(g)'
  <2>1. Taken = Len(p_log) + 1 /\ Taken' = Len(p_log) + 1
    BY <1>0, <1>3 DEF Taken
  <2>2. /\ Shape(p_size, p_max_iter, given, g) /\ \A k \in 1 .. Len(p_log) : p_log[k] = given[k]
        /\ Len(p_log) + 1 <= Len(given) /\ p_replay = SubSeq(given, (Len(p_log) + 1) + 1, Len(given))
        /\ p_wu = given[Len(p_log) + 1]
    BY <1>0, <1>8, <2>1 DEF Second
  <2>3. \A k \in 1 .. Len(p_log') : p_log'[k] = given[k]
    <3>1. \A k \in 1 .. Len(p_log') : k \in 1 .. Len(p_log) \/ k = Len(p_log) + 1
      BY <1>2, <1>3, SMT
    <3> QED BY <1>3, <2>2, <3>1
  <2>4. CASE p_pc = "fill_log"
    <3>1. Len(p_log) + 1 <= g /\ p_i = 0 /\ p_start = NextStart(given, Len(p_log)) /\ p_pc' = "fill_write"
      BY <1>0, <1>8, <2>1, <2>4 DEF Second, FillPcs
    <3>2. Len(p_log') - 1 = Len(p_log)
      BY <1>2, <1>3, SMT
    <3> QED BY <1>0, <2>1, <2>2, <2>3, <3>1, <3>2 DEF Second, FillPcs
  <2>5. CASE p_pc = "log"
    <3>1. Len(p_log) = g + p_i /\ p_pc' = "punch"
      BY <1>0, <1>8, <2>5 DEF Second
    <3>2. Len(p_log') = g + p_i + 1
      BY <1>2, <1>3, <3>1
    <3> QED BY <1>0, <2>1, <2>2, <2>3, <3>1, <3>2 DEF Second, FillPcs
  <2> QED BY <1>0, <2>4, <2>5
<1>9. CASE ~ p_replaying
  <2>1. PICK f \in Nat : First(f)
    BY <1>9 DEF PInv
  <2>2. \E h \in Nat : First(h)'
    BY <1>0, <1>6, <1>7, <1>9, <2>1, SMT
  <2> QED BY <1>0, <1>5, <1>9, <2>2 DEF PInv
<1>10. CASE p_replaying
  BY <1>0, <1>5, <1>8, <1>10 DEF PInv
<1> QED BY <1>2, <1>9, <1>10

\* The pending operation makes the file what the whole log says.
LEMMA PendingMade ==
    ASSUME Common, p_pc \in Logged, NEW u, u = [p_wu EXCEPT !.ch = HoleChar(@)]
    PROVE  /\ Made(PunchBytes, AsRead(p_log), Len(p_log), ApplyWrite(p_file, u))
           /\ ApplyWrite(p_file, u) \in [PunchBytes -> PunchChars]
<1>1. /\ p_log \in Seq(PunchRecords) /\ Len(p_log) \in Nat /\ Len(p_log) > 0 /\ p_log[Len(p_log)] = p_wu
      /\ p_wu \in PunchRecords /\ p_file \in [PunchBytes -> PunchChars]
      /\ Made(PunchBytes, AsRead(p_log), Len(p_log) - 1, p_file)
  BY SMT DEF Common, Logged
<1>2. Len(p_log) - 1 \in Nat /\ (Len(p_log) - 1) + 1 = Len(p_log) /\ Len(p_log) \in 1 .. Len(p_log)
  BY <1>1, SMT
<1>3. AsRead(p_log)[Len(p_log)] = u
  BY <1>1, <1>2, AsReadAt
<1>4. Made(PunchBytes, AsRead(p_log), Len(p_log), ApplyWrite(p_file, u))
  <2>1. Made(PunchBytes, AsRead(p_log), (Len(p_log) - 1) + 1,
             ApplyWrite(p_file, AsRead(p_log)[(Len(p_log) - 1) + 1]))
    BY <1>1, <1>2, MadeNext
  <2> QED BY <1>2, <1>3, <2>1
<1>5. u.ch \in PunchChars
  BY <1>1 DEF PunchRecords, HoleChar, PunchChars
<1>6. ApplyWrite(p_file, u) \in [PunchBytes -> PunchChars]
  BY <1>1, <1>5 DEF ApplyWrite, Written
<1> QED BY <1>4, <1>6

\* ph_do_write, and the end of the loop of ph_prep_file.
LEMMA PunchWriteStep == ASSUME ~ BadWrites, PInv, ph_do_write PROVE PInv'
<1>0. /\ UNCHANGED <<p_size, p_max_iter, p_replaying, given, p_replay, p_i, p_wu, p_log, p_ret>>
      /\ PunchBytes' = PunchBytes /\ PunchRecords' = PunchRecords /\ ArgsOK' /\ ArgsOK
      /\ p_pc = "fill_write" /\ p_pc' = "fill" /\ p_start' = p_start + p_wu.off + p_wu.len
  <2>1. /\ UNCHANGED <<p_size, p_max_iter, p_replaying, given, p_replay, p_i, p_wu, p_log, p_ret>>
        /\ p_pc = "fill_write" /\ p_pc' = "fill" /\ p_start' = p_start + p_wu.off + p_wu.len
    BY DEF ph_do_write, punchArgs
  <2> QED BY <2>1, ArgsStay DEF PInv, Common, ArgsOK
<1>1. Common
  BY DEF PInv
<1>2. /\ p_log \in Seq(PunchRecords) /\ Len(p_log) \in Nat /\ given \in Seq(PunchRecords) /\ Len(given) \in Nat
      /\ p_start \in Nat /\ p_size \in Nat /\ p_replaying \in BOOLEAN
      /\ p_wu \in PunchRecords /\ p_wu.ch \in Chars /\ Len(p_log) > 0 /\ p_log[Len(p_log)] = p_wu
  BY <1>0, <1>1, SMT DEF Common, ArgsOK, Logged
<1>3. p_wu.off \in Nat /\ p_wu.len \in Nat /\ [p_wu EXCEPT !.len = p_wu.len] = p_wu
      /\ p_wu = [p_wu EXCEPT !.ch = HoleChar(@)]
  BY <1>2, PunchConstants, SMT DEF HeaderOK, PunchRecords, PunchBytes, HoleChar
<1>4. p_file' = ApplyWrite(p_file, p_wu)
  <2>1. PICK n \in 0 .. p_wu.len : /\ n < p_wu.len => FALSE
                                 /\ p_file' = ApplyWrite(p_file, [p_wu EXCEPT !.len = n])
    BY DEF ph_do_write
  <2>2. n = p_wu.len
    BY <1>3, <2>1, SMT
  <2> QED BY <1>3, <2>1, <2>2
<1>5. Made(PunchBytes, AsRead(p_log), Len(p_log), p_file') /\ p_file' \in [PunchBytes -> PunchChars]
  <2>1. p_pc \in Logged
    BY <1>0 DEF Logged
  <2> QED BY <1>1, <1>3, <1>4, <2>1, PendingMade
<1>6. Common'
  <2>1. AsRead(p_log)' = AsRead(p_log)
    BY <1>0 DEF AsRead
  <2>2. p_pc' \notin Logged /\ p_pc' \in FillPcs /\ p_start' \in Nat
    BY <1>0, <1>2, <1>3, SMT DEF Logged, FillPcs
  <2> QED BY <1>0, <1>1, <1>2, <1>5, <2>1, <2>2 DEF Common
<1>7. ASSUME NEW l \in Seq(PunchRecords), NEW n \in 1 .. Len(l), l[n] = p_wu, p_wu.off = NextStart(l, n - 1),
             p_start = NextStart(l, n - 1)
      PROVE  p_start' = NextStart(l, n)
  <2>1. n # 0
    BY <1>7, SMT
  <2> QED BY <1>0, <1>2, <1>3, <1>7, <2>1, SMT DEF NextStart, End
<1>8. CASE ~ p_replaying
  <2>1. PICK f \in Nat : First(f)
    BY <1>8 DEF PInv
  <2>2. /\ Shape(p_size, p_max_iter, p_log, f) /\ f = Len(p_log) /\ p_i = 0 /\ p_start = NextStart(p_log, f - 1)
    BY <1>0, <2>1 DEF First, FillPcs
  <2>3. f \in 1 .. f /\ f \in 1 .. Len(p_log)
    BY <1>2, <2>2, SMT
  <2>4. p_wu.off = NextStart(p_log, f - 1)
    BY <1>2, <2>2, <2>3 DEF Shape
  <2>5. p_start' = NextStart(p_log, f)
    BY <1>2, <1>7, <2>2, <2>3, <2>4
  <2>6. First(f)'
    BY <1>0, <2>2, <2>5 DEF First, FillPcs, PunchPcs
  <2> QED BY <1>0, <1>6, <1>8, <2>6 DEF PInv
<1>9. CASE p_replaying
  <2>1. PICK g \in Nat : Second(g)
    BY <1>9 DEF PInv
  <2>2. Taken = Len(p_log) /\ Taken' = Len(p_log)
    BY <1>0 DEF Taken
  <2>3. /\ Shape(p_size, p_max_iter, given, g) /\ \A k \in 1 .. Len(p_log) : p_log[k] = given[k]
        /\ Len(p_log) <= Len(given) /\ p_replay = SubSeq(given, Len(p_log) + 1, Len(given))
        /\ Len(p_log) <= g /\ p_i = 0 /\ p_start = NextStart(given, Len(p_log) - 1)
    BY <1>0, <2>1, <2>2 DEF Second, FillPcs
  <2>4. Len(p_log) \in 1 .. g /\ Len(p_log) \in 1 .. Len(given) /\ Len(p_log) \in 1 .. Len(p_log)
    BY <1>2, <2>3, SMT
  <2>5. given[Len(p_log)] = p_wu /\ p_wu.off = NextStart(given, Len(p_log) - 1)
    BY <1>2, <2>3, <2>4 DEF Shape
  <2>6. p_start' = NextStart(given, Len(p_log))
    BY <1>2, <1>7, <2>3, <2>4, <2>5
  <2>7. Second(g)'
    BY <1>0, <2>2, <2>3, <2>6 DEF Second, FillPcs
  <2> QED BY <1>0, <1>6, <1>9, <2>7 DEF PInv
<1> QED BY <1>2, <1>8, <1>9

\* ph_punch_hole: the hole is made, or the run ends with 1.
LEMMA PunchHoleStep == ASSUME PInv, ph_punch_hole PROVE PInv'
<1>0. /\ UNCHANGED <<p_size, p_max_iter, p_replaying, given, p_replay, p_start, p_wu, p_log>>
      /\ PunchBytes' = PunchBytes /\ PunchRecords' = PunchRecords /\ ArgsOK' /\ ArgsOK /\ p_pc = "punch"
  <2>1. /\ UNCHANGED <<p_size, p_max_iter, p_replaying, given, p_replay, p_start, p_wu, p_log>>
        /\ p_pc = "punch"
    BY DEF ph_punch_hole, punchArgs
  <2> QED BY <2>1, ArgsStay DEF PInv, Common, ArgsOK
<1>1. Common
  BY DEF PInv
<1>2. /\ p_log \in Seq(PunchRecords) /\ Len(p_log) \in Nat /\ given \in Seq(PunchRecords) /\ Len(given) \in Nat
      /\ p_i \in Nat /\ p_i < p_max_iter /\ p_max_iter \in Nat /\ p_replaying \in BOOLEAN
      /\ p_wu \in PunchRecords /\ p_wu.ch = MAGIC_HOLE_CHAR
  BY <1>0, <1>1, SMT DEF Common, ArgsOK
<1>3. AsRead(p_log)' = AsRead(p_log) /\ Taken = Len(p_log)
  BY <1>0 DEF AsRead, Taken
<1>4. CASE /\ p_file' = ApplyWrite(p_file, [p_wu EXCEPT !.ch = NUL])
           /\ p_i' = p_i + 1 /\ p_pc' = "loop" /\ p_ret' = p_ret
  <2> DEFINE u == [p_wu EXCEPT !.ch = HoleChar(@)]
  <2>1. u = [p_wu EXCEPT !.ch = NUL]
    BY <1>2 DEF HoleChar
  <2>2. p_file' = ApplyWrite(p_file, u)
    BY <1>4, <2>1
  <2>3. p_pc \in Logged
    BY <1>0 DEF Logged
  <2>4. Made(PunchBytes, AsRead(p_log), Len(p_log), p_file') /\ p_file' \in [PunchBytes -> PunchChars]
    <3> HIDE DEF u
    <3>1. /\ Made(PunchBytes, AsRead(p_log), Len(p_log), ApplyWrite(p_file, u))
          /\ ApplyWrite(p_file, u) \in [PunchBytes -> PunchChars]
      BY <1>1, <2>3, PendingMade DEF u
    <3> QED BY <2>2, <3>1
  <2>5. p_i' \in 0 .. p_max_iter
    BY <1>2, <1>4, SMT
  <2>6. p_pc' \notin Logged /\ p_pc' \in PunchPcs /\ p_pc' \notin FillPcs
    BY <1>4 DEF Logged, PunchPcs, FillPcs
  <2>7. Common'
    BY <1>0, <1>1, <1>2, <1>3, <1>4, <2>4, <2>5, <2>6 DEF Common
  <2>8. CASE ~ p_replaying
    <3>1. PICK f \in Nat : First(f)
      BY <2>8 DEF PInv
    <3>2. Shape(p_size, p_max_iter, p_log, f) /\ NextStart(p_log, f) >= p_size /\ Len(p_log) = f + p_i + 1
      BY <1>0, <3>1 DEF First, PunchPcs
    <3>3. Len(p_log) = f + (p_i + 1)
      BY <1>2, <3>2, SMT
    <3>4. First(f)'
      BY <1>0, <1>4, <2>6, <3>2, <3>3 DEF First
    <3> QED BY <1>0, <2>7, <2>8, <3>4 DEF PInv
  <2>9. CASE p_replaying
    <3>1. PICK g \in Nat : Second(g)
      BY <2>9 DEF PInv
    <3>2. /\ Shape(p_size, p_max_iter, given, g) /\ \A k \in 1 .. Len(p_log) : p_log[k] = given[k]
          /\ Len(p_log) <= Len(given) /\ p_replay = SubSeq(given, Len(p_log) + 1, Len(given))
          /\ Len(p_log) = g + p_i + 1
      BY <1>0, <1>3, <3>1 DEF Second
    <3>3. Len(p_log) = g + (p_i + 1) /\ Taken' = Len(p_log)
      BY <1>0, <1>2, <1>4, <3>2, SMT DEF Taken
    <3>4. Second(g)'
      BY <1>0, <1>4, <2>6, <3>2, <3>3 DEF Second
    <3> QED BY <1>0, <2>7, <2>9, <3>4 DEF PInv
  <2> QED BY <1>2, <2>8, <2>9
<1>5. CASE p_pc' = "done" /\ p_ret' = 1 /\ UNCHANGED <<p_file, p_i>>
  <2>1. /\ p_pc' \notin Logged /\ p_pc' \notin FillPcs /\ p_pc' \notin PunchPcs /\ p_ret' # 0
        /\ p_pc' \notin {"open", "fill", "loop", "fill_log", "fill_write", "log", "punch"}
    BY <1>5, SMT DEF Logged, FillPcs, PunchPcs
  <2>2. Common'
    BY <1>0, <1>1, <1>2, <1>5, <2>1, SMT DEF Common
  <2>3. CASE ~ p_replaying
    <3>1. PICK f \in Nat : First(f)
      BY <2>3 DEF PInv
    <3>2. First(f)'
      BY <1>0, <2>1, <3>1 DEF First
    <3> QED BY <1>0, <2>2, <2>3, <3>2 DEF PInv
  <2>4. CASE p_replaying
    <3>1. PICK g \in Nat : Second(g)
      BY <2>4 DEF PInv
    <3>2. Taken' = Taken
      BY <1>0, <1>3, <2>1 DEF Taken
    <3>3. Second(g)'
      BY <1>0, <2>1, <3>1, <3>2 DEF Second
    <3> QED BY <1>0, <2>2, <2>4, <3>3 DEF PInv
  <2> QED BY <1>2, <2>3, <2>4
<1> QED BY <1>4, <1>5 DEF ph_punch_hole

\* punch_holes starts in the invariant.
LEMMA PunchStarts == ASSUME PunchInit PROVE PInv
<1>1. /\ ArgsOK /\ p_start = 0 /\ p_i = 0 /\ p_log = <<>> /\ p_file = [b \in PunchBytes |-> NUL] /\ p_pc = "open"
      /\ p_ret = 0 /\ p_replaying = FALSE /\ given = <<>>
  BY DEF PunchInit, Blank, PunchBytes, PunchBytes, NUL, NUL, ArgsOK
<1>2. given \in Seq(PunchRecords) /\ Len(p_log) = 0 /\ p_max_iter \in Nat
  BY <1>1, SMT DEF ArgsOK
<1>3. Common
  <2>1. p_log \in Seq(PunchRecords) /\ Made(PunchBytes, AsRead(p_log), Len(p_log), p_file)
    BY <1>1, <1>2, MadeNothing
  <2>2. p_file \in [PunchBytes -> PunchChars] /\ p_i \in 0 .. p_max_iter /\ p_start \in Nat /\ p_ret \in 0 .. 1
    BY <1>1, <1>2, SMT DEF PunchChars
  <2>3. p_pc \notin Logged /\ p_pc \in FillPcs /\ p_pc \notin {"fill_log", "fill_write", "log", "punch"}
    BY <1>1 DEF Logged, FillPcs
  <2> QED BY <1>1, <1>2, <2>1, <2>2, <2>3 DEF Common
<1>4. Shape(p_size, p_max_iter, p_log, 0)
  BY <1>2, SMT DEF Shape
<1>5. First(0)
  BY <1>1, <1>2, <1>4, SMT DEF First, FillPcs, PunchPcs, NextStart
<1> QED BY <1>1, <1>3, <1>5 DEF PInv

\* A second run starts from the beginning of a log.
LEMMA PunchRerunStep == ASSUME PInv, Rerun PROVE PInv'
<1>0. /\ UNCHANGED <<p_size, p_max_iter>> /\ PunchBytes' = PunchBytes /\ PunchRecords' = PunchRecords /\ ArgsOK'
      /\ ~ p_replaying /\ p_replaying' = TRUE /\ p_replay' = given'
      /\ p_start' = 0 /\ p_i' = 0 /\ p_log' = <<>> /\ p_file' = [b \in PunchBytes |-> NUL]
      /\ p_pc' = "open" /\ p_ret' = 0
  <2>1. /\ UNCHANGED <<p_size, p_max_iter>> /\ ~ p_replaying /\ p_replaying' = TRUE /\ p_replay' = given'
        /\ p_start' = 0 /\ p_i' = 0 /\ p_log' = <<>> /\ p_file' = [b \in PunchBytes |-> NUL]
        /\ p_pc' = "open" /\ p_ret' = 0
    BY DEF Rerun, Blank, PunchBytes, PunchBytes, NUL, NUL
  <2> QED BY <2>1, ArgsStay DEF PInv, Common, ArgsOK
<1>1. PICK n \in 0 .. Len(p_log) : given' = SubSeq(p_log, 1, n)
  BY DEF Rerun
<1>2. p_log \in Seq(PunchRecords) /\ p_max_iter \in Nat /\ p_size \in Nat
  BY DEF PInv, Common, ArgsOK
<1>3. PICK f \in Nat : Shape(p_size, p_max_iter, p_log, f)
  BY <1>0 DEF PInv, First
<1>4. PICK g \in Nat : Shape(p_size, p_max_iter, given', g)
  BY <1>1, <1>2, <1>3, ShapeFront
<1>5. PICK r \in Seq(PunchRecords) : r = given'
  BY <1>1, <1>2, FrontOf
<1>6. Common'
  <2>1. p_log' \in Seq(PunchRecords) /\ Len(p_log') = 0 /\ Made(PunchBytes, AsRead(p_log)', Len(p_log'), p_file')
    <3>1. p_log' \in Seq(PunchRecords) /\ Len(p_log') = 0
      BY <1>0, SMT
    <3> QED BY <1>0, <3>1, MadeNothing
  <2>2. p_file' \in [PunchBytes -> PunchChars] /\ p_i' \in 0 .. p_max_iter /\ p_start' \in Nat /\ p_ret' \in 0 .. 1
    BY <1>0, <1>2, SMT DEF PunchChars
  <2>3. p_pc' \notin Logged /\ p_pc' \in FillPcs /\ p_pc' \notin {"fill_log", "fill_write", "log", "punch"}
    BY <1>0 DEF Logged, FillPcs
  <2> QED BY <1>0, <1>5, <2>1, <2>2, <2>3 DEF Common
<1>7. Taken' = 0 /\ Len(p_log') = 0
  BY <1>0 DEF Taken
<1>8. SubSeq(r, 0 + 1, Len(r)) = r /\ Len(r) \in Nat
  BY SMT
<1>9. Second(g)'
  <2>1. NextStart(given', 0) = 0
    BY DEF NextStart
  <2> QED BY <1>0, <1>4, <1>5, <1>7, <1>8, <2>1, SMT DEF Second, FillPcs
<1> QED BY <1>0, <1>6, <1>9 DEF PInv

\* Every step of punch_holes keeps the invariant.
LEMMA PunchKeeps == ASSUME ~ BadWrites, PInv, [PunchNext]_punchVars PROVE PInv'
<1>1. CASE PunchOpen \/ FillCutShort \/ FillEnds \/ PunchFinish
  BY <1>1, PunchMovesOn
<1>2. CASE PunchFill
  BY <1>2, PunchFillStep
<1>3. CASE ph_log_write
  BY <1>3, PunchLogStep
<1>4. CASE ph_do_write
  BY <1>4, PunchWriteStep
<1>5. CASE PunchPrepare
  BY <1>5, PunchPrepareStep
<1>6. CASE ph_punch_hole
  BY <1>6, PunchHoleStep
<1>7. CASE Rerun
  BY <1>7, PunchRerunStep
<1>8. CASE PunchDone \/ UNCHANGED punchVars
  <2>1. UNCHANGED <<p_size, p_max_iter, p_replaying, given, p_start, p_i, p_wu, p_replay, p_log, p_file, p_pc, p_ret>>
    BY <1>8 DEF PunchDone, punchVars, punchArgs
  <2>2. PunchBytes' = PunchBytes /\ PunchRecords' = PunchRecords /\ ArgsOK' = ArgsOK
    BY <2>1, ArgsStay DEF ArgsOK
  <2>3. Common' = Common
    BY <2>1, <2>2 DEF Common, AsRead
  <2>4. \A f \in Nat : First(f)' = First(f)
    BY <2>1 DEF First
  <2>5. \A g \in Nat : Second(g)' = Second(g)
    BY <2>1 DEF Second, Taken
  <2> QED BY <2>1, <2>3, <2>4, <2>5 DEF PInv
<1> QED BY <1>1, <1>2, <1>3, <1>4, <1>5, <1>6, <1>7, <1>8 DEF PunchNext, PunchStep

\* The invariant says what the properties of punch_holes say.
LEMMA PunchSays ==
    ASSUME PInv
    PROVE  FileFollowsPunchLog /\ UnitsStayInFile /\ ReplayRepeats
<1>0. /\ Common /\ p_log \in Seq(PunchRecords) /\ given \in Seq(PunchRecords) /\ Len(p_log) \in Nat
      /\ p_file \in [PunchBytes -> PunchChars] /\ p_replaying \in BOOLEAN
  BY SMT DEF PInv, Common
<1>1. FileFollowsPunchLog
  <2>1. CASE p_pc \in Logged
    <3> DEFINE done == SubSeq(p_log, 1, Len(p_log) - 1)
    <3>1. Len(p_log) - 1 \in 0 .. Len(p_log) /\ Len(p_log) - 1 \in Nat
          /\ Made(PunchBytes, AsRead(p_log), Len(p_log) - 1, p_file)
      BY <1>0, <2>1, SMT DEF Common
    <3>2. done \in Seq(PunchRecords) /\ Len(done) = Len(p_log) - 1 /\ \A k \in 1 .. Len(p_log) - 1 : p_log[k] = done[k]
      BY <1>0, <3>1, FrontOf
    <3> HIDE DEF done
    <3>3. Len(AsRead(done)) = Len(p_log) - 1 /\ \A k \in 1 .. Len(p_log) - 1 : AsRead(p_log)[k] = AsRead(done)[k]
      <4>1. \A k \in 1 .. Len(p_log) : AsRead(p_log)[k] = [p_log[k] EXCEPT !.ch = HoleChar(@)]
        BY <1>0, AsReadAt
      <4>2. Len(AsRead(done)) = Len(done)
            /\ \A k \in 1 .. Len(done) : AsRead(done)[k] = [done[k] EXCEPT !.ch = HoleChar(@)]
        BY <3>2, AsReadAt
      <4>3. \A k \in 1 .. Len(p_log) - 1 : k \in 1 .. Len(p_log) /\ k \in 1 .. Len(done)
        BY <1>0, <3>2, SMT
      <4> QED BY <3>2, <4>1, <4>2, <4>3, ZenonT(40)
    <3>4. Made(PunchBytes, AsRead(done), Len(p_log) - 1, p_file)
      BY <3>1, <3>3, MadeSame
    <3>5. p_file = LastWriterWins(PunchBytes, AsRead(done))
      BY <1>0, <3>1, <3>3, <3>4, MadeWins
    <3> QED BY <2>1, <3>5 DEF FileFollowsPunchLog, Logged, done
  <2>2. CASE p_pc \notin Logged /\ (p_pc # "done" \/ p_ret = 0)
    <3>1. Made(PunchBytes, AsRead(p_log), Len(p_log), p_file) /\ Len(AsRead(p_log)) = Len(p_log)
      BY <1>0, <2>2, AsReadAt DEF Common
    <3>2. p_file = LastWriterWins(PunchBytes, AsRead(p_log))
      BY <1>0, <3>1, MadeWins
    <3> QED BY <2>2, <3>2 DEF FileFollowsPunchLog, Logged
  <2>3. CASE p_pc = "done" /\ p_ret # 0
    BY <2>3 DEF FileFollowsPunchLog
  <2> QED BY <2>1, <2>2, <2>3
<1>2. UnitsStayInFile
  <2> SUFFICES ASSUME p_pc \in {"fill_log", "fill_write", "log", "punch"}, ~ p_replaying
               PROVE  p_wu.len \in 1 .. MAX_WRITE_SIZE /\ End(p_wu) <= p_size
    BY DEF UnitsStayInFile
  <2>1. p_wu \in PunchRecords /\ p_size \in Nat
    BY <1>0 DEF Common, ArgsOK
  <2>2. p_wu.len <= MAX_WRITE_SIZE /\ MAX_WRITE_SIZE \in Nat
    BY PunchConstants DEF PInv, First, HeaderOK
  <2> QED BY <2>1, <2>2, SMT DEF PunchRecords, PunchBytes, End, End
<1>3. ReplayRepeats
  <2> SUFFICES ASSUME p_pc = "done", p_replaying, p_ret = 0 PROVE p_log = given
    BY DEF ReplayRepeats
  <2>1. Len(p_log) = Len(given) /\ \A k \in 1 .. Len(p_log) : p_log[k] = given[k]
    BY DEF PInv, Second
  <2> QED BY <1>0, <2>1, SameSeq
<1> QED BY <1>1, <1>2, <1>3

\* punch_holes, for every size of the file, every number of holes and every
\* beginning of its log given back to it: log and file agree up to the pending
\* operation, no drawn operation leaves the file, and a replay that ends with 0
\* has repeated the log, as long as no write falls short.
THEOREM PunchHolesCorrect == ASSUME ~ BadWrites PROVE PunchSpec => []PunchFollowsLog
<1>1. PunchInit => PInv
  BY PunchStarts
<1>2. PInv /\ [PunchNext]_punchVars => PInv'
  BY PunchKeeps
<1>3. PInv => PunchFollowsLog
  BY PunchSays DEF PunchFollowsLog
<1> QED BY <1>1, <1>2, <1>3, PTL DEF PunchSpec

-----------------------------------------------------------------------------
(* verify_truncate. *)

CS == clustersize

\* A product grows with its factor.
LEMMA ProductGrows ==
    ASSUME NEW a \in Nat, NEW b \in Nat, NEW c \in Nat, a <= b
    PROVE  a * c \in Nat /\ a * c <= b * c
<1>1. PICK d \in Nat : b = a + d
  <2>1. b - a \in Nat /\ b = a + (b - a)
    BY SMT
  <2> QED BY <2>1
<1>2. d * c \in Nat /\ a * c \in Nat
  BY SMT
<1>3. b * c = a * c + d * c
  BY <1>1, SMT
<1> QED BY <1>2, <1>3, SMT

\* Quotient and remainder.
LEMMA Quotient ==
    ASSUME NEW a \in Nat, NEW b \in Nat \ {0}
    PROVE  /\ a \div b \in Nat /\ a % b \in 0 .. b - 1
           /\ a = (a \div b) * b + (a % b)
<1>1. a \div b \in Nat /\ a % b \in 0 .. b - 1
  BY SMT
<1>2. a = (a \div b) * b + (a % b)
  BY SMT
<1> QED BY <1>1, <1>2

\* The size of the clusters, and what they add up to.
LEMMA Sizes == CS \in Nat \ {0} /\ clusters \in Nat /\ TruncMax \in Nat /\ TruncMax = clusters * CS
<1>1. CS \in Nat \ {0} /\ clusters \in Nat
  BY TruncConstants DEF CS
<1> QED BY <1>1, SMT DEF TruncMax, CS

\* How a size is laid out: e clusters, the last of which it reaches into or fills,
\* and what this last one must hold.
Layout(size, e, last) ==
    /\ e \in Nat /\ size <= e * CS /\ e * CS <= TruncMax
    /\ e > 0 => (e - 1) * CS < size
    /\ last = [k \in Places |-> IF (e - 1) * CS + k < size THEN "pat" ELSE "nul"]

\* file_truncate lays a size out so, also one of 0 or of whole clusters.
LEMMA LaidOut ==
    ASSUME NEW size \in 0 .. TruncMax
    PROVE  /\ LastCluster(size) \in Int
           /\ Layout(size, LastCluster(size) + 1, LastPattern(size))
<1> DEFINE q == size \div CS
           r == size % CS
<1>0. CS \in Nat /\ CS > 0 /\ clusters \in Nat /\ TruncMax \in Nat /\ TruncMax = clusters * CS /\ size \in Nat
      /\ size <= TruncMax
  BY Sizes, SMT
<1>1. q \in Nat /\ r \in 0 .. CS - 1 /\ size = q * CS + r
  BY <1>0, Quotient, SMT
<1>2. /\ LastCluster(size) = IF r # 0 THEN q ELSE q - 1
      /\ LastPattern(size) = [k \in Places |-> IF r # 0 /\ k >= r THEN "nul" ELSE "pat"]
  BY DEF LastCluster, LastPattern, pattern, CS
<1>3. Places = 0 .. CS - 1
  BY DEF Places, CS
<1> HIDE DEF q, r
<1>4. PICK m \in Nat : m = q * CS
  BY <1>0, <1>1, SMT
<1>5. CASE r # 0
  <2>1. LastCluster(size) = q /\ (q + 1) - 1 = q /\ q + 1 \in Nat /\ q + 1 > 0
    BY <1>1, <1>2, <1>5, SMT
  <2>2. (q + 1) * CS = m + CS
    BY <1>0, <1>1, <1>4, SMT
  <2>3. (q + 1) * CS <= TruncMax
    <3>1. CASE q + 1 <= clusters
      BY <1>0, <2>1, <3>1, ProductGrows
    <3>2. CASE clusters <= q
      <4>1. clusters * CS <= q * CS
        BY <1>0, <1>1, <3>2, ProductGrows
      <4> QED BY <1>0, <1>1, <1>4, <1>5, <4>1, SMT
    <3> QED BY <1>0, <1>1, <3>1, <3>2, SMT
  <2>4. \A k \in Places : (m + k < size) <=> ~ (k >= r)
    BY <1>1, <1>3, <1>4, SMT
  <2>5. m + CS >= size /\ m < size
    BY <1>0, <1>1, <1>4, <1>5, SMT
  <2> QED BY <1>2, <1>4, <1>5, <2>1, <2>2, <2>3, <2>4, <2>5, SMT DEF Layout
<1>6. CASE r = 0
  <2>1. LastCluster(size) = q - 1 /\ (q - 1) + 1 = q /\ size = m /\ q - 1 \in Int
    BY <1>1, <1>2, <1>4, <1>6, SMT
  <2>2. q > 0 => (q - 1) * CS < size
    <3> SUFFICES ASSUME q > 0 PROVE (q - 1) * CS < size
      OBVIOUS
    <3>1. (q - 1) * CS = q * CS - CS
      BY <1>0, <1>1, SMT
    <3> QED BY <1>0, <1>4, <2>1, <3>1, SMT
  <2>3. \A k \in Places : (q - 1) * CS + k < size
    <3>1. (q - 1) * CS = q * CS - CS
      BY <1>0, <1>1, SMT
    <3>2. (q - 1) * CS = m - CS
      BY <1>4, <3>1
    <3> QED BY <1>0, <1>3, <2>1, <3>2, SMT
  <2>4. size <= q * CS /\ q * CS <= TruncMax
    BY <1>0, <1>4, <2>1, SMT
  <2>5. LastPattern(size) = [k \in Places |-> IF (q - 1) * CS + k < size THEN "pat" ELSE "nul"]
    BY <1>2, <1>6, <2>3
  <2> QED BY <1>1, <2>1, <2>2, <2>4, <2>5 DEF Layout
<1> QED BY <1>1, <1>5, <1>6

-----------------------------------------------------------------------------
\* The clusters the file has been cut to.
Kept == last_cluster + 1

\* A cluster compared with the pattern holds it.
Compared(c) == \A k \in Places : t_file[c * CS + k] = "pat"

\* The inductive invariant of verify_truncate: the layout of the size drawn is
\* known from file_truncate on, the size is whole clusters from the second
\* truncate on, and what has been compared holds what it was compared with.
TInv ==
    /\ new_size \in 0 .. TruncMax
    /\ t_pc \in {"extend", "open", "clusters", "last", "unlink"} =>
           last_cluster \in Int /\ Layout(new_size, Kept, last_pattern)
    /\ t_pc = "extend" => isize = new_size /\ last_cluster = LastCluster(new_size)
    /\ t_pc \in {"open", "clusters", "last", "unlink"} => isize = Kept * CS
    /\ t_pc \in {"clusters", "last"} =>
           last_cluster >= 0 /\ t_i \in Nat /\ \A c \in Nat : c < t_i => Compared(c)
    /\ t_pc = "last" => t_i >= last_cluster - 1
    /\ t_pc = "unlink" /\ last_cluster >= 0 =>
           /\ t_i \in Nat /\ \A c \in Nat : c < t_i => Compared(c)
           /\ \A k \in Places : t_file[last_cluster * CS + k] = last_pattern[k]

\* verify_truncate starts in the invariant.
LEMMA TruncStarts == ASSUME TruncInit PROVE TInv
BY Sizes, SMT DEF TruncInit, TInv

\* The second truncate makes the file whole clusters.
LEMMA ExtendsToClusters ==
    ASSUME NEW size \in 0 .. TruncMax
    PROVE  IF size % clustersize # 0
           THEN (size \div clustersize + 1) * clustersize = (LastCluster(size) + 1) * CS
           ELSE size = (LastCluster(size) + 1) * CS
<1>0. CS \in Nat \ {0} /\ size \in Nat
  BY Sizes, SMT
<1>1. size \div CS \in Nat /\ size % CS \in 0 .. CS - 1 /\ size = (size \div CS) * CS + (size % CS)
  BY <1>0, Quotient
<1>2. CASE size % CS # 0
  BY <1>2 DEF LastCluster, CS
<1>3. CASE size % CS = 0
  <2>1. LastCluster(size) + 1 = size \div CS
    BY <1>1, <1>3, SMT DEF LastCluster, CS
  <2>2. size = (size \div CS) * CS
    BY <1>0, <1>1, <1>3, SMT
  <2> QED BY <1>3, <2>1, <2>2 DEF CS
<1> QED BY <1>2, <1>3

\* Every step of verify_truncate keeps the invariant.
LEMMA TruncKeeps == ASSUME TInv, [TruncNext]_truncVars PROVE TInv'
<1>0. new_size \in 0 .. TruncMax
  BY DEF TInv
<1>1. CASE Fails
  BY <1>0, <1>1 DEF Fails, TruncStop, TInv
<1>2. CASE TruncPrepare /\ ~ Fails
  <2>1. new_size' \in 0 .. TruncMax /\ t_pc' = "truncate"
    BY <1>2 DEF TruncPrepare
  <2> QED BY <2>1 DEF TInv
<1>3. CASE file_truncate /\ ~ Fails
  <2>1. /\ isize' = new_size /\ new_size' = new_size /\ t_pc' = "extend"
        /\ last_pattern' = LastPattern(new_size) /\ last_cluster' = LastCluster(new_size)
    BY <1>3 DEF file_truncate
  <2>2. last_cluster' \in Int /\ Layout(new_size', last_cluster' + 1, last_pattern')
    BY <1>0, <2>1, LaidOut
  <2> QED BY <1>0, <2>1, <2>2 DEF TInv, Kept
<1>4. CASE Extend /\ ~ Fails
  <2>1. /\ t_pc = "extend" /\ t_pc' = "open" /\ UNCHANGED <<t_file, new_size, last_pattern, last_cluster>>
        /\ isize' = IF new_size % clustersize # 0
                    THEN (new_size \div clustersize + 1) * clustersize ELSE isize
    BY <1>4 DEF Extend
  <2>2. /\ isize = new_size /\ last_cluster = LastCluster(new_size)
        /\ last_cluster \in Int /\ Layout(new_size, Kept, last_pattern)
    BY <2>1 DEF TInv
  <2>3. isize' = Kept * CS
    BY <1>0, <2>1, <2>2, ExtendsToClusters DEF Kept
  <2> QED BY <1>0, <2>1, <2>2, <2>3 DEF TInv, Kept
<1>5. CASE TruncOpen /\ ~ Fails
  <2>1. /\ t_pc = "open" /\ t_pc' = IF last_cluster < 0 THEN "unlink" ELSE "clusters"
        /\ t_i' = 0 /\ UNCHANGED <<t_file, isize, new_size, last_pattern, last_cluster>>
    BY <1>5 DEF TruncOpen
  <2>2. last_cluster \in Int /\ Layout(new_size, Kept, last_pattern) /\ isize = Kept * CS
    BY <2>1 DEF TInv
  <2> QED BY <1>0, <2>1, <2>2, SMT DEF TInv, Kept
<1>6. CASE CheckClusters /\ ~ Fails
  <2>1. t_pc = "clusters" /\ UNCHANGED <<t_file, isize, new_size, last_pattern, last_cluster>>
    BY <1>6 DEF CheckClusters
  <2>2. /\ last_cluster \in Int /\ Layout(new_size, Kept, last_pattern) /\ isize = Kept * CS
        /\ last_cluster >= 0 /\ t_i \in Nat /\ \A c \in Nat : c < t_i => Compared(c)
    BY <2>1 DEF TInv
  <2>3. CASE t_pc' = "last" /\ t_i' = t_i /\ t_i >= last_cluster - 1
    BY <1>0, <2>1, <2>2, <2>3 DEF TInv, Kept, Compared
  <2>4. CASE t_pc' = "end"
    BY <1>0, <2>1, <2>4 DEF TInv
  <2>5. CASE Same(t_i, pattern) /\ t_i' = t_i + 1 /\ t_pc' = t_pc
    <3>1. Compared(t_i)
      BY <2>5 DEF Same, Cluster, pattern, Compared, CS
    <3>2. \A c \in Nat : c < t_i' => Compared(c)
      BY <2>2, <2>5, <3>1, SMT
    <3> QED BY <1>0, <2>1, <2>2, <2>5, <3>2, SMT DEF TInv, Kept, Compared
  <2> QED BY <1>6, <2>3, <2>4, <2>5 DEF CheckClusters, TruncStop
<1>7. CASE CheckLast /\ ~ Fails
  <2>1. t_pc = "last" /\ UNCHANGED <<t_file, isize, new_size, last_pattern, last_cluster, t_i>>
    BY <1>7 DEF CheckLast
  <2>2. /\ last_cluster \in Int /\ Layout(new_size, Kept, last_pattern) /\ isize = Kept * CS
        /\ last_cluster >= 0 /\ t_i \in Nat /\ \A c \in Nat : c < t_i => Compared(c)
        /\ t_i >= last_cluster - 1
    BY <2>1 DEF TInv
  <2>3. CASE t_pc' = "end"
    BY <1>0, <2>1, <2>3 DEF TInv
  <2>4. CASE t_pc' = "unlink" /\ Same(last_cluster, last_pattern)
    <3>1. \A k \in Places : t_file[last_cluster * CS + k] = last_pattern[k]
      BY <2>4 DEF Same, Cluster, CS
    <3> QED BY <1>0, <2>1, <2>2, <2>4, <3>1 DEF TInv, Kept, Compared
  <2> QED BY <1>7, <2>3, <2>4 DEF CheckLast, TruncStop
<1>8. CASE Unlink /\ ~ Fails
  <2>1. t_pc' \in {"prep", "end"} /\ new_size' = new_size
    BY <1>8 DEF Unlink
  <2> QED BY <1>0, <2>1 DEF TInv
<1>9. CASE UNCHANGED truncVars
  BY <1>9 DEF truncVars, TInv, Kept, Compared
<1> QED BY <1>1, <1>2, <1>3, <1>4, <1>5, <1>6, <1>7, <1>8, <1>9 DEF TruncNext, TruncStep

\* The bytes of cluster c, of e clusters, lie inside the file, and all of them
\* before size when another cluster follows.
LEMMA BytesOfCluster ==
    ASSUME NEW size \in 0 .. TruncMax, NEW e, NEW last, Layout(size, e, last),
           NEW c \in Nat, c < e, NEW k \in Places
    PROVE  /\ c * CS + k \in TruncBytes
           /\ c + 1 < e => c * CS + k < size
           /\ (c + 1) * CS <= e * CS
           /\ c + 1 = e => (c * CS + k < size <=> last[k] = "pat") /\ last[k] \in {"pat", "nul"}
<1>0. CS \in Nat \ {0} /\ TruncMax \in Nat /\ k \in Nat /\ k < CS /\ e \in Nat /\ size \in Nat /\ c + 1 \in Nat
  BY Sizes, SMT DEF Layout, Places, CS
<1>1. PICK m \in Nat : m = c * CS
  BY <1>0, SMT
<1>2. (c + 1) * CS = m + CS
  BY <1>0, <1>1, SMT
<1>3. (c + 1) * CS <= e * CS
  BY <1>0, ProductGrows, SMT
<1>4. PICK t \in Nat : t = e * CS
  BY <1>0, SMT
<1>5. t <= TruncMax
  BY <1>4 DEF Layout
<1>6. m + k \in TruncBytes
  BY <1>0, <1>2, <1>3, <1>4, <1>5, SMT DEF TruncBytes
<1>7. ASSUME c + 1 < e PROVE m + k < size
  <2>1. e - 1 \in Nat /\ c + 1 <= e - 1 /\ e > 0
    BY <1>0, <1>7, SMT
  <2>2. (c + 1) * CS <= (e - 1) * CS
    BY <1>0, <2>1, ProductGrows
  <2>3. PICK d \in Nat : d = (e - 1) * CS
    BY <1>0, <2>1, SMT
  <2>4. d < size
    BY <2>1, <2>3 DEF Layout
  <2> QED BY <1>0, <1>2, <2>2, <2>3, <2>4, SMT
<1>8. ASSUME c + 1 = e PROVE (m + k < size <=> last[k] = "pat") /\ last[k] \in {"pat", "nul"}
  <2>1. e - 1 = c
    BY <1>0, <1>8, SMT
  <2>2. last[k] = IF (e - 1) * CS + k < size THEN "pat" ELSE "nul"
    BY DEF Layout
  <2>3. last[k] = IF m + k < size THEN "pat" ELSE "nul"
    BY <1>1, <2>1, <2>2
  <2> QED BY <2>3
<1> QED BY <1>1, <1>3, <1>6, <1>7, <1>8

\* Nothing wrong in a cluster that was read is accepted.
LEMMA Accepts == ASSUME TInv PROVE AcceptedIsRight
<1> SUFFICES ASSUME t_pc = "unlink", NEW b \in 0 .. isize - 1,
                    b < t_i * clustersize \/ b >= last_cluster * clustersize
             PROVE  Right(b)
  BY DEF AcceptedIsRight
<1>0. /\ CS \in Nat \ {0} /\ new_size \in 0 .. TruncMax /\ last_cluster \in Int
      /\ Layout(new_size, Kept, last_pattern) /\ isize = Kept * CS /\ Kept \in Nat
      /\ Kept = last_cluster + 1
  BY Sizes DEF TInv, Layout, Kept
<1>1. PICK t \in Nat : t = isize
  BY <1>0, SMT
<1>2. b \in Nat /\ b < t
  BY <1>1, SMT
<1> DEFINE c == b \div CS
           k == b % CS
<1>3. c \in Nat /\ k \in 0 .. CS - 1 /\ b = c * CS + k
  BY <1>0, <1>2, Quotient
<1>4. Places = 0 .. CS - 1 /\ (b < t_i * CS \/ b >= last_cluster * CS)
  BY DEF Places, CS
<1> HIDE DEF c, k
<1>5. c < Kept
  <2>1. PICK m \in Nat : m = c * CS
    BY <1>0, <1>3, SMT
  <2>2. CASE Kept <= c
    <3>1. Kept * CS <= c * CS
      BY <1>0, <1>3, <2>2, ProductGrows
    <3> QED BY <1>0, <1>1, <1>2, <1>3, <2>1, <3>1, SMT
  <2> QED BY <1>0, <1>3, <2>2, SMT
<1>6. last_cluster >= 0
  BY <1>0, <1>3, <1>5, SMT
<1>7. CASE c = last_cluster
  <2>1. t_file[b] = last_pattern[k]
    BY <1>3, <1>4, <1>6, <1>7 DEF TInv
  <2>2. c + 1 = Kept
    BY <1>0, <1>7
  <2>3. (b < new_size <=> last_pattern[k] = "pat") /\ last_pattern[k] \in {"pat", "nul"}
    <3>1. c \in Nat /\ k \in Places
      BY <1>3, <1>4
    <3>2. Layout(new_size, c + 1, last_pattern) /\ c < c + 1
      BY <1>0, <2>2, <3>1, SMT
    <3>3. (c * CS + k < new_size <=> last_pattern[k] = "pat") /\ last_pattern[k] \in {"pat", "nul"}
      BY <1>0, <3>1, <3>2, BytesOfCluster
    <3> QED BY <1>3, <3>3
  <2> QED BY <2>1, <2>3 DEF Right
<1>8. CASE c < last_cluster
  <2>1. t_i \in Nat /\ c + 1 \in Nat /\ c + 1 <= last_cluster /\ last_cluster \in Nat
    <3>1. t_i \in Nat
      BY <1>6 DEF TInv
    <3> QED BY <1>0, <1>3, <1>6, <1>8, <3>1, SMT
  <2>2. b < t_i * CS
    <3>1. (c + 1) * CS <= last_cluster * CS
      BY <1>0, <2>1, ProductGrows
    <3>2. PICK m \in Nat, n \in Nat : m = c * CS /\ n = last_cluster * CS
      BY <1>0, <1>3, <2>1, SMT
    <3>3. (c + 1) * CS = m + CS
      BY <1>0, <1>3, <3>2, SMT
    <3>4. b < n
      BY <1>0, <1>3, <3>1, <3>2, <3>3, SMT
    <3>5. ~ (b >= n)
      BY <1>2, <3>2, <3>4, SMT
    <3> QED BY <1>4, <3>2, <3>5
  <2>3. c < t_i
    <3>1. CASE t_i <= c
      <4>1. t_i * CS <= c * CS
        BY <1>0, <1>3, <2>1, <3>1, ProductGrows
      <4>2. PICK m \in Nat, n \in Nat : m = c * CS /\ n = t_i * CS
        BY <1>0, <1>3, <2>1, SMT
      <4> QED BY <1>0, <1>3, <2>2, <4>1, <4>2, SMT
    <3> QED BY <1>3, <2>1, <3>1, SMT
  <2>4. t_file[b] = "pat"
    BY <1>3, <1>4, <1>6, <2>3 DEF TInv, Compared
  <2>5. c \in Nat /\ k \in Places
    BY <1>3, <1>4
  <2>6. c + 1 < Kept
    <3>1. last_cluster \in Int /\ Kept = last_cluster + 1
      BY <1>0
    <3> QED BY <1>8, <2>5, <3>1, SMT
  <2>7. b < new_size
    <3>1. c * CS + k < new_size
      BY <1>0, <1>5, <2>5, <2>6, BytesOfCluster
    <3> QED BY <1>3, <3>1
  <2> QED BY <2>4, <2>7 DEF Right
<1> QED BY <1>0, <1>3, <1>5, <1>7, <1>8, SMT

\* A file that is right passes every comparison, and each of them reads bytes of
\* the file only.
LEMMA RaisesNoAlarm == ASSUME TInv PROVE NoFalseAlarm
<1>0. CS \in Nat \ {0} /\ new_size \in 0 .. TruncMax /\ CS = clustersize
  BY Sizes DEF TInv, CS
<1>1. ASSUME t_pc \in {"clusters", "last"}
      PROVE  /\ last_cluster \in Nat /\ Layout(new_size, Kept, last_pattern) /\ isize = Kept * CS /\ Kept \in Nat
             /\ Kept = last_cluster + 1 /\ t_i \in Nat
  BY <1>1, SMT DEF TInv, Layout, Kept
<1>2. ASSUME t_pc = "clusters", t_i < last_cluster - 1
      PROVE  /\ (t_i + 1) * clustersize <= isize
             /\ (\A b \in TruncBytes : Right(b)) => Same(t_i, pattern)
  <2>1. t_i < Kept /\ t_i + 1 < Kept /\ t_i \in Nat /\ 0 \in Places
    BY <1>0, <1>1, <1>2, SMT DEF Places
  <2>2. (t_i + 1) * CS <= Kept * CS
    BY <1>0, <1>1, <1>2, <2>1, BytesOfCluster
  <2>3. ASSUME \A b \in TruncBytes : Right(b), NEW k \in Places
        PROVE  t_file[t_i * CS + k] = "pat"
    <3>1. t_i * CS + k \in TruncBytes /\ t_i * CS + k < new_size
      BY <1>0, <1>1, <1>2, <2>1, BytesOfCluster
    <3> QED BY <2>3, <3>1 DEF Right
  <2> QED BY <1>0, <1>1, <1>2, <2>2, <2>3 DEF Same, Cluster, pattern
<1>3. ASSUME t_pc = "last"
      PROVE  /\ (last_cluster + 1) * clustersize <= isize
             /\ (\A b \in TruncBytes : Right(b)) => Same(last_cluster, last_pattern)
  <2>1. last_cluster < Kept /\ last_cluster + 1 = Kept /\ last_cluster \in Nat
    BY <1>1, <1>3, SMT
  <2>2. (last_cluster + 1) * CS <= isize
    <3>1. PICK t \in Nat : t = Kept * CS
      BY <1>0, <1>1, <1>3, SMT
    <3> QED BY <1>1, <1>3, <2>1, <3>1, SMT
  <2>3. ASSUME \A b \in TruncBytes : Right(b), NEW k \in Places
        PROVE  t_file[last_cluster * CS + k] = last_pattern[k]
    <3>1. /\ last_cluster * CS + k \in TruncBytes
          /\ last_cluster * CS + k < new_size <=> last_pattern[k] = "pat"
          /\ last_pattern[k] \in {"pat", "nul"}
      BY <1>0, <1>1, <1>3, <2>1, BytesOfCluster, SMT
    <3> QED BY <2>3, <3>1 DEF Right
  <2>4. last_pattern = [k \in Places |-> last_pattern[k]]
    BY <1>1, <1>3 DEF Layout
  <2> QED BY <1>0, <2>2, <2>3, <2>4 DEF Same, Cluster
<1> QED BY <1>2, <1>3 DEF NoFalseAlarm

\* verify_truncate, for every cluster size and every number of clusters and
\* iterations: each size drawn, 0 and whole clusters included, leads to clusters
\* and patterns that fit the truncated file, so that there is no false alarm, no
\* stale buffer is compared, and nothing wrong that was read is accepted, the range
\* behind the new size included.
THEOREM TruncateVerdictExact == TruncSpec => []TruncateVerdict
<1>1. TruncInit => TInv
  BY TruncStarts
<1>2. TInv /\ [TruncNext]_truncVars => TInv'
  BY TruncKeeps
<1>3. TInv => TruncateVerdict
  BY Accepts, RaisesNoAlarm DEF TruncateVerdict
<1> QED BY <1>1, <1>2, <1>3, PTL DEF TruncSpec
=============================================================================
