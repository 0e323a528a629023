--------------------------- MODULE LockGrab_proofs ---------------------------
(***************************************************************************)
(* Proofs about LockGrab for every set of nodes, every number of locks and *)
(* every water marks that parse_args accepts; and about LockGrabArgs for   *)
(* all defaults and every number on the command line.                      *)
(***************************************************************************)
EXTENDS LockGrab, LockGrabArgs, TLAPS

\* Zenon is the prover of a leaf that names none.
USE Zenon

\* Two arrays split the lock names between their first m and k slots.
Split(a, m, b, k) ==
    /\ a \in [Locks -> Locks \cup {NULL}] /\ b \in [Locks -> Locks \cup {NULL}]
    /\ \A i \in Locks : IF i < m THEN a[i] \in Locks ELSE a[i] = NULL
    /\ \A i \in Locks : IF i < k THEN b[i] \in Locks ELSE b[i] = NULL
    /\ \A i, j \in Locks : i < m /\ j < m /\ a[i] = a[j] => i = j
    /\ \A i, j \in Locks : i < k /\ j < k /\ b[i] = b[j] => i = j
    /\ \A i, j \in Locks : i < m /\ j < k => a[i] # b[j]
    /\ \A l \in Locks : (\E i \in Locks : i < m /\ a[i] = l) \/ (\E j \in Locks : j < k /\ b[j] = l)

\* The array with name l put in slot c.
PutAt(a, c, l) == [a EXCEPT ![c] = l]

ListInv == \A n \in Nodes : Split(lg_held[n], lg_cur_held[n], lg_free[n], lg_num_locks - lg_cur_held[n])

\* Where the slot that pick_lock chose is used it is one of the names there are.
NumInv ==
    \A n \in Nodes :
        /\ pc[n] = "pr_lock" => direction[n] = "LOCK"
        /\ pc[n] = "pr_unlock" => direction[n] = "UNLOCK"
        /\ pc[n] \in {"pr_lock", "pr_unlock"} => num[n] < Count(n, direction[n])
        /\ pc[n] = "ex_held" => num[n] < Count(n, "LOCK")
        /\ pc[n] = "ex_try" => todo[n] > 0

\* Name l is in one of the first m slots of array a.
In(a, m, l) == \E k \in Locks : k < m /\ a[k] = l

Holds(n, l) == In(lg_held[n], lg_cur_held[n], l)

\* The DLM's side: PR is what the array of held names says, EX is the one lock
\* of a node between its trylock and its unlock, and a node that left has none.
DlmInv ==
    \A n \in Nodes, l \in Locks :
        /\ pc[n] # "done" => (dlm[l][n] = "PR" <=> Holds(n, l))
        /\ dlm[l][n] = "EX" => pc[n] = "ex_held" /\ lg_free[n][num[n]] = l
        /\ pc[n] = "done" => dlm[l][n] = "NL"

IInv == TypeOK /\ NeverEmptyChoice /\ NumInv /\ ListInv /\ DlmInv

\* Lock names are the slot numbers, and NULL is none of them.
LEMMA LocksAreNat == ASSUME ConstantsOK PROVE Locks \subseteq Nat /\ NULL \notin Locks
BY SMT DEF ConstantsOK, Locks

\* It does not matter which of the two arrays comes first.
LEMMA SplitSymmetric ==
    ASSUME NEW a, NEW b, NEW m, NEW k, Split(a, m, b, k)
    PROVE  Split(b, k, a, m)
BY DEF Split

\* shift_lock: memmove in the source array and the moved name at the end of the
\* destination array leave the names split between the two.
LEMMA ShiftKeepsSplit ==
    ASSUME ConstantsOK, NEW src, NEW dst, NEW sc \in Nat, NEW dc \in Nat,
           NEW s \in Locks, s < sc, sc + dc = lg_num_locks, Split(src, sc, dst, dc)
    PROVE  Split(ShiftDown(src, sc, s), sc - 1, PutAt(dst, dc, src[s]), dc + 1)
<1> DEFINE src2 == ShiftDown(src, sc, s)
           dst2 == PutAt(dst, dc, src[s])
<1>0. /\ lg_num_locks \in Nat /\ dc \in Nat /\ dc \in Locks /\ Locks \subseteq Nat /\ NULL \notin Locks
      /\ src \in [Locks -> Locks \cup {NULL}] /\ dst \in [Locks -> Locks \cup {NULL}] /\ src[s] \in Locks
  BY LocksAreNat, SMT DEF ConstantsOK, Locks, Split
<1>1. \A i \in Locks : src2[i] = IF i = sc - 1 THEN NULL ELSE IF s <= i /\ i < sc - 1 THEN src[i + 1] ELSE src[i]
  BY <1>0 DEF ShiftDown
<1>2. \A i \in Locks : dst2[i] = IF i = dc THEN src[s] ELSE dst[i]
  BY <1>0 DEF PutAt
<1>3. \A i \in Locks : i < sc - 1 => i + 1 \in Locks
  BY <1>0, SMT DEF Locks
<1>4. src2 \in [Locks -> Locks \cup {NULL}] /\ dst2 \in [Locks -> Locks \cup {NULL}]
  BY <1>0, <1>3 DEF ShiftDown, PutAt
<1>5. \A i \in Locks : IF i < sc - 1 THEN src2[i] \in Locks ELSE src2[i] = NULL
  BY <1>0, <1>1, <1>3, SMT DEF Split
<1>6. \A i \in Locks : IF i < dc + 1 THEN dst2[i] \in Locks ELSE dst2[i] = NULL
  BY <1>0, <1>2, SMT DEF Split
<1>7. \A i, j \in Locks : i < sc - 1 /\ j < sc - 1 /\ src2[i] = src2[j] => i = j
  <2> SUFFICES ASSUME NEW i \in Locks, NEW j \in Locks, i < sc - 1, j < sc - 1, src2[i] = src2[j] PROVE i = j
    OBVIOUS
  <2>1. src2[i] = (IF s <= i THEN src[i + 1] ELSE src[i]) /\ src2[j] = (IF s <= j THEN src[j + 1] ELSE src[j])
    BY <1>0, <1>1, SMT
  <2>2. i + 1 \in Locks /\ j + 1 \in Locks /\ i + 1 < sc /\ j + 1 < sc /\ i < sc /\ j < sc
    BY <1>0, <1>3, SMT
  <2>3. \A x, y \in Locks : x < sc /\ y < sc /\ src[x] = src[y] => x = y
    BY DEF Split
  <2>4. i \in Nat /\ j \in Nat /\ s \in Nat
    BY <1>0
  <2>5. CASE s <= i /\ s <= j
    <3>1. src[i + 1] = src[j + 1]
      BY <2>1, <2>4, <2>5
    <3>2. i + 1 = j + 1
      BY <2>2, <2>3, <3>1
    <3> QED BY <2>4, <2>5, <3>2, SMT
  <2>6. CASE s <= i /\ ~ (s <= j)
    <3>1. src[i + 1] = src[j]
      BY <2>1, <2>4, <2>6
    <3>2. i + 1 = j
      BY <2>2, <2>3, <3>1
    <3> QED BY <2>4, <2>6, <3>2, SMT
  <2>7. CASE ~ (s <= i) /\ s <= j
    <3>1. src[i] = src[j + 1]
      BY <2>1, <2>4, <2>7
    <3>2. i = j + 1
      BY <2>2, <2>3, <3>1
    <3> QED BY <2>4, <2>7, <3>2, SMT
  <2>8. CASE ~ (s <= i) /\ ~ (s <= j)
    <3>1. src[i] = src[j]
      BY <2>1, <2>4, <2>8
    <3>2. i = j
      BY <2>2, <2>3, <3>1
    <3> QED BY <2>4, <2>8, <3>2
  <2> QED BY <2>4, <2>5, <2>6, <2>7, <2>8
<1>8. \A i, j \in Locks : i < dc + 1 /\ j < dc + 1 /\ dst2[i] = dst2[j] => i = j
  <2> SUFFICES ASSUME NEW i \in Locks, NEW j \in Locks, i < dc + 1, j < dc + 1, dst2[i] = dst2[j] PROVE i = j
    OBVIOUS
  <2> QED BY <1>0, <1>2, SMT DEF Split
<1>9. \A i, j \in Locks : i < sc - 1 /\ j < dc + 1 => src2[i] # dst2[j]
  <2> SUFFICES ASSUME NEW i \in Locks, NEW j \in Locks, i < sc - 1, j < dc + 1 PROVE src2[i] # dst2[j]
    OBVIOUS
  <2>1. src2[i] = (IF s <= i THEN src[i + 1] ELSE src[i])
    BY <1>0, <1>1, SMT
  <2>2. i + 1 \in Locks /\ i + 1 < sc /\ i < sc
    BY <1>0, <1>3, SMT
  <2> QED BY <1>0, <1>2, <2>1, <2>2, SMT DEF Split
<1>10. \A l \in Locks : (\E i \in Locks : i < sc - 1 /\ src2[i] = l) \/ (\E j \in Locks : j < dc + 1 /\ dst2[j] = l)
  <2> TAKE l \in Locks
  <2>1. CASE \E i \in Locks : i < sc /\ src[i] = l
    <3>1. PICK i \in Locks : i < sc /\ src[i] = l
      BY <2>1
    <3>2. CASE i = s
      BY <1>0, <1>2, <3>1, <3>2, SMT
    <3>3. CASE i < s
      <4>1. i < sc - 1 /\ src2[i] = l
        BY <1>0, <1>1, <3>1, <3>3, SMT
      <4> QED BY <4>1
    <3>4. CASE i > s
      <4>1. i - 1 \in Locks /\ i - 1 < sc - 1 /\ s <= i - 1
        BY <1>0, <3>1, <3>4, SMT DEF Locks
      <4>2. src2[i - 1] = l
        BY <1>0, <1>1, <3>1, <4>1, SMT
      <4> QED BY <4>1, <4>2
    <3> QED BY <1>0, <3>1, <3>2, <3>3, <3>4, SMT
  <2>2. CASE \E j \in Locks : j < dc /\ dst[j] = l
    <3>1. PICK j \in Locks : j < dc /\ dst[j] = l
      BY <2>2
    <3>2. j < dc + 1 /\ dst2[j] = l
      BY <1>0, <1>2, <3>1, SMT
    <3> QED BY <3>2
  <2> QED BY <2>1, <2>2 DEF Split
<1> QED BY <1>4, <1>5, <1>6, <1>7, <1>8, <1>9, <1>10 DEF Split

\* A name is in one array exactly when it is not in the other.
LEMMA SplitComplement ==
    ASSUME NEW a, NEW b, NEW m, NEW k, Split(a, m, b, k), NEW l \in Locks
    PROVE  In(a, m, l) <=> ~ In(b, k, l)
BY DEF Split, In

\* What shift_lock adds to the names of the destination array.
LEMMA ShiftMembers ==
    ASSUME ConstantsOK, NEW src, NEW dst, NEW sc \in Nat, NEW dc \in Nat,
           NEW s \in Locks, s < sc, sc + dc = lg_num_locks, Split(src, sc, dst, dc)
    PROVE  \A l \in Locks : In(PutAt(dst, dc, src[s]), dc + 1, l) <=> In(dst, dc, l) \/ l = src[s]
<1> SUFFICES ASSUME NEW l \in Locks PROVE In(PutAt(dst, dc, src[s]), dc + 1, l) <=> In(dst, dc, l) \/ l = src[s]
  OBVIOUS
<1> DEFINE dst2 == PutAt(dst, dc, src[s])
<1>0. lg_num_locks \in Nat /\ dc \in Nat /\ dc \in Locks /\ Locks \subseteq Nat /\ dst \in [Locks -> Locks \cup {NULL}]
  BY LocksAreNat, SMT DEF ConstantsOK, Locks, Split
<1>1. \A i \in Locks : dst2[i] = IF i = dc THEN src[s] ELSE dst[i]
  BY <1>0 DEF PutAt
<1>2. ASSUME In(dst2, dc + 1, l) PROVE In(dst, dc, l) \/ l = src[s]
  <2>1. PICK i \in Locks : i < dc + 1 /\ dst2[i] = l
    BY <1>2 DEF In
  <2>2. i # dc => i < dc
    BY <1>0, <2>1, SMT
  <2> QED BY <1>1, <2>1, <2>2 DEF In
<1>3. ASSUME In(dst, dc, l) PROVE In(dst2, dc + 1, l)
  <2>1. PICK i \in Locks : i < dc /\ dst[i] = l
    BY <1>3 DEF In
  <2>2. i < dc + 1 /\ i # dc
    BY <1>0, <2>1, SMT
  <2> QED BY <1>1, <2>1, <2>2 DEF In
<1>4. ASSUME l = src[s] PROVE In(dst2, dc + 1, l)
  <2>1. dc < dc + 1 /\ dst2[dc] = l
    BY <1>0, <1>1, <1>4, SMT
  <2> QED BY <1>0, <2>1 DEF In
<1> QED BY <1>2, <1>3, <1>4

\* build_locklist establishes the invariant.
LEMMA InitIInv == ASSUME ConstantsOK PROVE Init => IInv
<1> SUFFICES ASSUME Init PROVE IInv
  OBVIOUS
<1>0. lg_num_locks \in Nat \ {0} /\ 0 \in Locks /\ Locks \subseteq Nat /\ NULL \notin Locks
  BY LocksAreNat, SMT DEF ConstantsOK, Locks
<1>1. TypeOK
  BY <1>0, SMT DEF Init, TypeOK, Pcs, Levels
<1>2. NeverEmptyChoice /\ NumInv
  BY DEF Init, NeverEmptyChoice, NumInv
<1>3. ListInv
  <2> SUFFICES ASSUME NEW n \in Nodes PROVE Split(lg_held[n], lg_cur_held[n], lg_free[n], lg_num_locks - lg_cur_held[n])
    BY DEF ListInv
  <2>0. lg_cur_held[n] = 0 /\ lg_num_locks - lg_cur_held[n] = lg_num_locks
    BY <1>0, SMT DEF Init
  <2>1. \A i \in Locks : i < lg_num_locks /\ ~ (i < 0) /\ lg_held[n][i] = NULL /\ lg_free[n][i] = i
    BY <1>0, SMT DEF Init, Locks
  <2>2. lg_held[n] \in [Locks -> Locks \cup {NULL}] /\ lg_free[n] \in [Locks -> Locks \cup {NULL}]
    BY DEF Init
  <2> QED BY <2>0, <2>1, <2>2 DEF Split
<1>4. DlmInv
  <2>1. \A n \in Nodes, l \in Locks : ~ Holds(n, l)
    BY <1>0 DEF Init, Holds, In
  <2> QED BY <2>1 DEF Init, DlmInv
<1> QED BY <1>1, <1>2, <1>3, <1>4 DEF IInv

\* The slots pick_lock chooses from hold names of locks: the free ones are not
\* held, the held ones are.
LEMMA ChosenName ==
    ASSUME ConstantsOK, IInv, NEW n \in Nodes, NEW s \in Locks
    PROVE  /\ s < Count(n, "LOCK") => lg_free[n][s] \in Locks /\ ~ Holds(n, lg_free[n][s])
           /\ s < Count(n, "UNLOCK") => lg_held[n][s] \in Locks /\ Holds(n, lg_held[n][s])
<1>1. Split(lg_held[n], lg_cur_held[n], lg_free[n], lg_num_locks - lg_cur_held[n])
  BY DEF IInv, ListInv
<1> QED BY <1>1 DEF Count, Split, Holds, In

\* A step that leaves the arrays and the DLM alone only moves the control.
LEMMA ControlStep ==
    ASSUME IInv, NEW n \in Nodes, NEW p \in Pcs \ {"done", "ex_held"},
           pc[n] \notin {"done", "ex_held"}, Goto(n, p), UNCHANGED <<lists, dlm>>,
           num' = num \/ \E s \in Locks : num' = [num EXCEPT ![n] = s]
    PROVE  pc' \in [Nodes -> Pcs] /\ num' \in [Nodes -> Locks] /\ ListInv' /\ DlmInv'
<1>1. pc' \in [Nodes -> Pcs] /\ num' \in [Nodes -> Locks]
  BY ZenonT(40) DEF IInv, TypeOK, Goto
<1>2. ListInv'
  BY DEF IInv, ListInv, lists
<1>3. DlmInv'
  <2> SUFFICES ASSUME NEW m \in Nodes, NEW l \in Locks
               PROVE  /\ pc'[m] # "done" => (dlm'[l][m] = "PR" <=> Holds(m, l)')
                      /\ dlm'[l][m] = "EX" => pc'[m] = "ex_held" /\ lg_free'[m][num'[m]] = l
                      /\ pc'[m] = "done" => dlm'[l][m] = "NL"
    BY DEF DlmInv
  <2>1. dlm' = dlm /\ lg_free' = lg_free /\ (Holds(m, l)' <=> Holds(m, l))
    BY DEF lists, Holds
  <2>2. /\ pc[m] # "done" => (dlm[l][m] = "PR" <=> Holds(m, l))
        /\ dlm[l][m] = "EX" => pc[m] = "ex_held" /\ lg_free[m][num[m]] = l
        /\ pc[m] = "done" => dlm[l][m] = "NL"
    BY DEF IInv, DlmInv
  <2>3. CASE m = n
    BY <2>1, <2>2, <2>3 DEF IInv, TypeOK, Goto
  <2>4. CASE m # n
    <3>1. pc'[m] = pc[m] /\ num'[m] = num[m]
      BY <2>4 DEF IInv, TypeOK, Goto
    <3> QED BY <2>1, <2>2, <3>1
  <2> QED BY <2>3, <2>4
<1> QED BY <1>1, <1>2, <1>3

\* NeverEmptyChoice and NumInv for one node: they only read the node's own
\* control and counter.
NodeOK(n) ==
    /\ pc[n] = "ex_try" => Count(n, "LOCK") > 0 /\ todo[n] > 0
    /\ pc[n] \in {"count", "pick", "pr_lock", "pr_unlock"} => Count(n, direction[n]) > 0
    /\ pc[n] \in {"pick", "pr_lock", "pr_unlock"} => todo[n] \in 1 .. Count(n, direction[n])
    /\ pc[n] = "pr_lock" => direction[n] = "LOCK"
    /\ pc[n] = "pr_unlock" => direction[n] = "UNLOCK"
    /\ pc[n] \in {"pr_lock", "pr_unlock"} => num[n] < Count(n, direction[n])
    /\ pc[n] = "ex_held" => num[n] < Count(n, "LOCK")

\* The two invariants are NodeOK of every node.
LEMMA NodesOK == NeverEmptyChoice /\ NumInv <=> \A n \in Nodes : NodeOK(n)
BY DEF NeverEmptyChoice, NumInv, NodeOK

\* The same in the next state.
LEMMA NodesOKNext == NeverEmptyChoice' /\ NumInv' <=> \A n \in Nodes : NodeOK(n)'
BY DEF NeverEmptyChoice, NumInv, NodeOK

\* A step of node n keeps NodeOK of the others.
LEMMA OthersOK ==
    ASSUME IInv, NEW n \in Nodes, NEW m \in Nodes, m # n,
           pc'[m] = pc[m], todo'[m] = todo[m], direction'[m] = direction[m],
           num'[m] = num[m], lg_cur_held'[m] = lg_cur_held[m]
    PROVE  NodeOK(m)'
<1>1. NodeOK(m)
  BY NodesOK DEF IInv
<1> QED BY <1>1 DEF NodeOK, Count

\* The head of run: EX is chosen only while a name is free, and the direction only
\* where choose_direction leaves a name to choose.
LEMMA TopStep == ASSUME ConstantsOK, IInv, NEW n \in Nodes, Top(n) PROVE IInv'
<1>0. IInv /\ TypeOK /\ lg_num_locks \in Nat /\ lg_cur_held[n] \in 0 .. lg_num_locks
  BY DEF IInv, TypeOK, ConstantsOK
<1>1. CASE /\ lg_cur_held[n] # lg_num_locks
           /\ todo' = [todo EXCEPT ![n] = MaxExTries]
           /\ Goto(n, "ex_try")
           /\ UNCHANGED direction
  <2>1. pc' \in [Nodes -> Pcs] /\ num' \in [Nodes -> Locks] /\ ListInv' /\ DlmInv'
    BY <1>1, ControlStep DEF Top, Pcs
  <2>2. TypeOK'
    BY <1>0, <1>1, <2>1 DEF TypeOK, Top, lists, ConstantsOK
  <2>3. NodeOK(n)'
    <3>1. pc'[n] = "ex_try" /\ todo'[n] > 0
      BY <1>0, <1>1, SMT DEF Goto, TypeOK, ConstantsOK
    <3>2. Count(n, "LOCK")' > 0
      BY <1>0, <1>1, SMT DEF Count, Top, lists
    <3> QED BY <3>1, <3>2 DEF NodeOK
  <2>4. ASSUME NEW m \in Nodes, m # n PROVE NodeOK(m)'
    BY <1>0, <1>1, <2>4, OthersOK DEF Top, lists, Goto, TypeOK
  <2> QED BY <2>1, <2>2, <2>3, <2>4, NodesOKNext DEF IInv
<1>2. CASE \E dir \in choose_direction(n) :
              /\ direction' = [direction EXCEPT ![n] = dir]
              /\ Goto(n, "count")
              /\ UNCHANGED todo
  <2>0. PICK dir \in choose_direction(n) : direction' = [direction EXCEPT ![n] = dir] /\ Goto(n, "count") /\ UNCHANGED todo
    BY <1>2
  <2>1. pc' \in [Nodes -> Pcs] /\ num' \in [Nodes -> Locks] /\ ListInv' /\ DlmInv'
    BY <2>0, ControlStep DEF Top, Pcs
  <2>2. dir \in {"LOCK", "UNLOCK"} /\ Count(n, dir) > 0
    BY <1>0, <2>0, SMT DEF choose_direction, Count, ConstantsOK
  <2>3. TypeOK'
    BY <1>0, <2>0, <2>1, <2>2 DEF TypeOK, Top, lists
  <2>4. NodeOK(n)'
    BY <1>0, <2>0, <2>2 DEF NodeOK, Count, Top, lists, Goto, TypeOK
  <2>5. ASSUME NEW m \in Nodes, m # n PROVE NodeOK(m)'
    BY <1>0, <2>0, <2>5, OthersOK DEF Top, lists, Goto, TypeOK
  <2> QED BY <2>1, <2>3, <2>4, <2>5, NodesOKNext DEF IInv
<1> QED BY <1>1, <1>2 DEF Top

\* locks_this_pass returns at most the number of names there are.
LEMMA ThisPassStep == ASSUME ConstantsOK, IInv, NEW n \in Nodes, ThisPass(n) PROVE IInv'
<1>0. IInv /\ TypeOK /\ lg_num_locks \in Nat /\ RandMax \in Nat /\ lg_cur_held[n] \in 0 .. lg_num_locks
      /\ direction[n] \in {"LOCK", "UNLOCK"}
  BY DEF IInv, TypeOK, ConstantsOK
<1>1. PICK k \in locks_this_pass(n, direction[n]) :
         todo' = [todo EXCEPT ![n] = k] /\ Goto(n, IF k = 0 THEN "top" ELSE "pick")
  BY DEF ThisPass
<1>2. Count(n, direction[n]) \in Nat /\ Count(n, direction[n]) > 0
  BY <1>0, SMT DEF Count, NeverEmptyChoice, IInv, ThisPass
<1>3. k \in 0 .. Count(n, direction[n])
  <2>1. PICK rval \in 0 .. RandMax : k = IF rval > Count(n, direction[n]) THEN rval % Count(n, direction[n]) ELSE rval
    BY <1>1 DEF locks_this_pass
  <2> DEFINE c == Count(n, direction[n])
  <2>2. rval \in Nat /\ c \in Nat /\ c > 0
    BY <1>0, <1>2, <2>1, SMT
  <2>3. k = IF rval > c THEN rval % c ELSE rval
    BY <2>1
  <2> HIDE DEF c
  <2>4. rval % c \in 0 .. c - 1
    BY <2>2, SMT
  <2>5. k \in 0 .. c
    BY <2>2, <2>3, <2>4, SMT
  <2> QED BY <2>5 DEF c
<1>4. pc' \in [Nodes -> Pcs] /\ num' \in [Nodes -> Locks] /\ ListInv' /\ DlmInv'
  BY <1>1, ControlStep DEF ThisPass, Pcs
<1>5. TypeOK'
  <2>1. k \in Nat
    BY <1>2, <1>3, SMT
  <2>2. todo' \in [Nodes -> Nat]
    BY <1>0, <1>1, <2>1 DEF TypeOK
  <2> QED BY <1>0, <1>4, <2>2 DEF TypeOK, ThisPass, lists
<1>6. NodeOK(n)'
  <2>1. Count(n, direction[n])' = Count(n, direction[n])
    BY DEF Count, ThisPass, lists
  <2> QED BY <1>0, <1>1, <1>2, <1>3, <2>1, SMT DEF NodeOK, ThisPass, Goto, TypeOK
<1>7. ASSUME NEW m \in Nodes, m # n PROVE NodeOK(m)'
  BY <1>0, <1>1, <1>7, OthersOK DEF ThisPass, lists, Goto, TypeOK
<1> QED BY <1>4, <1>5, <1>6, <1>7, NodesOKNext DEF IInv

\* pick_lock returns a slot in use.
LEMMA PickStep == ASSUME ConstantsOK, IInv, NEW n \in Nodes, Pick(n) PROVE IInv'
<1>0. IInv /\ TypeOK /\ lg_num_locks \in Nat /\ lg_cur_held[n] \in 0 .. lg_num_locks /\ direction[n] \in {"LOCK", "UNLOCK"}
      /\ NodeOK(n)
  BY NodesOK DEF IInv, TypeOK, ConstantsOK
<1>1. PICK s \in 0 .. Count(n, direction[n]) - 1 : num' = [num EXCEPT ![n] = s]
  BY DEF Pick
<1>2. s \in Locks /\ s < Count(n, direction[n])
  BY <1>0, <1>1, SMT DEF Count, Locks
<1>3. pc' \in [Nodes -> Pcs] /\ num' \in [Nodes -> Locks] /\ ListInv' /\ DlmInv'
  BY <1>1, <1>2, ControlStep DEF Pick, Pcs
<1>4. TypeOK'
  BY <1>0, <1>3 DEF TypeOK, Pick, lists
<1>5. NodeOK(n)'
  <2>1. Count(n, direction[n])' = Count(n, direction[n])
    BY DEF Count, Pick, lists
  <2>2. Count(n, "LOCK")' = Count(n, "LOCK")
    BY DEF Count, Pick, lists
  <2> QED BY <1>0, <1>1, <1>2, <2>1, <2>2 DEF NodeOK, Pick, Goto, TypeOK
<1>6. ASSUME NEW m \in Nodes, m # n PROVE NodeOK(m)'
  BY <1>0, <1>1, <1>6, OthersOK DEF Pick, lists, Goto, TypeOK
<1> QED BY <1>3, <1>4, <1>5, <1>6, NodesOKNext DEF IInv

\* One trylock of do_one_ex_lock.
LEMMA TryExStep == ASSUME ConstantsOK, IInv, NEW n \in Nodes, TryEx(n) PROVE IInv'
<1>0. IInv /\ TypeOK /\ lg_num_locks \in Nat /\ lg_cur_held[n] \in 0 .. lg_num_locks /\ NodeOK(n) /\ todo[n] \in Nat
  BY NodesOK DEF IInv, TypeOK, ConstantsOK
<1>1. PICK s \in 0 .. Count(n, "LOCK") - 1 :
          /\ todo' = [todo EXCEPT ![n] = @ - 1]
          /\ IF Grantable(dlm[lg_free[n][s]], n, "EX")
               THEN /\ dlm' = [dlm EXCEPT ![lg_free[n][s]][n] = "EX"]
                    /\ num' = [num EXCEPT ![n] = s]
                    /\ Goto(n, "ex_held")
               ELSE /\ Goto(n, IF todo[n] = 1 THEN "top" ELSE "ex_try")
                    /\ UNCHANGED <<num, dlm>>
  BY DEF TryEx
<1> DEFINE l == lg_free[n][s]
<1>2. s \in Locks /\ s < Count(n, "LOCK") /\ pc[n] = "ex_try"
  BY <1>0, <1>1, SMT DEF Count, Locks, TryEx
<1>3. l \in Locks /\ ~ Holds(n, l)
  BY <1>2, ChosenName
<1>4. todo[n] > 0 /\ todo' \in [Nodes -> Nat] /\ todo'[n] = todo[n] - 1
  BY <1>0, <1>1, <1>2, SMT DEF NodeOK, TypeOK
<1>5. lists' = lists /\ direction' = direction /\ caught_sig' = caught_sig
      /\ lg_cur_held' = lg_cur_held /\ lg_held' = lg_held /\ lg_free' = lg_free
  BY DEF TryEx, lists
<1>6. Count(n, "LOCK")' = Count(n, "LOCK")
  BY <1>5 DEF Count
<1> HIDE DEF l
<1>7. CASE ~ Grantable(dlm[l], n, "EX")
  <2>1. Goto(n, IF todo[n] = 1 THEN "top" ELSE "ex_try") /\ UNCHANGED <<num, dlm>>
    BY <1>1, <1>7 DEF l
  <2>2. pc' \in [Nodes -> Pcs] /\ num' \in [Nodes -> Locks] /\ ListInv' /\ DlmInv'
    BY <1>2, <1>5, <2>1, ControlStep DEF Pcs
  <2>3. TypeOK'
    BY <1>0, <1>4, <1>5, <2>1, <2>2 DEF TypeOK
  <2>4. NodeOK(n)'
    <3>1. pc'[n] = (IF todo[n] = 1 THEN "top" ELSE "ex_try")
      BY <1>0, <2>1 DEF Goto, TypeOK
    <3>2. todo[n] # 1 => todo'[n] > 0
      BY <1>0, <1>4, SMT
    <3>3. Count(n, "LOCK")' > 0
      BY <1>0, <1>2, <1>6 DEF NodeOK
    <3> QED BY <3>1, <3>2, <3>3 DEF NodeOK
  <2>5. ASSUME NEW m \in Nodes, m # n PROVE NodeOK(m)'
    BY <1>0, <1>1, <1>5, <2>1, <2>5, OthersOK DEF Goto, TypeOK
  <2> QED BY <2>2, <2>3, <2>4, <2>5, NodesOKNext DEF IInv
<1>8. CASE Grantable(dlm[l], n, "EX")
  <2>1. dlm' = [dlm EXCEPT ![l][n] = "EX"] /\ num' = [num EXCEPT ![n] = s] /\ Goto(n, "ex_held")
    BY <1>1, <1>8 DEF l
  <2>2. TypeOK'
    BY <1>0, <1>2, <1>3, <1>4, <1>5, <2>1 DEF TypeOK, Goto, Pcs, Levels
  <2>3. NodeOK(n)'
    BY <1>0, <1>2, <1>6, <2>1 DEF NodeOK, Goto, TypeOK
  <2>4. ASSUME NEW m \in Nodes, m # n PROVE NodeOK(m)'
    BY <1>0, <1>1, <1>5, <2>1, <2>4, OthersOK DEF Goto, TypeOK
  <2>5. ListInv'
    BY <1>0, <1>5 DEF IInv, ListInv
  <2>6. DlmInv'
    <3> SUFFICES ASSUME NEW m \in Nodes, NEW q \in Locks
                 PROVE  /\ pc'[m] # "done" => (dlm'[q][m] = "PR" <=> Holds(m, q)')
                        /\ dlm'[q][m] = "EX" => pc'[m] = "ex_held" /\ lg_free'[m][num'[m]] = q
                        /\ pc'[m] = "done" => dlm'[q][m] = "NL"
      BY DEF DlmInv
    <3>1. lg_free' = lg_free /\ (Holds(m, q)' <=> Holds(m, q))
      BY <1>5 DEF Holds
    <3>2. /\ pc[m] # "done" => (dlm[q][m] = "PR" <=> Holds(m, q))
          /\ dlm[q][m] = "EX" => pc[m] = "ex_held" /\ lg_free[m][num[m]] = q
          /\ pc[m] = "done" => dlm[q][m] = "NL"
      BY <1>0 DEF IInv, DlmInv
    <3>3. CASE m = n
      <4>1. pc'[m] = "ex_held" /\ num'[m] = s /\ lg_free'[m][num'[m]] = l
        BY <1>0, <2>1, <3>1, <3>3 DEF Goto, TypeOK, l
      <4>2. dlm'[q][m] = IF q = l THEN "EX" ELSE dlm[q][m]
        BY <1>0, <1>3, <2>1, <3>3 DEF TypeOK
      <4> QED BY <1>2, <1>3, <3>1, <3>2, <3>3, <4>1, <4>2
    <3>4. CASE m # n
      <4>1. pc'[m] = pc[m] /\ num'[m] = num[m] /\ dlm'[q][m] = dlm[q][m]
        BY <1>0, <1>3, <2>1, <3>4 DEF Goto, TypeOK
      <4> QED BY <3>1, <3>2, <4>1
    <3> QED BY <3>3, <3>4
  <2> QED BY <2>2, <2>3, <2>4, <2>5, <2>6, NodesOKNext DEF IInv
<1> QED BY <1>7, <1>8

\* The unlock of do_one_ex_lock.
LEMMA DropExStep == ASSUME ConstantsOK, IInv, NEW n \in Nodes, DropEx(n) PROVE IInv'
<1>0. IInv /\ TypeOK /\ NodeOK(n) /\ pc[n] = "ex_held" /\ num[n] \in Locks /\ 0 \in Locks
  BY NodesOK, SMTT(30) DEF IInv, TypeOK, ConstantsOK, DropEx, Locks
<1> DEFINE l == lg_free[n][num[n]]
<1>1. l \in Locks /\ ~ Holds(n, l)
  BY <1>0, ChosenName DEF NodeOK
<1>2. lg_cur_held' = lg_cur_held /\ lg_held' = lg_held /\ lg_free' = lg_free
  BY DEF DropEx, lists
<1>3. dlm' = [dlm EXCEPT ![l][n] = "NL"] /\ Goto(n, "top")
  BY DEF DropEx
<1>4. TypeOK'
  BY <1>0, <1>1, <1>2, <1>3, SMT DEF TypeOK, Goto, Pcs, Levels, DropEx
<1>5. NodeOK(n)'
  BY <1>0, <1>3 DEF NodeOK, Goto, TypeOK
<1>6. ASSUME NEW m \in Nodes, m # n PROVE NodeOK(m)'
  BY <1>0, <1>2, <1>3, <1>6, OthersOK DEF Goto, TypeOK, DropEx
<1>7. ListInv'
  BY <1>0, <1>2 DEF IInv, ListInv
<1>8. DlmInv'
  <2> SUFFICES ASSUME NEW m \in Nodes, NEW q \in Locks
               PROVE  /\ pc'[m] # "done" => (dlm'[q][m] = "PR" <=> Holds(m, q)')
                      /\ dlm'[q][m] = "EX" => pc'[m] = "ex_held" /\ lg_free'[m][num'[m]] = q
                      /\ pc'[m] = "done" => dlm'[q][m] = "NL"
    BY DEF DlmInv
  <2>1. lg_free' = lg_free /\ (Holds(m, q)' <=> Holds(m, q))
    BY <1>2 DEF Holds
  <2>2. /\ pc[m] # "done" => (dlm[q][m] = "PR" <=> Holds(m, q))
        /\ dlm[q][m] = "EX" => pc[m] = "ex_held" /\ lg_free[m][num[m]] = q
        /\ pc[m] = "done" => dlm[q][m] = "NL"
    BY <1>0 DEF IInv, DlmInv
  <2>3. CASE m = n
    <3>1. pc'[m] = "top"
      BY <1>0, <1>3, <2>3 DEF Goto, TypeOK
    <3>2. dlm'[q][m] = IF q = l THEN "NL" ELSE dlm[q][m]
      BY <1>0, <1>1, <1>3, <2>3 DEF TypeOK
    <3> QED BY <1>0, <1>1, <2>1, <2>2, <2>3, <3>1, <3>2
  <2>4. CASE m # n
    <3>1. pc'[m] = pc[m] /\ num'[m] = num[m] /\ dlm'[q][m] = dlm[q][m]
      BY <1>0, <1>1, <1>3, <2>4, SMT DEF Goto, TypeOK, DropEx
    <3> QED BY <2>1, <2>2, <3>1
  <2> QED BY <2>3, <2>4
<1> QED BY <1>4, <1>5, <1>6, <1>7, <1>8, NodesOKNext DEF IInv

\* The end of do_one_pr_lock in either direction: the chosen name changes
\* arrays, everything else of the lists stays, and the pass goes on with a
\* counter that the smaller array still allows.
LEMMA PrDoneStep ==
    ASSUME ConstantsOK, IInv, NEW n \in Nodes, pc[n] \in {"pr_lock", "pr_unlock"}, PrDone(n)
    PROVE  /\ lg_cur_held' \in [Nodes -> 0 .. lg_num_locks]
           /\ lg_held' \in [Nodes -> [Locks -> Locks \cup {NULL}]]
           /\ lg_free' \in [Nodes -> [Locks -> Locks \cup {NULL}]]
           /\ todo' \in [Nodes -> Nat] /\ num' \in [Nodes -> Locks] /\ pc' \in [Nodes -> Pcs]
           /\ pc'[n] \in {"top", "pick"}
           /\ \A m \in Nodes : NodeOK(m)'
           /\ ListInv'
           /\ \A m \in Nodes, q \in Locks :
                 IF m # n THEN (Holds(m, q)' <=> Holds(m, q)) /\ lg_free'[m] = lg_free[m]
                               /\ pc'[m] = pc[m] /\ num'[m] = num[m]
                 ELSE IF direction[n] = "LOCK" THEN Holds(n, q)' <=> Holds(n, q) \/ q = lg_free[n][num[n]]
                 ELSE Holds(n, q)' <=> Holds(n, q) /\ q # lg_held[n][num[n]]
<1> DEFINE s  == num[n]
           h  == lg_cur_held[n]
           c  == Count(n, direction[n])
<1>0. /\ IInv /\ TypeOK /\ NodeOK(n) /\ lg_num_locks \in Nat /\ h \in Nat /\ h <= lg_num_locks
      /\ direction[n] \in {"LOCK", "UNLOCK"} /\ s \in Locks /\ 0 \in Locks
      /\ Split(lg_held[n], h, lg_free[n], lg_num_locks - h)
  BY NodesOK, SMTT(30) DEF IInv, TypeOK, ConstantsOK, ListInv, Locks
<1>n. lg_num_locks \in Nat /\ h \in Nat /\ h <= lg_num_locks
  BY <1>0
<1>1. c \in Nat /\ c > 0 /\ c <= lg_num_locks /\ s < c /\ todo[n] \in 1 .. c
  <2>1. c > 0 /\ s < c /\ todo[n] \in 1 .. c
    BY <1>0 DEF NodeOK
  <2>2. c = h \/ c = lg_num_locks - h
    BY DEF Count
  <2>3. c \in Nat /\ c <= lg_num_locks
    <3> HIDE DEF c, h
    <3> QED BY <1>n, <2>2, SMT
  <2> QED BY <2>1, <2>3
<1>2. pc' = [pc EXCEPT ![n] = IF todo'[n] = 0 THEN "top" ELSE "pick"]
      /\ todo' = [todo EXCEPT ![n] = IF caught_sig[n] THEN 0 ELSE @ - 1]
      /\ num' = [num EXCEPT ![n] = 0] /\ direction' = direction
  BY DEF PrDone, Goto
<1>3. /\ todo' \in [Nodes -> Nat] /\ num' \in [Nodes -> Locks] /\ pc' \in [Nodes -> Pcs]
      /\ pc'[n] \in {"top", "pick"} /\ todo'[n] \in 0 .. c - 1 /\ (pc'[n] = "pick" => todo'[n] # 0)
  <2>1. todo'[n] = (IF caught_sig[n] THEN 0 ELSE todo[n] - 1) /\ todo[n] \in 1 .. c /\ c \in Nat
    BY <1>0, <1>1, <1>2 DEF TypeOK
  <2>2. todo'[n] \in 0 .. c - 1 /\ todo'[n] \in Nat
    <3> HIDE DEF c
    <3> QED BY <2>1, SMT
  <2>3. todo' \in [Nodes -> Nat]
    BY <1>0, <1>2, <2>1, <2>2 DEF TypeOK
  <2> QED BY <1>0, <1>2, <2>2, <2>3 DEF TypeOK, Pcs
<1>4. \A m \in Nodes : m # n => /\ lg_held'[m] = lg_held[m] /\ lg_free'[m] = lg_free[m] /\ lg_cur_held'[m] = lg_cur_held[m]
                               /\ pc'[m] = pc[m] /\ num'[m] = num[m] /\ todo'[m] = todo[m]
  BY <1>0, <1>2 DEF PrDone, shift_lock, TypeOK
<1>5. \A m \in Nodes : m # n => NodeOK(m)'
  BY <1>0, <1>2, <1>4, OthersOK
<1>6. CASE direction[n] = "LOCK"
  <2>1. c + h = lg_num_locks /\ lg_num_locks - c = h
    <3>1. c = lg_num_locks - h
      BY <1>6 DEF Count
    <3> HIDE DEF c, h
    <3> QED BY <1>n, <3>1, SMT
  <2> DEFINE held2 == PutAt(lg_held[n], h, lg_free[n][s])
             free2 == ShiftDown(lg_free[n], c, s)
  <2>2. lg_held' = [lg_held EXCEPT ![n] = held2] /\ lg_free' = [lg_free EXCEPT ![n] = free2]
        /\ lg_cur_held' = [lg_cur_held EXCEPT ![n] = h + 1]
    BY <1>6, <2>1 DEF PrDone, shift_lock, PutAt
  <2>3. Split(lg_free[n], c, lg_held[n], h)
    BY <1>0, <1>6, SplitSymmetric DEF Count
  <2> HIDE DEF c, h, s
  <2>p. c \in Nat /\ h \in Nat /\ s \in Locks /\ s < c /\ c + h = lg_num_locks
    BY <1>0, <1>n, <1>1, <2>1
  <2>4. Split(free2, c - 1, held2, h + 1)
    BY <2>p, <2>3, ShiftKeepsSplit
  <2>5. Split(held2, h + 1, free2, c - 1)
    BY <2>4, SplitSymmetric
  <2>6. \A q \in Locks : In(held2, h + 1, q) <=> In(lg_held[n], h, q) \/ q = lg_free[n][s]
    <3> DEFINE src == lg_free[n]
               dst == lg_held[n]
    <3>1. Split(src, c, dst, h)
      BY <2>3
    <3> HIDE DEF src, dst
    <3>2. \A q \in Locks : In(PutAt(dst, h, src[s]), h + 1, q) <=> In(dst, h, q) \/ q = src[s]
      BY <2>p, <3>1, ShiftMembers, SMT
    <3> QED BY <3>2 DEF src, dst
  <2>7. held2 \in [Locks -> Locks \cup {NULL}] /\ free2 \in [Locks -> Locks \cup {NULL}]
    BY <2>5 DEF Split
  <2>a. c \in Nat /\ c > 0
    BY <1>1
  <2>8. h + 1 \in 0 .. lg_num_locks /\ lg_num_locks - (h + 1) = c - 1
    BY <1>n, <2>a, <2>1, SMT
  <2> HIDE DEF held2, free2
  <2>9. /\ lg_cur_held' \in [Nodes -> 0 .. lg_num_locks]
        /\ lg_held' \in [Nodes -> [Locks -> Locks \cup {NULL}]]
        /\ lg_free' \in [Nodes -> [Locks -> Locks \cup {NULL}]]
        /\ lg_held'[n] = held2 /\ lg_free'[n] = free2 /\ lg_cur_held'[n] = h + 1
    BY <1>0, <2>2, <2>7, <2>8 DEF TypeOK
  <2>10. ListInv'
    BY <1>0, <1>4, <2>5, <2>8, <2>9 DEF IInv, ListInv
  <2>11. NodeOK(n)'
    <3>1. Count(n, direction[n])' = c - 1
      BY <1>2, <1>6, <2>8, <2>9 DEF Count
    <3>2. pc'[n] = "pick" => todo'[n] \in 1 .. c - 1 /\ c - 1 > 0
      BY <1>1, <1>3, SMT
    <3> QED BY <1>3, <3>1, <3>2 DEF NodeOK
  <2>12. ASSUME NEW q \in Locks PROVE Holds(n, q)' <=> Holds(n, q) \/ q = lg_free[n][num[n]]
    BY <2>6, <2>9 DEF Holds, h, s
  <2>13. ASSUME NEW m \in Nodes, m # n, NEW q \in Locks PROVE Holds(m, q)' <=> Holds(m, q)
    BY <1>4, <2>13 DEF Holds
  <2> QED BY <1>3, <1>4, <1>5, <1>6, <2>9, <2>10, <2>11, <2>12, <2>13
<1>7. CASE direction[n] = "UNLOCK"
  <2> DEFINE f == lg_num_locks - h
             held2 == ShiftDown(lg_held[n], c, s)
             free2 == PutAt(lg_free[n], f, lg_held[n][s])
  <2>1. c = h /\ f \in Nat /\ c + f = lg_num_locks
    <3>1. c = h
      BY <1>7 DEF Count
    <3> HIDE DEF c, h
    <3> QED BY <1>n, <3>1, SMT
  <2>2. lg_held' = [lg_held EXCEPT ![n] = held2] /\ lg_free' = [lg_free EXCEPT ![n] = free2]
        /\ lg_cur_held' = [lg_cur_held EXCEPT ![n] = h - 1]
    BY <1>7, <2>1 DEF PrDone, shift_lock, PutAt
  <2>3. Split(lg_held[n], c, lg_free[n], f)
    BY <1>0, <2>1
  <2> HIDE DEF c, h, s, f
  <2>p. c \in Nat /\ f \in Nat /\ s \in Locks /\ s < c /\ c + f = lg_num_locks
    BY <1>0, <1>1, <2>1
  <2>4. Split(held2, c - 1, free2, f + 1)
    BY <2>p, <2>3, ShiftKeepsSplit
  <2>5. \A q \in Locks : In(free2, f + 1, q) <=> In(lg_free[n], f, q) \/ q = lg_held[n][s]
    <3> DEFINE src == lg_held[n]
               dst == lg_free[n]
    <3>1. Split(src, c, dst, f)
      BY <2>3
    <3> HIDE DEF src, dst
    <3>2. \A q \in Locks : In(PutAt(dst, f, src[s]), f + 1, q) <=> In(dst, f, q) \/ q = src[s]
      BY <2>p, <3>1, ShiftMembers, SMT
    <3> QED BY <3>2 DEF src, dst
  <2>6. held2 \in [Locks -> Locks \cup {NULL}] /\ free2 \in [Locks -> Locks \cup {NULL}]
    BY <2>4 DEF Split
  <2>7. h - 1 = c - 1 /\ h - 1 \in 0 .. lg_num_locks /\ lg_num_locks - (h - 1) = f + 1
    BY <1>n, <1>1, <2>1, SMT
  <2> HIDE DEF held2, free2
  <2>8. ASSUME NEW q \in Locks PROVE In(held2, c - 1, q) <=> In(lg_held[n], h, q) /\ q # lg_held[n][s]
    <3>1. In(held2, c - 1, q) <=> ~ In(free2, f + 1, q)
      BY <2>4, SplitComplement
    <3>2. In(lg_held[n], c, q) <=> ~ In(lg_free[n], f, q)
      BY <2>3, SplitComplement
    <3> QED BY <2>1, <2>5, <3>1, <3>2
  <2>9. /\ lg_cur_held' \in [Nodes -> 0 .. lg_num_locks]
        /\ lg_held' \in [Nodes -> [Locks -> Locks \cup {NULL}]]
        /\ lg_free' \in [Nodes -> [Locks -> Locks \cup {NULL}]]
        /\ lg_held'[n] = held2 /\ lg_free'[n] = free2 /\ lg_cur_held'[n] = h - 1
    BY <1>0, <2>2, <2>6, <2>7 DEF TypeOK
  <2>10. ListInv'
    BY <1>0, <1>4, <2>4, <2>7, <2>9 DEF IInv, ListInv
  <2>11. NodeOK(n)'
    <3>1. Count(n, direction[n])' = c - 1
      BY <1>2, <1>7, <2>7, <2>9 DEF Count
    <3>2. pc'[n] = "pick" => todo'[n] \in 1 .. c - 1 /\ c - 1 > 0
      BY <1>1, <1>3, SMT
    <3> QED BY <1>3, <3>1, <3>2 DEF NodeOK
  <2>12. ASSUME NEW q \in Locks PROVE Holds(n, q)' <=> Holds(n, q) /\ q # lg_held[n][num[n]]
    <3>1. Holds(n, q)' <=> In(held2, c - 1, q)
      BY <2>7, <2>9 DEF Holds
    <3> QED BY <2>8, <3>1 DEF Holds, h, s
  <2>13. ASSUME NEW m \in Nodes, m # n, NEW q \in Locks PROVE Holds(m, q)' <=> Holds(m, q)
    BY <1>4, <2>13 DEF Holds
  <2> QED BY <1>3, <1>4, <1>5, <1>7, <2>9, <2>10, <2>11, <2>12, <2>13
<1> QED BY <1>0, <1>6, <1>7

\* A granted PR lock moves from lg_free to lg_held.
LEMMA PrLockStep == ASSUME ConstantsOK, IInv, NEW n \in Nodes, PrLock(n) PROVE IInv'
<1> DEFINE l == lg_free[n][num[n]]
<1>0. IInv /\ TypeOK /\ NodeOK(n) /\ pc[n] = "pr_lock" /\ direction[n] = "LOCK" /\ num[n] \in Locks /\ PrDone(n)
      /\ dlm' = [dlm EXCEPT ![l][n] = "PR"] /\ direction' = direction /\ caught_sig' = caught_sig
  BY NodesOK DEF IInv, TypeOK, PrLock, PrDone, NodeOK
<1>1. l \in Locks /\ ~ Holds(n, l)
  BY <1>0, ChosenName DEF NodeOK
<1>2. /\ lg_cur_held' \in [Nodes -> 0 .. lg_num_locks]
      /\ lg_held' \in [Nodes -> [Locks -> Locks \cup {NULL}]]
      /\ lg_free' \in [Nodes -> [Locks -> Locks \cup {NULL}]]
      /\ todo' \in [Nodes -> Nat] /\ num' \in [Nodes -> Locks] /\ pc' \in [Nodes -> Pcs]
      /\ pc'[n] \in {"top", "pick"}
      /\ \A m \in Nodes : NodeOK(m)'
      /\ ListInv'
      /\ \A m \in Nodes, q \in Locks :
            IF m # n THEN (Holds(m, q)' <=> Holds(m, q)) /\ lg_free'[m] = lg_free[m]
                          /\ pc'[m] = pc[m] /\ num'[m] = num[m]
            ELSE Holds(n, q)' <=> Holds(n, q) \/ q = l
  BY <1>0, PrDoneStep, SMT
<1>3. TypeOK'
  BY <1>0, <1>1, <1>2 DEF TypeOK, Levels
<1>4. DlmInv'
  <2> SUFFICES ASSUME NEW m \in Nodes, NEW q \in Locks
               PROVE  /\ pc'[m] # "done" => (dlm'[q][m] = "PR" <=> Holds(m, q)')
                      /\ dlm'[q][m] = "EX" => pc'[m] = "ex_held" /\ lg_free'[m][num'[m]] = q
                      /\ pc'[m] = "done" => dlm'[q][m] = "NL"
    BY DEF DlmInv
  <2>1. /\ pc[m] # "done" => (dlm[q][m] = "PR" <=> Holds(m, q))
        /\ dlm[q][m] = "EX" => pc[m] = "ex_held" /\ lg_free[m][num[m]] = q
        /\ pc[m] = "done" => dlm[q][m] = "NL"
    BY <1>0 DEF IInv, DlmInv
  <2>2. dlm'[q][m] = IF q = l /\ m = n THEN "PR" ELSE dlm[q][m]
    BY <1>0, <1>1 DEF TypeOK
  <2>3. CASE m = n
    <3>1. (Holds(n, q)' <=> Holds(n, q) \/ q = l) /\ pc'[n] # "done"
      BY <1>2
    <3>2. dlm[q][n] # "EX" /\ (dlm[q][n] = "PR" <=> Holds(n, q))
      BY <1>0, <2>1, <2>3
    <3>3. dlm'[q][n] = IF q = l THEN "PR" ELSE dlm[q][n]
      BY <2>2, <2>3
    <3> HIDE DEF l
    <3> QED BY <2>3, <3>1, <3>2, <3>3
  <2>4. CASE m # n
    BY <1>2, <2>1, <2>2, <2>4
  <2> QED BY <2>3, <2>4
<1> QED BY <1>2, <1>3, <1>4, NodesOKNext DEF IInv

\* A dropped PR lock moves from lg_held to lg_free.
LEMMA PrUnlockStep == ASSUME ConstantsOK, IInv, NEW n \in Nodes, PrUnlock(n) PROVE IInv'
<1> DEFINE l == lg_held[n][num[n]]
<1>0. IInv /\ TypeOK /\ NodeOK(n) /\ pc[n] = "pr_unlock" /\ direction[n] = "UNLOCK" /\ num[n] \in Locks /\ PrDone(n)
      /\ dlm' = [dlm EXCEPT ![l][n] = "NL"] /\ direction' = direction /\ caught_sig' = caught_sig
  BY NodesOK DEF IInv, TypeOK, PrUnlock, PrDone, NodeOK
<1>1. l \in Locks /\ Holds(n, l)
  BY <1>0, ChosenName DEF NodeOK
<1>2. /\ lg_cur_held' \in [Nodes -> 0 .. lg_num_locks]
      /\ lg_held' \in [Nodes -> [Locks -> Locks \cup {NULL}]]
      /\ lg_free' \in [Nodes -> [Locks -> Locks \cup {NULL}]]
      /\ todo' \in [Nodes -> Nat] /\ num' \in [Nodes -> Locks] /\ pc' \in [Nodes -> Pcs]
      /\ pc'[n] \in {"top", "pick"}
      /\ \A m \in Nodes : NodeOK(m)'
      /\ ListInv'
      /\ \A m \in Nodes, q \in Locks :
            IF m # n THEN (Holds(m, q)' <=> Holds(m, q)) /\ lg_free'[m] = lg_free[m]
                          /\ pc'[m] = pc[m] /\ num'[m] = num[m]
            ELSE Holds(n, q)' <=> Holds(n, q) /\ q # l
  BY <1>0, PrDoneStep, SMT
<1>3. TypeOK'
  BY <1>0, <1>1, <1>2 DEF TypeOK, Levels
<1>4. DlmInv'
  <2> SUFFICES ASSUME NEW m \in Nodes, NEW q \in Locks
               PROVE  /\ pc'[m] # "done" => (dlm'[q][m] = "PR" <=> Holds(m, q)')
                      /\ dlm'[q][m] = "EX" => pc'[m] = "ex_held" /\ lg_free'[m][num'[m]] = q
                      /\ pc'[m] = "done" => dlm'[q][m] = "NL"
    BY DEF DlmInv
  <2>1. /\ pc[m] # "done" => (dlm[q][m] = "PR" <=> Holds(m, q))
        /\ dlm[q][m] = "EX" => pc[m] = "ex_held" /\ lg_free[m][num[m]] = q
        /\ pc[m] = "done" => dlm[q][m] = "NL"
    BY <1>0 DEF IInv, DlmInv
  <2>2. dlm'[q][m] = IF q = l /\ m = n THEN "NL" ELSE dlm[q][m]
    BY <1>0, <1>1 DEF TypeOK
  <2>3. CASE m = n
    <3>1. (Holds(n, q)' <=> Holds(n, q) /\ q # l) /\ pc'[n] # "done"
      BY <1>2
    <3>2. dlm[q][n] # "EX" /\ (dlm[q][n] = "PR" <=> Holds(n, q))
      BY <1>0, <2>1, <2>3
    <3>3. dlm'[q][n] = IF q = l THEN "NL" ELSE dlm[q][n]
      BY <2>2, <2>3
    <3> HIDE DEF l
    <3> QED BY <2>3, <3>1, <3>2, <3>3
  <2>4. CASE m # n
    BY <1>2, <2>1, <2>2, <2>4
  <2> QED BY <2>3, <2>4
<1> QED BY <1>2, <1>3, <1>4, NodesOKNext DEF IInv

\* o2dlm_destroy drops what the leaving node had.
LEMMA LeaveStep == ASSUME IInv, NEW n \in Nodes, Leave(n) PROVE IInv'
<1>0. IInv /\ TypeOK /\ lg_cur_held' = lg_cur_held /\ lg_held' = lg_held /\ lg_free' = lg_free
      /\ todo' = todo /\ direction' = direction /\ num' = num /\ caught_sig' = caught_sig
      /\ pc' = [pc EXCEPT ![n] = "done"] /\ dlm' = [l \in Locks |-> [dlm[l] EXCEPT ![n] = "NL"]]
  BY DEF IInv, Leave, lists, Goto
<1>1. TypeOK'
  BY <1>0 DEF TypeOK, Pcs, Levels
<1>2. NodeOK(n)'
  BY <1>0 DEF NodeOK, TypeOK
<1>3. ASSUME NEW m \in Nodes, m # n PROVE NodeOK(m)'
  BY <1>0, <1>3, OthersOK DEF TypeOK
<1>4. ListInv'
  BY <1>0 DEF IInv, ListInv
<1>5. DlmInv'
  <2> SUFFICES ASSUME NEW m \in Nodes, NEW q \in Locks
               PROVE  /\ pc'[m] # "done" => (dlm'[q][m] = "PR" <=> Holds(m, q)')
                      /\ dlm'[q][m] = "EX" => pc'[m] = "ex_held" /\ lg_free'[m][num'[m]] = q
                      /\ pc'[m] = "done" => dlm'[q][m] = "NL"
    BY DEF DlmInv
  <2>1. /\ pc[m] # "done" => (dlm[q][m] = "PR" <=> Holds(m, q))
        /\ dlm[q][m] = "EX" => pc[m] = "ex_held" /\ lg_free[m][num[m]] = q
        /\ pc[m] = "done" => dlm[q][m] = "NL"
    BY <1>0 DEF IInv, DlmInv
  <2>2. dlm'[q][m] = (IF m = n THEN "NL" ELSE dlm[q][m]) /\ pc'[m] = IF m = n THEN "done" ELSE pc[m]
    BY <1>0 DEF TypeOK
  <2>3. Holds(m, q)' <=> Holds(m, q)
    BY <1>0 DEF Holds
  <2>4. CASE m = n
    BY <2>2, <2>4
  <2>5. CASE m # n
    BY <1>0, <2>1, <2>2, <2>3, <2>5
  <2> QED BY <2>4, <2>5
<1> QED BY <1>1, <1>2, <1>3, <1>4, <1>5, NodesOKNext DEF IInv

\* The signal handler only sets its flag.
LEMMA SignalStep == ASSUME IInv, NEW n \in Nodes, Signal(n) PROVE IInv'
BY SMT DEF IInv, Signal, lists, TypeOK, NeverEmptyChoice, NumInv, ListInv, DlmInv, Count, Holds

\* Nothing changes.
LEMMA StutterStep == ASSUME IInv, UNCHANGED vars PROVE IInv'
BY SMT DEF IInv, vars, TypeOK, NeverEmptyChoice, NumInv, ListInv, DlmInv, Count, Holds

\* Every step of every node preserves the invariant.
LEMMA NextIInv == ASSUME ConstantsOK, IInv, [Next]_vars PROVE IInv'
<1>1. ASSUME NEW n \in Nodes, Top(n) PROVE IInv'  BY <1>1, TopStep
<1>2. ASSUME NEW n \in Nodes, TryEx(n) PROVE IInv'  BY <1>2, TryExStep
<1>3. ASSUME NEW n \in Nodes, DropEx(n) PROVE IInv'  BY <1>3, DropExStep
<1>4. ASSUME NEW n \in Nodes, ThisPass(n) PROVE IInv'  BY <1>4, ThisPassStep
<1>5. ASSUME NEW n \in Nodes, Pick(n) PROVE IInv'  BY <1>5, PickStep
<1>6. ASSUME NEW n \in Nodes, PrLock(n) PROVE IInv'  BY <1>6, PrLockStep
<1>7. ASSUME NEW n \in Nodes, PrUnlock(n) PROVE IInv'  BY <1>7, PrUnlockStep
<1>8. ASSUME NEW n \in Nodes, Leave(n) PROVE IInv'  BY <1>8, LeaveStep
<1>9. ASSUME NEW n \in Nodes, Signal(n) PROVE IInv'  BY <1>9, SignalStep
<1>10. CASE UNCHANGED vars  BY <1>10, StutterStep
<1> QED BY <1>1, <1>2, <1>3, <1>4, <1>5, <1>6, <1>7, <1>8, <1>9, <1>10 DEF Next, Terminated

\* The names in the first c slots of an array, as a set of names.
LEMMA NamesInFront ==
    ASSUME NEW a, NEW c, \A i \in Locks : i < c => a[i] \in Locks,
           \A k : k \in 0 .. c - 1 <=> k \in Locks /\ k < c
    PROVE  {a[k] : k \in 0 .. c - 1} = {l \in Locks : In(a, c, l)}
BY DEF In

\* The strengthened invariant gives ListsMatchDlm.
LEMMA IInvLists == ASSUME ConstantsOK, IInv PROVE ListsMatchDlm
<1> SUFFICES ASSUME NEW n \in Nodes, pc[n] # "done"
             PROVE  /\ HeldNames(n) \cup FreeNames(n) = Locks
                    /\ \A k \in Locks :
                          /\ k >= lg_cur_held[n] => lg_held[n][k] = NULL
                          /\ k >= lg_num_locks - lg_cur_held[n] => lg_free[n][k] = NULL
                    /\ HeldNames(n) = {l \in Locks : dlm[l][n] = "PR"}
  BY DEF ListsMatchDlm
<1>0. /\ Split(lg_held[n], lg_cur_held[n], lg_free[n], lg_num_locks - lg_cur_held[n])
      /\ \A l \in Locks : dlm[l][n] = "PR" <=> Holds(n, l)
  BY DEF IInv, ListInv, DlmInv
<1> DEFINE h == lg_cur_held[n]
           f == lg_num_locks - h
<1>1. lg_num_locks \in Nat /\ h \in Nat /\ f \in Nat /\ h <= lg_num_locks /\ f <= lg_num_locks
  <2>1. lg_num_locks \in Nat /\ h \in 0 .. lg_num_locks
    BY DEF IInv, TypeOK, ConstantsOK
  <2> HIDE DEF h
  <2> QED BY <2>1, SMT
<1>2. \A k : k \in 0 .. h - 1 <=> k \in Locks /\ k < h
  BY <1>1, SMT DEF Locks
<1>3. \A k : k \in 0 .. f - 1 <=> k \in Locks /\ k < f
  BY <1>1, SMT DEF Locks
<1>4. HeldNames(n) = {l \in Locks : Holds(n, l)}
  <2>1. \A i \in Locks : i < h => lg_held[n][i] \in Locks
    BY <1>0 DEF Split
  <2> QED BY <1>2, <2>1, NamesInFront DEF HeldNames, Holds
<1>5. FreeNames(n) = {l \in Locks : In(lg_free[n], f, l)}
  <2>1. \A i \in Locks : i < f => lg_free[n][i] \in Locks
    BY <1>0 DEF Split
  <2> QED BY <1>3, <2>1, NamesInFront DEF FreeNames
<1>6. \A l \in Locks : Holds(n, l) \/ In(lg_free[n], f, l)
  BY <1>0 DEF Split, Holds, In
<1>7. \A k \in Locks : /\ k >= h => lg_held[n][k] = NULL
                       /\ k >= f => lg_free[n][k] = NULL
  <2> TAKE k \in Locks
  <2>1. (k >= h => ~ (k < h)) /\ (k >= f => ~ (k < f))
    BY <1>1, LocksAreNat, SMT
  <2> QED BY <1>0, <2>1 DEF Split
<1> QED BY <1>0, <1>4, <1>5, <1>6, <1>7

\* ... and NoWaitCycle.
LEMMA IInvNoCycle == ASSUME ConstantsOK, IInv PROVE NoWaitCycle
<1> SUFFICES ASSUME NEW n \in Nodes, NEW m \in Nodes, pc[n] = "pr_lock", dlm[lg_free[n][num[n]]][m] = "EX"
             PROVE  pc[m] = "ex_held" /\ lg_free[m][num[m]] = lg_free[n][num[n]]
  BY DEF NoWaitCycle
<1>1. num[n] \in Locks /\ num[n] < Count(n, "LOCK")
  BY DEF IInv, TypeOK, NumInv
<1>2. lg_free[n][num[n]] \in Locks
  BY <1>1, ChosenName
<1> QED BY <1>2 DEF IInv, DlmInv

\* The invariant holds in every state of lock_grab.
LEMMA SpecIInv == ASSUME ConstantsOK PROVE Spec => []IInv
<1>1. Init => IInv
  BY InitIInv
<1>2. IInv /\ [Next]_vars => IInv'
  BY NextIInv
<1> QED BY <1>1, <1>2, PTL DEF Spec

\* For every number of nodes, locks and accepted water marks: the two arrays
\* of a running node split the lock names, and lg_held names exactly the locks
\* the DLM has granted the node at PR (shift_lock, do_one_pr_lock).
THEOREM ListsAlwaysMatch == ASSUME ConstantsOK PROVE Spec => []ListsMatchDlm
<1>1. IInv => ListsMatchDlm
  BY IInvLists
<1> QED BY <1>1, SpecIInv, PTL

\* pick_lock and locks_this_pass never reduce modulo zero and shift_lock never
\* reaches its abort().
THEOREM ChoiceNeverEmpty == ASSUME ConstantsOK PROVE Spec => []NeverEmptyChoice
<1>1. IInv => NeverEmptyChoice
  BY DEF IInv
<1> QED BY <1>1, SpecIInv, PTL

\* A node that waits for a PR lock waits for a node that is about to drop it:
\* EX locks are taken one at a time and only with O2DLM_TRYLOCK, so no cycle of
\* waiting nodes forms.
THEOREM NoCycleOfWaiters == ASSUME ConstantsOK PROVE Spec => []NoWaitCycle
<1>1. IInv => NoWaitCycle
  BY IInvNoCycle
<1> QED BY <1>1, SpecIInv, PTL

-----------------------------------------------------------------------------
\* What the getopt loop and the checks of parse_args maintain.  While it runs, an option not seen
\* yet has its default and an option seen is no longer on the command line.
ArgsInv ==
    /\ set \subseteq {"num", "min", "max"}
    /\ lgc = [num |-> lgc.num, min |-> lgc.min, max |-> lgc.max]
    /\ lgc.num \in Int /\ lgc.min \in Int /\ lgc.max \in Int
    /\ args \in [Opts -> Given]
    /\ ret \in {"running", "ok", "EINVAL"}
    /\ \A o \in set : args[o] = NotGiven
    /\ ret = "running" => /\ "num" \notin set => lgc.num = DefNum
                          /\ "min" \notin set => lgc.min = DefMin
                          /\ "max" \notin set => lgc.max = DefMax
    /\ AcceptedArgsAreSane

\* One turn of the getopt loop keeps it.
LEMMA OptionStep ==
    ASSUME ArgsConstantsOK, ArgsInv, NEW o \in Opts, Option(o)
    PROVE  ArgsInv' /\ \A p \in set : lgc'[p] = lgc[p]
<1> USE DEF Opts
<1>0. o \notin set /\ ret = "running"
  BY DEF ArgsInv, Option
<1>1. CASE args[o] = 0
  <2>1. ret' = "EINVAL" /\ UNCHANGED <<args, lgc, set>> /\ args[o] # NotGiven
    BY <1>1 DEF Option
  <2> QED BY <2>1 DEF ArgsInv, AcceptedArgsAreSane, LowMarkAlone
<1>2. CASE args[o] # 0
  <2>1. /\ lgc' = [lgc EXCEPT ![o] = args[o]]
        /\ set' = set \cup {o}
        /\ args' = [args EXCEPT ![o] = NotGiven]
        /\ ret' = "running"
    BY <1>0, <1>2 DEF Option
  <2>2. args[o] \in Int
    BY SMT DEF ArgsInv, Option, Given
  <2>3. /\ lgc' = [num |-> lgc'.num, min |-> lgc'.min, max |-> lgc'.max]
        /\ lgc'.num = IF o = "num" THEN args[o] ELSE lgc.num
        /\ lgc'.min = IF o = "min" THEN args[o] ELSE lgc.min
        /\ lgc'.max = IF o = "max" THEN args[o] ELSE lgc.max
    BY <2>1 DEF ArgsInv
  <2>4. args' \in [Opts -> Given]
    BY <2>1 DEF ArgsInv, Given
  <2>5. \A p \in set' : args'[p] = NotGiven
    BY <2>1 DEF ArgsInv
  <2>6. AcceptedArgsAreSane'
    BY <2>1 DEF AcceptedArgsAreSane, LowMarkAlone
  <2>7. \A p \in set : lgc'[p] = lgc[p]
    BY <1>0, <2>1 DEF ArgsInv
  <2> QED BY <1>0, <2>1, <2>2, <2>3, <2>4, <2>5, <2>6, <2>7 DEF ArgsInv
<1> QED BY <1>1, <1>2

\* The three clean-ups change a number only where the user gave none, and never the lower mark.
LEMMA CleanupKeeps ==
    ASSUME ArgsInv
    PROVE  LET l == Cleanup3(Cleanup2(Cleanup1(lgc)))
           IN  /\ l = [num |-> l.num, min |-> lgc.min, max |-> l.max]
               /\ l.num \in Int /\ l.max \in Int
               /\ "num" \in set => l.num = lgc.num
               /\ "max" \in set => l.max = lgc.max
               /\ set = {"min"} =>
                    /\ l.max = IF lgc.min > lgc.max THEN lgc.min + 1 ELSE lgc.max
                    /\ l.num = IF l.max > lgc.num THEN l.max ELSE lgc.num
<1> DEFINE a == Cleanup1(lgc)
           b == Cleanup2(a)
           c == Cleanup3(b)
<1>0. lgc = [num |-> lgc.num, min |-> lgc.min, max |-> lgc.max]
      /\ lgc.num \in Int /\ lgc.min \in Int /\ lgc.max \in Int
  BY DEF ArgsInv
<1>1. /\ a = [num |-> lgc.num, min |-> lgc.min, max |-> a.max] /\ a.max \in Int
      /\ "max" \in set => a.max = lgc.max
      /\ set = {"min"} => a.max = IF lgc.min > lgc.max THEN lgc.min + 1 ELSE lgc.max
  BY <1>0, SMT DEF Cleanup1
<1> HIDE DEF a
<1>2. /\ b = [num |-> lgc.num, min |-> lgc.min, max |-> b.max] /\ b.max \in Int
      /\ "max" \in set => b.max = lgc.max
      /\ set = {"min"} => b.max = a.max
  BY <1>0, <1>1, SMT DEF Cleanup2
<1> HIDE DEF b
<1>3. /\ c = [num |-> c.num, min |-> lgc.min, max |-> b.max] /\ c.num \in Int
      /\ "num" \in set => c.num = lgc.num
      /\ set = {"min"} => c.num = IF b.max > lgc.num THEN b.max ELSE lgc.num
  BY <1>0, <1>2, SMT DEF Cleanup3
<1>4. c = Cleanup3(Cleanup2(Cleanup1(lgc)))
  BY DEF a, b
<1> HIDE DEF c
<1> QED BY <1>1, <1>2, <1>3, <1>4, SMT

\* The checks after the loop keep it: what is accepted is sane.
LEMMA VerifyStep ==
    ASSUME ArgsConstantsOK, ArgsInv, Verify
    PROVE  ArgsInv' /\ \A p \in set : lgc'[p] = lgc[p]
<1> DEFINE l == Cleanup3(Cleanup2(Cleanup1(lgc)))
<1>0. /\ lgc = [num |-> lgc.num, min |-> lgc.min, max |-> lgc.max]
      /\ lgc.num \in Int /\ lgc.min \in Int /\ lgc.max \in Int
      /\ set' = set /\ args' = args /\ ret = "running"
      /\ DefNum \in Nat /\ DefMin \in Nat /\ DefMax \in Nat /\ DefMin < DefMax /\ DefMax <= DefNum
  BY DEF ArgsInv, Verify, ArgsConstantsOK
<1>1. set = {"min"} => lgc.num = DefNum /\ lgc.max = DefMax
  BY <1>0 DEF ArgsInv
<1>2. CASE StupidErrors
  <2>1. ret' = "EINVAL" /\ lgc' = lgc
    BY <1>2 DEF Verify
  <2>2. set = {"min"} => lgc.min < 0
    BY <1>0, <1>1, <1>2, SMT DEF StupidErrors
  <2> QED BY <1>0, <2>1, <2>2 DEF ArgsInv, AcceptedArgsAreSane, LowMarkAlone
<1>3. CASE ~ StupidErrors
  <2>1. lgc' = l /\ ret' = IF Senseless(l) THEN "EINVAL" ELSE "ok"
    BY <1>3 DEF Verify
  <2>2. /\ l = [num |-> l.num, min |-> lgc.min, max |-> l.max]
        /\ l.num \in Int /\ l.max \in Int
        /\ "num" \in set => l.num = lgc.num
        /\ "max" \in set => l.max = lgc.max
        /\ set = {"min"} => /\ l.max = IF lgc.min > lgc.max THEN lgc.min + 1 ELSE lgc.max
                            /\ l.num = IF l.max > lgc.num THEN l.max ELSE lgc.num
    BY CleanupKeeps
  <2> HIDE DEF l
  <2>3. lgc.min >= 0
    BY <1>0, <1>3, SMT DEF StupidErrors
  <2>4. LowMarkAlone'
    BY <1>0, <1>1, <2>1, <2>2, <2>3, SMT DEF LowMarkAlone, Senseless
  <2>5. AcceptedArgsAreSane'
    BY <1>0, <2>1, <2>2, <2>3, <2>4, SMT DEF AcceptedArgsAreSane, Senseless
  <2>6. \A p \in set : lgc'[p] = lgc[p]
    BY <1>0, <2>1, <2>2, SMT DEF ArgsInv
  <2> QED BY <1>0, <2>1, <2>2, <2>5, <2>6, SMT DEF ArgsInv
<1> QED BY <1>2, <1>3

\* parse_args keeps it, and keeps what the user gave.
LEMMA ArgsStep ==
    ASSUME ArgsConstantsOK, ArgsInv, [ArgsNext]_parse
    PROVE  ArgsInv' /\ \A o \in set : lgc'[o] = lgc[o]
<1>1. CASE \E o \in Opts : Option(o)
  BY <1>1, OptionStep
<1>2. CASE Verify
  BY <1>2, VerifyStep
<1>3. CASE UNCHANGED parse
  BY <1>3 DEF parse, ArgsInv, AcceptedArgsAreSane, LowMarkAlone
<1> QED BY <1>1, <1>2, <1>3 DEF ArgsNext, ParseEnded

\* It holds when parse_args starts.
LEMMA ArgsStart == ASSUME ArgsConstantsOK, ArgsInit PROVE ArgsInv
BY SMT DEF ArgsInit, ArgsInv, ArgsConstantsOK, Opts, AcceptedArgsAreSane, LowMarkAlone

\* For all defaults that main may set and every number on the command line, negative ones and zero
\* included: what parse_args accepts is what the loop of run relies on, and -L alone is refused
\* only when it is negative or the default high-water mark.
THEOREM AcceptedIsSane == ASSUME ArgsConstantsOK PROVE ArgsSpec => []AcceptedArgsAreSane
<1>1. ArgsInit => ArgsInv
  BY ArgsStart
<1>2. ArgsInv /\ [ArgsNext]_parse => ArgsInv'
  BY ArgsStep
<1>3. ArgsInv => AcceptedArgsAreSane
  BY DEF ArgsInv
<1> QED BY <1>1, <1>2, <1>3, PTL DEF ArgsSpec

\* For the same: none of the three clean-ups replaces a number the user gave.
THEOREM UserInputAlwaysKept == ASSUME ArgsConstantsOK PROVE ArgsSpec => UserInputIsKept
<1>1. ArgsInit => ArgsInv
  BY ArgsStart
<1>2. ArgsInv /\ [ArgsNext]_parse => ArgsInv' /\ [\A o \in set : lgc'[o] = lgc[o]]_parse
  BY ArgsStep
<1> QED BY <1>1, <1>2, PTL DEF ArgsSpec, UserInputIsKept
=============================================================================
