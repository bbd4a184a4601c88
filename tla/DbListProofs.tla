----------------------------- MODULE DbListProofs -----------------------------
(***************************************************************************)
(* The lists of the index file: with inserts that no other write overlaps  *)
(* and no process killed, the free list and the hash chains stay apart and *)
(* the database is a map, for any number of processes, keys and calls.     *)
(***************************************************************************)
EXTENDS DbProofs, DbRefine, FiniteSetTheorems

(***************************************************************************)
(* Least elements, the induction that is available here.                   *)
(***************************************************************************)
LEMMA LessWellFounded == IsWellFoundedOn({s \in Nat \X Nat : s[1] < s[2]}, Nat)
  BY NatLessThanWellFounded DEF OpToRel

LEMMA Least ==
  ASSUME NEW T \in SUBSET Nat, T # {}
  PROVE  \E m \in T : \A n \in T : m <= n
<1> DEFINE Less == {s \in Nat \X Nat : s[1] < s[2]}
<1>1. \E m \in T : \A n \in T : ~(<<n, m>> \in Less)
  <2> HIDE DEF Less
  <2>1. IsWellFoundedOn(Less, Nat)
    BY LessWellFounded DEF Less
  <2> QED BY <2>1, WFMin
<1>2. PICK m \in T : \A n \in T : ~(<<n, m>> \in Less)
  BY <1>1
<1>3. ASSUME NEW n \in T PROVE m <= n
  <2>1. m \in Nat /\ n \in Nat /\ ~(<<n, m>> \in Less)
    BY <1>2
  <2> QED BY <2>1
<1> QED BY <1>3

(***************************************************************************)
(* What Walk computes.                                                     *)
(***************************************************************************)
WalkTo(l, m, f) ==
  /\ f \in [0 .. m -> Ptr]
  /\ f[0] = Field(l)
  /\ \A n \in 1 .. m : f[n] = IF f[n - 1] = 0 THEN 0 ELSE Field(f[n - 1])

LEMMA WalkExists ==
  ASSUME TypeOK, NEW l \in PtrLoc, NEW m \in Nat
  PROVE  \E f : WalkTo(l, m, f)
<1> DEFINE T == {n \in Nat : ~ \E f : WalkTo(l, n, f)}
<1> SUFFICES ASSUME T # {} PROVE FALSE
  OBVIOUS
<1>1. PICK n \in T : \A i \in T : n <= i
  <2> HIDE DEF T
  <2>1. T \in SUBSET Nat BY DEF T
  <2> QED BY <2>1, Least
<1>2. n \in Nat /\ ~ \E f : WalkTo(l, n, f)
  OBVIOUS
<1>3. Field(l) \in Ptr
  BY FieldTyped
<1>4. n # 0
  <2>1. WalkTo(l, 0, [i \in 0 .. 0 |-> Field(l)])
    BY <1>3 DEF WalkTo
  <2> QED BY <1>2, <2>1
<1>5. PICK f : WalkTo(l, n - 1, f)
  <2>1. n - 1 \in Nat /\ ~(n <= n - 1)
    BY <1>2, <1>4
  <2>2. n - 1 \notin T
    BY <1>1, <2>1
  <2> QED BY <2>1, <2>2
<1>6. f[n - 1] \in Ptr
  BY <1>2, <1>4, <1>5 DEF WalkTo
<1> DEFINE v == IF f[n - 1] = 0 THEN 0 ELSE Field(f[n - 1])
           g == [i \in 0 .. n |-> IF i = n THEN v ELSE f[i]]
<1>7. v \in Ptr
  BY <1>6, OffsetFacts, FieldTyped
<1>8. WalkTo(l, n, g)
  <2> HIDE DEF v
  <2>1. g \in [0 .. n -> Ptr]
    BY <1>2, <1>4, <1>5, <1>7 DEF WalkTo
  <2>2. g[0] = Field(l)
    BY <1>2, <1>4, <1>5 DEF WalkTo
  <2>3. ASSUME NEW i \in 1 .. n
        PROVE  g[i] = IF g[i - 1] = 0 THEN 0 ELSE Field(g[i - 1])
    <3>1. CASE i = n
      <4>1. g[i] = v /\ g[i - 1] = f[n - 1]
        BY <1>2, <1>4, <3>1
      <4> QED BY <4>1 DEF v
    <3>2. CASE i # n
      <4>1. i \in 1 .. n - 1 /\ g[i] = f[i] /\ g[i - 1] = f[i - 1]
        BY <1>2, <1>4, <3>2
      <4> QED BY <1>5, <4>1 DEF WalkTo
    <3> QED BY <3>1, <3>2
  <2> QED BY <2>1, <2>2, <2>3 DEF WalkTo
<1> QED BY <1>2, <1>8

LEMMA WalkIs ==
  ASSUME TypeOK, NEW l \in PtrLoc
  PROVE  WalkTo(l, Len(idx), Walk(l))
<1>1. Len(idx) \in Nat
  BY LenNat
<1> DEFINE Eq(f) == f = [n \in 0 .. Len(idx) |->
              IF n = 0 THEN Field(l) ELSE IF f[n - 1] = 0 THEN 0 ELSE Field(f[n - 1])]
<1>2. PICK f : WalkTo(l, Len(idx), f)
  BY <1>1, WalkExists
<1>3. Eq(f)
  <2>1. \A n \in 0 .. Len(idx) : f[n] =
           IF n = 0 THEN Field(l) ELSE IF f[n - 1] = 0 THEN 0 ELSE Field(f[n - 1])
    BY <1>1, <1>2 DEF WalkTo
  <2>2. f = [n \in 0 .. Len(idx) |-> f[n]]
    BY <1>2 DEF WalkTo
  <2> QED BY <2>1, <2>2
<1>4. Walk(l) = CHOOSE g : Eq(g)
  BY DEF Walk
<1>5. Eq(Walk(l))
  <2> HIDE DEF Eq
  <2> QED BY <1>3, <1>4
<1>6. Field(l) \in Ptr
  BY FieldTyped
<1> QED
  <2> DEFINE w == Walk(l)
  <2> HIDE DEF w
  <2>1. w = [n \in 0 .. Len(idx) |->
               IF n = 0 THEN Field(l) ELSE IF w[n - 1] = 0 THEN 0 ELSE Field(w[n - 1])]
    BY <1>5 DEF w
  <2>2. w[0] = Field(l)
    BY <1>1, <2>1
  <2>3. \A n \in 1 .. Len(idx) : w[n] = IF w[n - 1] = 0 THEN 0 ELSE Field(w[n - 1])
    BY <1>1, <2>1
  <2>4. \A n \in 0 .. Len(idx) : w[n] \in Ptr
    <3> DEFINE T == {n \in Nat : n \in 0 .. Len(idx) /\ w[n] \notin Ptr}
    <3> SUFFICES ASSUME T # {} PROVE FALSE
      BY <1>1
    <3>1. PICK n \in T : \A i \in T : n <= i
      <4> HIDE DEF T
      <4>1. T \in SUBSET Nat BY DEF T
      <4> QED BY <4>1, Least
    <3>2. n # 0
      BY <1>6, <2>2
    <3>3. n - 1 \in 0 .. Len(idx) /\ n - 1 \notin T
      BY <1>1, <3>1, <3>2
    <3>4. w[n - 1] \in Ptr
      BY <1>1, <3>3
    <3>5. w[n] \in Ptr
      <4>1. n \in 1 .. Len(idx)
        BY <1>1, <3>2
      <4> QED BY <4>1, <2>3, <3>4, OffsetFacts, FieldTyped
    <3> QED BY <3>5
  <2>5. w \in [0 .. Len(idx) -> Ptr]
    BY <2>1, <2>4
  <2> QED BY <2>2, <2>3, <2>5 DEF WalkTo, w

(***************************************************************************)
(* The shape of the lists.  L[x] is the list that pointer field x is on, a *)
(* list being named by the offset of its head, or -1; R[x] is its rank,    *)
(* which decreases along the list.                                         *)
(***************************************************************************)
Shape(L, R) ==
  /\ L \in [Nat -> -1 .. NHASH]
  /\ R \in [Nat -> Nat]
  /\ \A l \in 0 .. NHASH : L[l] = l
  /\ \A x \in Nat : x > NHASH + Len(idx) => L[x] = -1
  /\ \A y \in RecOff : L[y] # -1 => y <= PTR_MAX /\ R[y] < R[L[y]]
  /\ \A y, z \in RecOff : L[y] # -1 /\ L[y] = L[z] /\ R[y] = R[z] => y = z

(* v is what follows x on its list: the record of the next lower rank.     *)
Follows(L, R, x, v) ==
  \/ v = 0 /\ \A y \in RecOff : L[y] = L[x] => R[y] >= R[x]
  \/ /\ v \in RecOff /\ L[v] = L[x] /\ R[v] < R[x]
     /\ \A y \in RecOff : L[y] = L[x] /\ R[y] < R[x] => R[y] <= R[v]

On(L, l) == {y \in RecOff : L[y] = l}

(* Len(idx) + 1 visits of records: one is visited twice.                   *)
LEMMA Pigeons ==
  ASSUME TypeOK, NEW w \in [0 .. Len(idx) -> RecOff]
  PROVE  \E i, j \in 0 .. Len(idx) : i # j /\ w[i] = w[j]
<1> DEFINE M == Len(idx)
<1>1. M \in Nat /\ NHASH \in Nat
  BY LenNat, ConstAssumption
<1>2. IsFiniteSet(0 .. M) /\ Cardinality(0 .. M) = M + 1
  BY <1>1, FS_Interval
<1>3. IsFiniteSet(RecOff) /\ Cardinality(RecOff) = M
  <2> DEFINE a == NHASH + 1
             b == NHASH + M
  <2>1. a \in Int /\ b \in Int /\ (a > b => M = 0) /\ b - a + 1 = M /\ RecOff = a .. b
    BY <1>1 DEF RecOff, FirstRec
  <2> HIDE DEF a, b
  <2>2. IsFiniteSet(a .. b) /\ Cardinality(a .. b) = IF a > b THEN 0 ELSE b - a + 1
    BY <2>1, FS_Interval
  <2> QED BY <2>1, <2>2
<1>4. Cardinality(RecOff) < Cardinality(0 .. M)
  BY <1>1, <1>2, <1>3
<1> QED BY <1>2, <1>3, <1>4, FS_PigeonHole

(* A walk stays in a set that its pointers do not leave, and ends if they  *)
(* lead to smaller and smaller ranks.                                      *)
LEMMA WalkIn ==
  ASSUME TypeOK, NEW l \in 0 .. NHASH, NEW S \in SUBSET RecOff, NEW N, \A y \in S : N[y] \in Nat,
         Field(l) = 0 \/ Field(l) \in S,
         \A y \in S : Field(y) = 0 \/ (Field(y) \in S /\ N[Field(y)] < N[y])
  PROVE  /\ \A n \in 0 .. Len(idx) : Walk(l)[n] # 0 => Walk(l)[n] \in S
         /\ Walk(l)[Len(idx)] = 0
<1> DEFINE w == Walk(l)
           M == Len(idx)
<1>1. M \in Nat /\ NHASH \in Nat /\ l \in Nat /\ l \in PtrLoc
  BY LenNat, ConstAssumption DEF PtrLoc
<1>2. w \in [0 .. M -> Ptr] /\ w[0] = Field(l)
      /\ \A n \in 1 .. M : w[n] = IF w[n - 1] = 0 THEN 0 ELSE Field(w[n - 1])
  BY <1>1, WalkIs DEF WalkTo
<1> HIDE DEF w
<1>3. \A n \in 0 .. M : w[n] # 0 => w[n] \in S
  <2> DEFINE T == {n \in Nat : n \in 0 .. M /\ ~(w[n] # 0 => w[n] \in S)}
  <2> SUFFICES ASSUME T # {} PROVE FALSE
    BY <1>1
  <2>1. PICK n \in T : \A i \in T : n <= i
    <3> HIDE DEF T
    <3>1. T \in SUBSET Nat BY DEF T
    <3> QED BY <3>1, Least
  <2>2. n \in Nat /\ n <= M /\ w[n] # 0 /\ w[n] \notin S
    OBVIOUS
  <2>3. n # 0
    BY <1>2, <2>2
  <2>4. n - 1 \in 0 .. M /\ n \in 1 .. M /\ n - 1 \notin T
    BY <1>1, <2>1, <2>2, <2>3
  <2>5. w[n - 1] # 0 /\ w[n] = Field(w[n - 1])
    BY <1>2, <2>2, <2>4
  <2>6. w[n - 1] \in S
    BY <1>1, <2>4, <2>5
  <2> QED BY <2>2, <2>5, <2>6
<1>4. \A j \in 0 .. M : w[j] # 0 => \A i \in 0 .. j - 1 : w[i] # 0 /\ N[w[j]] < N[w[i]]
  <2> DEFINE Bad(j) == j \in 0 .. M /\ w[j] # 0 /\ ~ \A i \in 0 .. j - 1 : w[i] # 0 /\ N[w[j]] < N[w[i]]
             T == {j \in Nat : Bad(j)}
  <2> SUFFICES ASSUME T # {} PROVE FALSE
    BY <1>1
  <2>1. PICK j \in T : \A i \in T : j <= i
    <3> HIDE DEF T
    <3>1. T \in SUBSET Nat BY DEF T
    <3> QED BY <3>1, Least
  <2>2. j \in Nat /\ j <= M /\ w[j] # 0
    OBVIOUS
  <2>3. j # 0
    OBVIOUS
  <2>4. j - 1 \in 0 .. M /\ j \in 1 .. M /\ j - 1 \notin T
    BY <1>1, <2>1, <2>2, <2>3
  <2>5. w[j - 1] # 0 /\ w[j] = Field(w[j - 1])
    BY <1>2, <2>2, <2>4
  <2>6. \A i \in 0 .. j - 2 : w[i] # 0 /\ N[w[j - 1]] < N[w[i]]
    BY <2>2, <2>4, <2>5
  <2>7. w[j - 1] \in S /\ w[j] \in S
    BY <1>3, <2>2, <2>4, <2>5
  <2>8. N[w[j]] < N[w[j - 1]]
    BY <2>2, <2>5, <2>7
  <2>9. ASSUME NEW i \in 0 .. j - 1 PROVE w[i] # 0 /\ N[w[j]] < N[w[i]]
    <3>1. CASE i = j - 1
      BY <2>5, <2>8, <3>1
    <3>2. CASE i # j - 1
      <4>1. i \in 0 .. j - 2 /\ i \in 0 .. M
        BY <2>2, <3>2, <1>1
      <4>2. w[i] # 0 /\ N[w[j - 1]] < N[w[i]]
        BY <2>6, <4>1
      <4>3. w[i] \in S
        BY <1>3, <4>1, <4>2
      <4>4. N[w[i]] \in Nat /\ N[w[j]] \in Nat /\ N[w[j - 1]] \in Nat
        BY <4>3, <2>7
      <4> QED BY <4>2, <4>4, <2>8
    <3> QED BY <3>1, <3>2
  <2> QED BY <2>9
<1>5. w[M] = 0
  <2> SUFFICES ASSUME w[M] # 0 PROVE FALSE
    OBVIOUS
  <2>1. \A n \in 0 .. M : w[n] # 0
    <3>1. \A i \in 0 .. M - 1 : w[i] # 0
      BY <1>1, <1>4
    <3> QED BY <1>1, <3>1
  <2>2. w \in [0 .. M -> RecOff]
    BY <1>2, <1>3, <2>1
  <2>5. PICK i, j \in 0 .. M : i # j /\ w[i] = w[j]
    BY <1>1, <2>2, Pigeons
  <2>6. N[w[i]] \in Nat /\ N[w[j]] \in Nat
    BY <1>3, <2>1
  <2>7. CASE i < j
    <3>1. i \in 0 .. j - 1
      BY <1>1, <2>7
    <3>2. N[w[j]] < N[w[i]]
      BY <1>4, <2>1, <3>1
    <3> QED BY <2>5, <2>6, <3>2
  <2>8. CASE j < i
    <3>1. j \in 0 .. i - 1
      BY <1>1, <2>8
    <3>2. N[w[i]] < N[w[j]]
      BY <1>4, <2>1, <3>1
    <3> QED BY <2>5, <2>6, <3>2
  <2> QED BY <1>1, <2>5, <2>7, <2>8
<1> QED BY <1>3, <1>5 DEF w

(* The records on the list that starts at l are those that L says, and it  *)
(* ends.                                                                   *)
LEMMA WalkOn ==
  ASSUME TypeOK, NEW L, NEW R, Shape(L, R), NEW l \in 0 .. NHASH,
         \A x \in PtrLoc : L[x] = l => Follows(L, R, x, Field(x))
  PROVE  OnList(l) = On(L, l) /\ Ends(l)
<1> DEFINE w == Walk(l)
           M == Len(idx)
<1>1. M \in Nat /\ NHASH \in Nat /\ l \in Nat /\ l \in PtrLoc
  BY LenNat, ConstAssumption DEF PtrLoc
<1>2. w \in [0 .. M -> Ptr] /\ w[0] = Field(l)
      /\ \A n \in 1 .. M : w[n] = IF w[n - 1] = 0 THEN 0 ELSE Field(w[n - 1])
  BY <1>1, WalkIs DEF WalkTo
<1> HIDE DEF w
<1>3. RecOff \subseteq PtrLoc /\ RecOff \subseteq Nat /\ \A y \in RecOff : y # 0
  BY <1>1 DEF RecOff, PtrLoc, FirstRec
<1>4. L[l] = l /\ l # -1 /\ Follows(L, R, l, Field(l))
  BY <1>1 DEF Shape
<1>5. \A y \in RecOff : L[y] \in -1 .. NHASH /\ R[y] \in Nat
  BY <1>3 DEF Shape
<1>6. R[l] \in Nat
  BY <1>1 DEF Shape
<1>7. /\ \A n \in 0 .. M : w[n] # 0 => w[n] \in On(L, l)
      /\ w[M] = 0
  <2>1. On(L, l) \in SUBSET RecOff /\ \A y \in On(L, l) : R[y] \in Nat
    BY <1>5 DEF On
  <2>2. ASSUME NEW x \in PtrLoc, L[x] = l
        PROVE  Field(x) = 0 \/ (Field(x) \in On(L, l) /\ R[Field(x)] < R[x])
    <3>1. Follows(L, R, x, Field(x))
      BY <2>2
    <3> QED BY <2>2, <3>1 DEF Follows, On
  <2>3. Field(l) = 0 \/ Field(l) \in On(L, l)
    BY <1>1, <1>4, <2>2
  <2>4. \A y \in On(L, l) : Field(y) = 0 \/ (Field(y) \in On(L, l) /\ R[Field(y)] < R[y])
    BY <1>3, <2>2 DEF On
  <2> QED BY <2>1, <2>3, <2>4, WalkIn DEF w
<1>10. ASSUME NEW y \in On(L, l) PROVE \E n \in 0 .. M : w[n] = y
  <2> DEFINE T == {n \in Nat : n \in 0 .. M /\ (w[n] = 0 \/ R[w[n]] <= R[y])}
  <2>1. PICK n \in T : \A i \in T : n <= i
    <3>1. M \in T
      BY <1>1, <1>7
    <3> HIDE DEF T
    <3>2. T \in SUBSET Nat BY DEF T
    <3> QED BY <3>1, <3>2, Least
  <2>2. n \in Nat /\ n \in 0 .. M /\ (w[n] = 0 \/ R[w[n]] <= R[y])
    BY <2>1
  <2>3. y \in RecOff /\ L[y] = l /\ R[y] < R[l] /\ R[y] \in Nat
    BY <1>4, <1>5 DEF On, Shape
  <2>4. ASSUME NEW x, L[x] = l, R[y] < R[x], Follows(L, R, x, w[n]), R[x] \in Nat
        PROVE  w[n] = y
    <3>1. w[n] # 0 /\ w[n] \in RecOff /\ L[w[n]] = l /\ R[y] <= R[w[n]]
      BY <1>3, <2>3, <2>4 DEF Follows
    <3>2. R[w[n]] = R[y]
      BY <2>2, <2>3, <3>1, <1>5
    <3> QED BY <2>3, <3>1, <3>2, <1>4 DEF Shape
  <2>5. CASE n = 0
    <3>1. Follows(L, R, l, w[n])
      BY <1>2, <1>4, <2>5
    <3>2. w[n] = y
      BY <3>1, <2>3, <2>4, <1>4, <1>6
    <3> QED BY <2>2, <3>2
  <2>6. CASE n # 0
    <3>1. n - 1 \in 0 .. M /\ n \in 1 .. M /\ n - 1 \notin T
      BY <1>1, <2>1, <2>2, <2>6
    <3>2. w[n - 1] # 0 /\ ~(R[w[n - 1]] <= R[y])
      BY <3>1
    <3>3. w[n - 1] \in On(L, l) /\ w[n] = Field(w[n - 1])
      BY <1>2, <1>7, <3>1, <3>2
    <3>4. R[w[n - 1]] \in Nat /\ w[n - 1] \in PtrLoc /\ L[w[n - 1]] = l
      BY <3>3, <1>3, <1>5 DEF On
    <3>5. Follows(L, R, w[n - 1], w[n])
      BY <3>3, <3>4
    <3>6. w[n] = y
      <4>1. R[y] < R[w[n - 1]]
        BY <3>2, <3>4, <2>3
      <4> QED BY <4>1, <3>4, <3>5, <2>4
    <3> QED BY <2>2, <3>6
  <2> QED BY <2>5, <2>6
<1>11. OnList(l) = {w[n] : n \in 0 .. M} \ {0}
  BY DEF OnList, w
<1>12. OnList(l) = On(L, l)
  <2>1. \A y \in On(L, l) : y # 0
    BY <1>3 DEF On
  <2>2. ASSUME NEW y \in OnList(l) PROVE y \in On(L, l)
    BY <1>7, <1>11
  <2>3. ASSUME NEW y \in On(L, l) PROVE y \in OnList(l)
    BY <1>10, <1>11, <2>1
  <2> QED BY <2>2, <2>3
<1> QED BY <1>7, <1>12 DEF Ends, w

-----------------------------------------------------------------------------
(***************************************************************************)
(* The invariant.                                                          *)
(***************************************************************************)

(* A deletion has rewritten the record behind pointer field x, and not yet *)
(* the field.                                                              *)
CutAt(p, x) == pc[p] \in {"del_head", "del_unlink"} /\ d[p].ptroff = x

(* Every pointer field leads to what follows it on its list.               *)
Linked(L, R) ==
  \A x \in PtrLoc : L[x] # -1 =>
    /\ (\A p \in Procs : ~CutAt(p, x)) => Follows(L, R, x, Field(x))
    /\ \A p \in Procs : CutAt(p, x) => Follows(L, R, x, d[p].saveptr)

(* The free list holds blank records, the chains records of their keys, no *)
(* key twice.                                                              *)
Sorted(L) ==
  /\ \A y \in RecOff : L[y] = 0 => Rec(y).key = Blank
  /\ \A y \in RecOff : L[y] >= 1 => Rec(y).key \in Keys /\ ChainOff(Rec(y).key) = L[y]
  /\ \A y, z \in RecOff : L[y] >= 1 /\ L[z] >= 1 /\ Rec(y).key = Rec(z).key => y = z

(* A process that has appended its datum and not yet its index record.     *)
NewDat(p) == pc[p] \in {"app_datunlock", "app_idxlock", "app_idx"}

(* No two records share a datum; the lengths in a record are those of its  *)
(* key and its datum.                                                      *)
Apart ==
  /\ \A y, z \in RecOff : Rec(y).datoff = Rec(z).datoff => y = z
  /\ \A p \in Procs : NewDat(p) => \A y \in RecOff : Rec(y).datoff # d[p].datoff
  /\ \A p, q \in Procs : NewDat(p) /\ NewDat(q) /\ d[p].datoff = d[q].datoff => p = q

Sized ==
  \A y \in RecOff : /\ Rec(y).datlen = dat[Rec(y).datoff].len
                    /\ Rec(y).key \in Keys => Rec(y).klen = KeyLen[Rec(y).key]

(* A process that has a record which is on no list.                        *)
Owns(p) == Reusing(p) \/ pc[p] \in {"app_idxunlock", "link", "del_head"}
OwnApart == \A p, q \in Procs : Owns(p) /\ Owns(q) /\ d[p].idxoff = d[q].idxoff => p = q

(* Every other record that a pointer field can hold is on a list.          *)
Kept(L) ==
  \A y \in RecOff : L[y] = -1 /\ y <= PTR_MAX => \E p \in Procs : Owns(p) /\ d[p].idxoff = y

(* Inserts overlap no other write.                                         *)
Alone ==
  /\ \A p \in Procs : pc[p] \in {"idle", "dead"} => arg[p] = NoArg
  /\ \A p, q \in Procs : p # q /\ IsWrite(arg[p]) /\ IsWrite(arg[q]) => ~MayInsert(arg[p])

(* What a process knows, by where it is.                                   *)
HitLabels == {"fetch_dat", "rep_dat", "del_lock", "del_dat", "del_free", "del_idx"}

NewLabels == {"app_datlock", "app_dat", "app_datunlock", "app_idxlock", "app_idx",
              "app_idxunlock", "link"}
FfLabels  == {"ff_head", "ff_next", "ff_unlink", "ff_unlock", "reuse_dat", "reuse_idx"}
InsLabels == NewLabels \cup FfLabels
MissLabels == InsLabels \cup {"ins_head", "rep_head", "del_head", "del_unlink", "del_unlock"}

NotOn(L, p) == \A y \in On(L, d[p].chainoff) : Rec(y).key # arg[p].key

AtHit(L, R, p) ==
  /\ L[d[p].ptroff] = d[p].chainoff
  /\ Follows(L, R, d[p].ptroff, d[p].idxoff)
  /\ Rec(d[p].idxoff).key = arg[p].key /\ d[p].idxbuf = arg[p].key
  /\ d[p].datoff = Rec(d[p].idxoff).datoff /\ d[p].datlen = Rec(d[p].idxoff).datlen
  /\ d[p].ptrval = Rec(d[p].idxoff).ptr

Free(p) ==
  /\ Rec(d[p].idxoff).key = Blank /\ Fits(arg[p], Rec(d[p].idxoff))
  /\ d[p].datoff = Rec(d[p].idxoff).datoff /\ d[p].datlen = Rec(d[p].idxoff).datlen

(* On its chain: where it is, and that the key is not on the part behind.  *)
ChainOK(L, R, p) ==
  /\ pc[p] = "find_head" => d[p].ptroff = d[p].chainoff
  /\ pc[p] = "find_next" =>
       /\ L[d[p].ptroff] = d[p].chainoff
       /\ Follows(L, R, d[p].ptroff, d[p].offset)
       /\ \A y \in On(L, d[p].chainoff) : R[y] >= R[d[p].ptroff] => Rec(y).key # arg[p].key
  /\ pc[p] \in HitLabels => AtHit(L, R, p)
  /\ pc[p] = "rep_dat" => DatLen[arg[p].val] = d[p].datlen
  /\ pc[p] = "del_idx" => d[p].saveptr = d[p].ptrval
  /\ pc[p] \in {"del_head", "del_unlink"} => L[d[p].ptroff] = d[p].chainoff
  /\ pc[p] \in MissLabels => NotOn(L, p)
  /\ pc[p] \in InsLabels => d[p].head = tbl[d[p].chainoff]

(* On the free list.                                                       *)
FreeOK(L, R, p) ==
  /\ pc[p] \in FfLabels \cup {"ins_head"} => MayInsert(arg[p])
  /\ pc[p] = "del_idx" => d[p].freeptr = tbl[0]
  /\ pc[p] = "del_head" => Rec(d[p].idxoff).ptr = tbl[0]
  /\ pc[p] = "ff_next" => L[d[p].saveoff] = 0 /\ Follows(L, R, d[p].saveoff, d[p].offset)
  /\ pc[p] = "ff_unlink" =>
       /\ L[d[p].saveoff] = 0 /\ Follows(L, R, d[p].saveoff, d[p].idxoff)
       /\ d[p].ptrval = Rec(d[p].idxoff).ptr /\ d[p].offset # 0 /\ Free(p)

(* In its own record, and in a datum that has no record yet.               *)
OwnOK(L, p) ==
  /\ Owns(p) => d[p].idxoff \in RecOff /\ L[d[p].idxoff] = -1
  /\ pc[p] = "del_head" => Rec(d[p].idxoff).key = Blank
  /\ Reusing(p) => Free(p)
  /\ pc[p] = "reuse_idx" => dat[d[p].datoff].val = arg[p].val
  /\ pc[p] \in {"app_idxunlock", "link"} =>
       /\ Rec(d[p].idxoff).key = arg[p].key /\ Rec(d[p].idxoff).ptr = d[p].head
       /\ dat[Rec(d[p].idxoff).datoff].val = arg[p].val
  /\ NewDat(p) => /\ dat[d[p].datoff].val = arg[p].val
                  /\ dat[d[p].datoff].len = d[p].datlen

Knows(L, R, p) == ChainOK(L, R, p) /\ FreeOK(L, R, p) /\ OwnOK(L, p)

(* The key of p's call is between its old and its new state.               *)
InFlux(p) ==
  \/ pc[p] \in {"del_free", "del_idx", "del_head", "del_unlink", "ins_head", "rep_head"} \cup InsLabels
  \/ pc[p] = "del_unlock" /\ arg[p].op = "store"

(* A key that is not in flux is on its chain with its datum, or not there. *)
Agrees(L) ==
  \A k \in Keys : (\A p \in Procs : InFlux(p) => arg[p].key # k) =>
    \/ map[k] = NULL /\ \A y \in On(L, ChainOff(k)) : Rec(y).key # k
    \/ map[k] # NULL /\ \E y \in On(L, ChainOff(k)) :
                          Rec(y).key = k /\ dat[Rec(y).datoff].val = map[k]

(* What the map says of the key of p's call.                               *)
Expects(p) ==
  /\ pc[p] \in {"del_free", "del_idx", "del_head", "del_unlink"} => map[arg[p].key] # NULL
  /\ pc[p] = "del_unlock" /\ arg[p].op = "delete" => map[arg[p].key] = NULL
  /\ pc[p] \in {"del_unlock", "rep_head"} /\ arg[p].op = "store" => map[arg[p].key] # NULL
  /\ pc[p] \in (DelLabels \cup {"rep_dat", "rep_head"}) /\ arg[p].op = "store"
       => "INSERT" \notin arg[p].flag
  /\ pc[p] \in InsLabels \cup {"ins_head"} =>
       /\ map[arg[p].key] # NULL => "INSERT" \notin arg[p].flag
       /\ map[arg[p].key] = NULL => "REPLACE" \notin arg[p].flag

(* What db_nextrec has read is a record with one of its data.              *)
Scans(p) ==
  /\ pc[p] \in {"idle", "next_lock", "next_idx", "next_dat"} => rc[p] = NULL
  /\ pc[p] = "next_dat" =>
       \E y \in RecOff : Rec(y).key = d[p].idxbuf /\ Rec(y).datoff = d[p].datoff /\ d[p].idxbuf \in Keys
  /\ (pc[p] = "next_unlock" /\ rc[p] # NULL) =>
       d[p].idxbuf \in Keys /\ rc[p] \in Data[d[p].idxbuf]

(* A record holds a datum of its key unless the datum has been blanked.    *)
Paired ==
  /\ \A p \in Procs : arg[p].op = "store" => arg[p].val \in Data[arg[p].key]
  /\ \A y \in RecOff :
       Rec(y).key # Blank /\ (\A p \in Procs : pc[p] \in {"del_free", "del_idx"} => d[p].idxoff # y)
         => dat[Rec(y).datoff].val \in Data[Rec(y).key]
  /\ \A p \in Procs : Scans(p)

Good(L, R) ==
  /\ Shape(L, R) /\ Linked(L, R) /\ Sorted(L) /\ Apart /\ Sized /\ OwnApart /\ Kept(L)
  /\ Alone /\ (\A p \in Procs : Knows(L, R, p)) /\ Agrees(L) /\ (\A p \in Procs : Expects(p))
  /\ Paired

-----------------------------------------------------------------------------
(***************************************************************************)
(* Steps that change neither the files nor the map.                        *)
(***************************************************************************)
Others(p) ==
  \A q \in Procs \ {p} :
    pc'[q] = pc[q] /\ arg'[q] = arg[q] /\ d'[q] = d[q] /\ rc'[q] = rc[q]

Still(p) == UNCHANGED <<tbl, idx, dat, map>> /\ Others(p)

LEMMA StillFiles ==
  ASSUME UNCHANGED <<tbl, idx, dat>>
  PROVE  /\ RecOff' = RecOff /\ PtrLoc' = PtrLoc
         /\ \A x : Rec(x)' = Rec(x)
         /\ \A x : Field(x)' = Field(x)
  BY DEF RecOff, PtrLoc, Rec, Field

LEMMA StillList ==
  ASSUME UNCHANGED <<tbl, idx, dat>>, NEW L, NEW R
  PROVE  /\ Shape(L, R)' <=> Shape(L, R)
         /\ \A x, v : Follows(L, R, x, v)' <=> Follows(L, R, x, v)
         /\ \A l : On(L, l)' = On(L, l)
         /\ Sorted(L)' <=> Sorted(L)
         /\ Sized' <=> Sized
<1>1. RecOff' = RecOff /\ PtrLoc' = PtrLoc /\ \A x : Rec(x)' = Rec(x)
  BY StillFiles
<1>2. Shape(L, R)' <=> Shape(L, R)
  BY <1>1 DEF Shape
<1>3. \A x, v : Follows(L, R, x, v)' <=> Follows(L, R, x, v)
  BY <1>1 DEF Follows
<1>4. \A l : On(L, l)' = On(L, l)
  BY <1>1 DEF On
<1>5. Sorted(L)' <=> Sorted(L)
  BY <1>1 DEF Sorted
<1>6. Sized' <=> Sized
  BY <1>1 DEF Sized
<1> QED BY <1>2, <1>3, <1>4, <1>5, <1>6

LEMMA StillKnows ==
  ASSUME UNCHANGED <<tbl, idx, dat>>, NEW L, NEW R, NEW q \in Procs, Knows(L, R, q),
         pc'[q] = pc[q], arg'[q] = arg[q], d'[q] = d[q]
  PROVE  Knows(L, R, q)'
<1>1. RecOff' = RecOff /\ tbl' = tbl /\ dat' = dat /\ \A x : Rec(x)' = Rec(x)
  BY StillFiles
<1>2. \A x, v : Follows(L, R, x, v)' <=> Follows(L, R, x, v)
  BY StillList
<1>3. \A l : On(L, l)' = On(L, l)
  BY StillList
<1>4. ChainOK(L, R, q)'
  <2>1. ChainOK(L, R, q)
    BY DEF Knows
  <2> QED BY <1>1, <1>2, <1>3, <2>1 DEF ChainOK, AtHit, NotOn
<1>5. FreeOK(L, R, q)'
  <2>1. FreeOK(L, R, q)
    BY DEF Knows
  <2> QED BY <1>1, <1>2, <2>1 DEF FreeOK, Free, MayInsert, Fits
<1>6. OwnOK(L, q)'
  <2>1. OwnOK(L, q)
    BY DEF Knows
  <2> QED BY <1>1, <2>1 DEF OwnOK, Owns, Reusing, Free, Fits, NewDat
<1> QED BY <1>4, <1>5, <1>6 DEF Knows

Calm(p) ==
  /\ pc[p] \notin {"del_head", "del_unlink"} /\ pc'[p] \notin {"del_head", "del_unlink"}
  /\ NewDat(p)' => NewDat(p) /\ d'[p].datoff = d[p].datoff
  /\ Owns(p)' <=> Owns(p)
  /\ Owns(p) => d'[p].idxoff = d[p].idxoff
  /\ InFlux(p) => InFlux(p)' /\ arg'[p].key = arg[p].key
  /\ pc[p] \in {"del_free", "del_idx"} =>
       pc'[p] \in {"del_free", "del_idx"} /\ d'[p].idxoff = d[p].idxoff
  /\ arg'[p].op = "store" => arg'[p].val \in Data[arg'[p].key]

LEMMA StillGood ==
  ASSUME NEW L, NEW R, Good(L, R), NEW p \in Procs, Still(p), Calm(p), Alone',
         Knows(L, R, p)', Expects(p)', Scans(p)'
  PROVE  Good(L, R)'
<1> USE DEF Still
<1>1. RecOff' = RecOff /\ PtrLoc' = PtrLoc /\ \A x : Rec(x)' = Rec(x) /\ Field(x)' = Field(x)
  BY StillFiles
<1>2. /\ Shape(L, R)' /\ Sorted(L)' /\ Sized'
      /\ \A x, v : Follows(L, R, x, v)' <=> Follows(L, R, x, v)
      /\ \A l : On(L, l)' = On(L, l)
  BY StillList DEF Good
<1>3. \A q \in Procs : q # p =>
        pc'[q] = pc[q] /\ arg'[q] = arg[q] /\ d'[q] = d[q] /\ rc'[q] = rc[q]
  BY DEF Others
<1>4. Linked(L, R)'
  <2>1. \A q \in Procs : \A x : CutAt(q, x)' <=> CutAt(q, x)
    BY <1>3 DEF CutAt, Calm
  <2>2. \A q \in Procs : \A x : CutAt(q, x) => d'[q].saveptr = d[q].saveptr
    BY <1>3 DEF CutAt, Calm
  <2>3. Linked(L, R)
    BY DEF Good
  <2> QED BY <1>1, <1>2, <2>1, <2>2, <2>3 DEF Linked
<1>5. Apart'
  <2>1. \A q \in Procs : NewDat(q)' => NewDat(q) /\ d'[q].datoff = d[q].datoff
    BY <1>3 DEF Calm, NewDat
  <2> QED BY <1>1, <2>1 DEF Good, Apart
<1>6. \A q \in Procs : (Owns(q)' <=> Owns(q)) /\ (Owns(q) => d'[q].idxoff = d[q].idxoff)
  <2>1. \A q \in Procs : q # p => (Owns(q)' <=> Owns(q))
    BY <1>3 DEF Owns, Reusing
  <2> QED BY <1>3, <2>1 DEF Calm
<1>7. OwnApart'
  BY <1>6 DEF Good, OwnApart
<1>8. Kept(L)'
  BY <1>1, <1>6 DEF Good, Kept
<1>9. \A q \in Procs : Knows(L, R, q)'
  BY <1>3, StillKnows DEF Good
<1>10. Agrees(L)'
  <2>1. \A q \in Procs : InFlux(q) => InFlux(q)' /\ arg'[q].key = arg[q].key
    <3>1. \A q \in Procs : q # p => (InFlux(q)' <=> InFlux(q))
      BY <1>3 DEF InFlux
    <3> QED BY <1>3, <3>1 DEF Calm
  <2>2. Agrees(L)
    BY DEF Good
  <2> QED BY <1>1, <1>2, <2>1, <2>2 DEF Agrees
<1>11. \A q \in Procs : Expects(q)'
  <2>1. \A q \in Procs : q # p => Expects(q)'
    BY <1>3 DEF Good, Expects
  <2> QED BY <2>1
<1>12. Paired'
  <2>1. \A q \in Procs : arg'[q].op = "store" => arg'[q].val \in Data[arg'[q].key]
    BY <1>3 DEF Good, Paired, Calm
  <2>2. \A q \in Procs : pc[q] \in {"del_free", "del_idx"} =>
          pc'[q] \in {"del_free", "del_idx"} /\ d'[q].idxoff = d[q].idxoff
    BY <1>3 DEF Calm
  <2>3. (\A y \in RecOff :
           Rec(y).key # Blank /\ (\A q \in Procs : pc[q] \in {"del_free", "del_idx"} => d[q].idxoff # y)
             => dat[Rec(y).datoff].val \in Data[Rec(y).key])'
    <3>1. \A y \in RecOff :
           Rec(y).key # Blank /\ (\A q \in Procs : pc[q] \in {"del_free", "del_idx"} => d[q].idxoff # y)
             => dat[Rec(y).datoff].val \in Data[Rec(y).key]
      BY DEF Good, Paired
    <3> QED BY <1>1, <2>2, <3>1
  <2>4. \A q \in Procs : q # p => Scans(q)
    BY DEF Good, Paired
  <2>5. \A q \in Procs : Scans(q)'
    <3>1. \A q \in Procs : q # p => Scans(q)'
      BY <1>1, <1>3, <2>4 DEF Scans
    <3> QED BY <3>1
  <2> QED BY <2>1, <2>3, <2>5 DEF Paired
<1> QED BY <1>2, <1>4, <1>5, <1>7, <1>8, <1>9, <1>10, <1>11, <1>12 DEF Good

(***************************************************************************)
(* What the locks and the caller's contract exclude.                       *)
(***************************************************************************)
LEMMA OnChain ==
  ASSUME TypeOK, PcInv, LockInv, NEW p \in Procs, pc[p] \in ChainLabels
  PROVE  /\ d[p].chainoff = ChainOff(arg[p].key) /\ d[p].chainoff \in 1 .. NHASH
         /\ d[p].chainoff \in PtrLoc /\ d[p].chainoff < FirstRec
         /\ arg[p].key \in Keys /\ arg[p].op \in {"fetch", "store", "delete"}
         /\ d[p] \in DbType /\ arg[p] \in ArgType
<1>1. arg[p].key \in Keys /\ arg[p].op \in {"fetch", "store", "delete"}
  BY DEF PcInv, PcOK, ChainLabels
<1>2. d[p].chainoff = ChainOff(arg[p].key)
  BY DEF LockInv, HeldOK
<1>3. ChainOff(arg[p].key) \in 1 .. NHASH
  BY <1>1, ConstAssumption DEF ChainOff, HASH_OFF
<1> QED BY <1>1, <1>2, <1>3, ConstAssumption, LenNat DEF TypeOK, PtrLoc, FirstRec

LEMMA OtherChain ==
  ASSUME TypeOK, PcInv, LockInv, NEW p \in Procs, NEW q \in Procs, p # q,
         pc[p] \in ChainLabels, pc[q] \in ChainLabels, IsWrite(arg[p]) \/ IsWrite(arg[q])
  PROVE  d[p].chainoff # d[q].chainoff
<1>1. d[p].chainoff = ChainOff(arg[p].key) /\ d[q].chainoff = ChainOff(arg[q].key)
  BY OnChain
<1>2. SectionsExclusive
  BY LocksExclude
<1> QED BY <1>1, <1>2 DEF SectionsExclusive

LEMMA OneDeleter ==
  ASSUME LockInv, NEW p \in Procs, NEW q \in Procs, p # q, pc[p] \in FreeLabels
  PROVE  pc[q] \notin FreeLabels \cup ScanHeld
  BY LocksExclude DEF SectionsExclusive

LEMMA LabelFacts ==
  /\ HitLabels \cup MissLabels \cup DelLabels \cup {"unlock", "find_head", "find_next"} \subseteq ChainLabels
  /\ StoreLabels \subseteq ChainLabels
  /\ FreeLabels \subseteq DelLabels
  BY DEF HitLabels, MissLabels, InsLabels, NewLabels, FfLabels, DelLabels, ChainLabels, KeyLabels,
     StoreLabels, ScanLabels, Labels, FreeLabels

LEMMA Writes ==
  ASSUME PcInv, NEW p \in Procs, pc[p] \in DelLabels \cup StoreLabels
  PROVE  IsWrite(arg[p])
<1>1. PcOK(p)
  BY DEF PcInv
<1> QED BY <1>1 DEF PcOK, IsWrite, DelLabels, KeyLabels, ScanLabels, Labels

(* Where no deletion has cut the list, a field leads to what follows it.   *)
LEMMA NotCut ==
  ASSUME TypeOK, PcInv, LockInv, NEW L, NEW R, Good(L, R), NEW p \in Procs, NEW x \in PtrLoc,
         L[x] = 0 \/ (/\ pc[p] \in ChainLabels /\ L[x] = d[p].chainoff
                      /\ pc[p] \notin {"del_head", "del_unlink"})
  PROVE  Follows(L, R, x, Field(x))
<1>1. ASSUME NEW q \in Procs, CutAt(q, x) PROVE FALSE
  <2>1. pc[q] \in {"del_head", "del_unlink"} /\ L[x] = d[q].chainoff
    BY <1>1 DEF Good, Knows, ChainOK, CutAt
  <2>2. pc[q] \in ChainLabels /\ IsWrite(arg[q])
    BY <2>1, LabelFacts, Writes DEF DelLabels
  <2>3. d[q].chainoff \in 1 .. NHASH
    BY <2>2, OnChain
  <2>4. L[x] # 0
    BY <2>1, <2>3
  <2>5. p # q
    BY <2>1, <2>4
  <2> QED BY <2>1, <2>2, <2>4, <2>5, OtherChain
<1>2. L[x] # -1
  BY OnChain
<1> QED BY <1>1, <1>2 DEF Good, Linked

(* The state of a key on p's chain that p does not change.                 *)
LEMMA KeyAgrees ==
  ASSUME TypeOK, PcInv, LockInv, NEW L, NEW R, Good(L, R), NEW p \in Procs,
         pc[p] \in ChainLabels, ~InFlux(p)
  PROVE  LET k == arg[p].key IN
         \/ map[k] = NULL /\ \A y \in On(L, d[p].chainoff) : Rec(y).key # k
         \/ map[k] # NULL /\ \E y \in On(L, d[p].chainoff) :
                               Rec(y).key = k /\ dat[Rec(y).datoff].val = map[k]
<1>1. arg[p].key \in Keys /\ d[p].chainoff = ChainOff(arg[p].key)
  BY OnChain
<1>2. ASSUME NEW q \in Procs, InFlux(q), arg[q].key = arg[p].key PROVE FALSE
  <2>1. pc[q] \in DelLabels \cup StoreLabels
    BY <1>2 DEF InFlux, DelLabels, StoreLabels, InsLabels, NewLabels, FfLabels
  <2>2. pc[q] \in ChainLabels /\ IsWrite(arg[q])
    BY <2>1, LabelFacts, Writes
  <2>3. d[q].chainoff = d[p].chainoff
    BY <1>1, <1>2, <2>2, OnChain
  <2> QED BY <1>2, <2>2, <2>3, OtherChain
<1> QED BY <1>1, <1>2 DEF Good, Agrees

(***************************************************************************)
(* Callers keep the contract.                                              *)
(***************************************************************************)
InCall(p) ==
  /\ Others(p)
  /\ arg'[p] = NoArg \/ (arg'[p] = arg[p] /\ pc'[p] \notin {"idle", "dead"})

LEMMA InCallStep ==
  ASSUME TypeOK, PcInv, NEW p \in Procs, Step(p) \/ Killed(p)
  PROVE  InCall(p)
<1> USE DEF InCall, Others, TypeOK, Goto, SetDb
<1>1. CASE FindNext(p)
  <2>1. arg[p].op \in {"fetch", "store", "delete"}
    BY <1>1 DEF FindNext, At, PcInv, PcOK, KeyLabels, ScanLabels, Labels
  <2> QED BY <1>1, <2>1 DEF FindNext, At, Hit, HitPc, Miss, MissPc
<1>2. CASE FindHead(p)
  BY <1>2 DEF FindHead, At, Miss, MissPc
<1>3. CASE Unlock(p) \/ NextUnlock(p)
  BY <1>3 DEF Unlock, NextUnlock
<1>4. CASE LinkFails(p) \/ NextIdxFails(p) \/ Killed(p)
  BY <1>4 DEF LinkFails, NextIdxFails, Killed, Dies
<1>5. CASE FreeHead(p) \/ FreeNext(p) \/ FreeUnlink(p) \/ FreeUnlock(p) \/ InsHead(p)
  BY <1>5 DEF FreeHead, FreeNext, FreeUnlink, FreeUnlock, InsHead, At
<1>6. CASE FindLock(p) \/ FetchDat(p) \/ ReuseDat(p) \/ ReuseIdx(p)
  BY <1>6 DEF FindLock, FetchDat, ReuseDat, ReuseIdx
<1>7. CASE AppDatLock(p) \/ AppDat(p) \/ AppDatUnlock(p) \/ AppIdxLock(p) \/ AppIdx(p) \/ AppIdxUnlock(p)
  BY <1>7 DEF AppDatLock, AppDat, AppDatUnlock, AppIdxLock, AppIdx, AppIdxUnlock
<1>8. CASE Link(p) \/ RepDat(p) \/ RepHead(p) \/ DelLock(p) \/ DelDat(p) \/ DelFree(p) \/ DelIdx(p)
  BY <1>8 DEF Link, RepDat, RepHead, DelLock, DelDat, DelFree, DelIdx
<1>9. CASE DelHead(p) \/ DelUnlink(p) \/ DelUnlock(p)
  BY <1>9 DEF DelHead, DelUnlink, DelUnlock
<1>10. CASE NextLock(p) \/ NextIdx(p) \/ NextDat(p)
  BY <1>10 DEF NextLock, NextIdx, NextDat, At
<1> QED BY <1>1, <1>2, <1>3, <1>4, <1>5, <1>6, <1>7, <1>8, <1>9, <1>10 DEF Step

LEMMA AloneCall ==
  ASSUME SerialInserts, TypeOK, Alone, NEW p \in Procs, NEW a, NEW label, Call(p, a, label),
         label \notin {"idle", "dead"}
  PROVE  Alone'
<1>1. /\ \A q \in Procs : q # p => pc'[q] = pc[q] /\ arg'[q] = arg[q]
      /\ arg'[p] = a /\ pc'[p] = label
  BY DEF Call, Goto, TypeOK
<1>2. \A q \in Procs \ {p} : IsWrite(a) /\ IsWrite(arg[q]) => ~MayInsert(a) /\ ~MayInsert(arg[q])
  BY DEF Call, Permitted
<1>3. \A q \in Procs : pc'[q] \in {"idle", "dead"} => arg'[q] = NoArg
  BY <1>1 DEF Alone
<1>4. ASSUME NEW q \in Procs, NEW r \in Procs, q # r, IsWrite(arg'[q]), IsWrite(arg'[r])
      PROVE  ~MayInsert(arg'[q])
  BY <1>1, <1>2, <1>4 DEF Alone
<1> QED BY <1>3, <1>4 DEF Alone, IsWrite, MayInsert

LEMMA AloneStep ==
  ASSUME SerialInserts, TypeOK, PcInv, Alone, [Next]_vars
  PROVE  Alone'
<1>1. ASSUME NEW p \in Procs, Step(p) \/ Killed(p) PROVE Alone'
  <2>1. InCall(p)
    BY <1>1, InCallStep
  <2>2. ~IsWrite(NoArg)
    BY DEF IsWrite, NoArg
  <2>3. \A q \in Procs : q # p => pc'[q] = pc[q] /\ arg'[q] = arg[q]
    BY <2>1 DEF InCall, Others
  <2>4. arg'[p] = NoArg \/ (arg'[p] = arg[p] /\ pc'[p] \notin {"idle", "dead"})
    BY <2>1 DEF InCall
  <2> QED BY <2>2, <2>3, <2>4 DEF Alone, IsWrite, MayInsert
<1>2. ASSUME NEW p \in Procs, Calls(p) PROVE Alone'
  <2>1. CASE db_rewind(p)
    BY <2>1 DEF db_rewind, Alone
  <2>2. ASSUME NEW a, NEW label \in {"find_lock", "next_lock"}, Call(p, a, label) PROVE Alone'
    BY <2>2, AloneCall
  <2> QED BY <1>2, <2>1, <2>2 DEF Calls, db_fetch, db_delete, db_store, db_nextrec
<1>3. CASE UNCHANGED vars
  BY <1>3 DEF vars, Alone
<1> QED BY <1>1, <1>2, <1>3 DEF Next, Done

(***************************************************************************)
(* The steps that only read, one lemma per action.                         *)
(***************************************************************************)

(* A record that follows x is on the list of x.                            *)
LEMMA FollowsOn ==
  ASSUME NEW L, NEW R, NEW x, NEW v, Follows(L, R, x, v), v # 0
  PROVE  v \in RecOff /\ L[v] = L[x] /\ v \in On(L, L[x]) /\ R[v] < R[x]
  BY DEF Follows, On

LEMMA Ranked ==
  ASSUME TypeOK, NEW L, NEW R, Shape(L, R), NEW l \in 0 .. NHASH, NEW y \in On(L, l)
  PROVE  /\ y \in RecOff /\ y \in Nat /\ y # 0 /\ y > NHASH /\ y <= PTR_MAX /\ y \in PtrLoc
         /\ L[y] = l /\ R[y] \in Nat /\ R[l] \in Nat /\ R[y] < R[l]
<1>1. y \in RecOff /\ L[y] = l
  BY DEF On
<1>2. y \in Nat /\ y # 0 /\ y > NHASH /\ y \in PtrLoc /\ l \in Nat /\ l # -1
  BY <1>1, ConstAssumption, LenNat DEF RecOff, PtrLoc, FirstRec
<1>3. y <= PTR_MAX /\ R[y] < R[L[y]]
  BY <1>1, <1>2 DEF Shape
<1>4. R[y] \in Nat /\ R[l] \in Nat
  BY <1>2 DEF Shape
<1> QED BY <1>1, <1>2, <1>3, <1>4

LEMMA RankedApart ==
  ASSUME TypeOK, NEW L, NEW R, Shape(L, R), NEW l \in 0 .. NHASH,
         NEW y \in On(L, l), NEW z \in On(L, l), R[y] = R[z]
  PROVE  y = z
<1>1. y \in RecOff /\ z \in RecOff /\ L[y] = l /\ L[z] = l /\ l # -1
  BY ConstAssumption DEF On
<1> QED BY <1>1 DEF Shape

LEMMA FindLockGood ==
  ASSUME TypeOK, PcInv, LockInv, NEW L, NEW R, Good(L, R), Alone', NEW p \in Procs, FindLock(p)
  PROVE  Good(L, R)'
<1>1. pc[p] = "find_lock" /\ pc'[p] = "find_head" /\ arg' = arg /\ Still(p) /\ d[p] \in DbType
  BY DEF FindLock, At, Goto, SetDb, TypeOK, Still, Others, files
<1>2. d'[p] = [d[p] EXCEPT !.chainoff = ChainOff(arg[p].key), !.ptroff = ChainOff(arg[p].key)]
  BY DEF FindLock, SetDb, TypeOK
<1>3. d'[p].ptroff = d'[p].chainoff
  BY <1>1, <1>2 DEF DbType
<1>4. Calm(p)
  BY <1>1 DEF Calm, NewDat, Owns, Reusing, InFlux, InsLabels, NewLabels, FfLabels, Good, Paired
<1>5. Knows(L, R, p)'
  BY <1>1, <1>3 DEF Knows, ChainOK, FreeOK, OwnOK, Owns, Reusing, NewDat, HitLabels, MissLabels,
     InsLabels, NewLabels, FfLabels
<1>6. Expects(p)' /\ Scans(p)'
  BY <1>1 DEF Expects, Scans, DelLabels, InsLabels, NewLabels, FfLabels
<1> QED BY <1>1, <1>4, <1>5, <1>6, StillGood

LEMMA RecField ==
  ASSUME TypeOK, NEW o \in RecOff
  PROVE  Field(o) = Rec(o).ptr /\ o \in PtrLoc /\ o # 0
<1>1. ~(o < FirstRec) /\ o \in PtrLoc /\ o # 0
  BY ConstAssumption, LenNat DEF RecOff, FirstRec, PtrLoc
<1> QED BY <1>1 DEF Field

(* Where _db_find stands on its chain.                                     *)
LEMMA NextFacts ==
  ASSUME TypeOK, PcInv, LockInv, NEW L, NEW R, Good(L, R), NEW p \in Procs, pc[p] = "find_next",
         NEW c, c = d[p].chainoff, NEW o, o = d[p].offset
  PROVE  /\ pc[p] \in ChainLabels /\ ~InFlux(p)
         /\ c \in 1 .. NHASH /\ d[p] \in DbType /\ arg[p].key \in Keys /\ c = ChainOff(arg[p].key)
         /\ arg[p].op \in {"fetch", "store", "delete"}
         /\ L[d[p].ptroff] = c /\ Follows(L, R, d[p].ptroff, o)
         /\ o \in On(L, c) /\ o \in RecOff /\ L[o] = c
         /\ Follows(L, R, o, Rec(o).ptr)
         /\ Rec(o).key # arg[p].key => \A y \in On(L, c) : R[y] >= R[o] => Rec(y).key # arg[p].key
<1>1. L[d[p].ptroff] = c /\ Follows(L, R, d[p].ptroff, o)
      /\ \A y \in On(L, c) : R[y] >= R[d[p].ptroff] => Rec(y).key # arg[p].key
  BY DEF Good, Knows, ChainOK
<1>2. pc[p] \in ChainLabels /\ ~InFlux(p)
  BY LabelFacts DEF InFlux, InsLabels, NewLabels, FfLabels
<1>3. c \in 1 .. NHASH /\ d[p] \in DbType /\ arg[p].key \in Keys /\ c = ChainOff(arg[p].key)
      /\ arg[p].op \in {"fetch", "store", "delete"} /\ d[p].ptroff \in PtrLoc
  BY <1>2, OnChain DEF DbType
<1>4. o # 0
  BY DEF PcInv, PcOK
<1>5. o \in On(L, c) /\ o \in RecOff /\ L[o] = c /\ R[o] < R[d[p].ptroff]
  BY <1>1, <1>4, FollowsOn
<1>6. Follows(L, R, o, Rec(o).ptr)
  <2>1. Field(o) = Rec(o).ptr /\ o \in PtrLoc
    BY <1>5, RecField
  <2> QED BY <1>2, <1>5, <2>1, NotCut
<1>7. \A y \in On(L, c) : R[y] \in Nat
  BY <1>3, Ranked DEF Good
<1>8. R[d[p].ptroff] \in Nat
  <2>1. d[p].ptroff \in Nat
    BY <1>3, ConstAssumption, LenNat DEF PtrLoc
  <2> QED BY <2>1 DEF Good, Shape
<1>9. ASSUME Rec(o).key # arg[p].key, NEW y \in On(L, c), R[y] >= R[o] PROVE Rec(y).key # arg[p].key
  <2>1. CASE R[y] >= R[d[p].ptroff]
    BY <2>1, <1>1
  <2>2. CASE ~(R[y] >= R[d[p].ptroff])
    <3>1. R[y] < R[d[p].ptroff]
      BY <2>2, <1>7, <1>8
    <3>2. R[y] <= R[o]
      BY <3>1, <1>1, <1>4 DEF Follows, On
    <3>3. R[y] = R[o]
      BY <3>2, <1>5, <1>7, <1>9
    <3>4. y = o
      BY <3>3, <1>3, <1>5, RankedApart DEF Good
    <3> QED BY <3>4, <1>9
  <2> QED BY <2>1, <2>2
<1> QED BY <1>1, <1>2, <1>3, <1>5, <1>6, <1>9

(* The chain is empty, or it ends here: the key has no datum.              *)
LEMMA HeadMisses ==
  ASSUME TypeOK, PcInv, LockInv, NEW L, NEW R, Good(L, R), NEW p \in Procs, pc[p] = "find_head",
         Field(d[p].ptroff) = 0
  PROVE  On(L, d[p].chainoff) = {} /\ map[arg[p].key] = NULL
<1>1. PICK c : c = d[p].chainoff
  OBVIOUS
<1>2. pc[p] \in ChainLabels /\ ~InFlux(p)
  BY LabelFacts DEF InFlux, InsLabels, NewLabels, FfLabels
<1>3. c \in 1 .. NHASH /\ c \in PtrLoc /\ d[p].ptroff = c
  BY <1>1, <1>2, OnChain DEF Good, Knows, ChainOK
<1>4. L[c] = c
  BY <1>3 DEF Good, Shape
<1>5. Follows(L, R, c, 0)
  BY <1>1, <1>2, <1>3, <1>4, NotCut
<1>6. \A y \in On(L, c) : R[y] < R[c] /\ R[y] \in Nat /\ R[c] \in Nat
  BY <1>3, Ranked DEF Good
<1>7. On(L, c) = {}
  BY <1>4, <1>5, <1>6, OffsetFacts DEF Follows, On
<1> QED BY <1>1, <1>2, <1>7, KeyAgrees

LEMMA NextMisses ==
  ASSUME TypeOK, PcInv, LockInv, NEW L, NEW R, Good(L, R), NEW p \in Procs, pc[p] = "find_next",
         Rec(d[p].offset).key # arg[p].key, Rec(d[p].offset).ptr = 0
  PROVE  NotOn(L, p) /\ map[arg[p].key] = NULL
<1>1. PICK c, o : c = d[p].chainoff /\ o = d[p].offset
  OBVIOUS
<1>2. /\ pc[p] \in ChainLabels /\ ~InFlux(p)
      /\ L[o] = c /\ Follows(L, R, o, 0)
      /\ \A y \in On(L, c) : R[y] >= R[o] => Rec(y).key # arg[p].key
  BY <1>1, NextFacts
<1>3. \A y \in On(L, c) : R[y] >= R[o]
  BY <1>2, OffsetFacts DEF Follows, On
<1>4. NotOn(L, p)
  BY <1>1, <1>2, <1>3 DEF NotOn
<1> QED BY <1>2, <1>4, KeyAgrees DEF NotOn

LEMMA FindHeadGood ==
  ASSUME TypeOK, PcInv, LockInv, NEW L, NEW R, Good(L, R), Alone', NEW p \in Procs, FindHead(p)
  PROVE  Good(L, R)'
<1> DEFINE c == d[p].chainoff
           o == Field(d[p].ptroff)
<1>1. pc[p] = "find_head" /\ arg' = arg /\ Still(p)
  BY DEF FindHead, At, Goto, SetDb, TypeOK, Still, Others, files, Miss
<1>2. d[p].ptroff = c
  BY <1>1 DEF Good, Knows, ChainOK
<1>3. pc[p] \in ChainLabels
  BY <1>1, LabelFacts
<1>4. c \in 1 .. NHASH /\ c \in PtrLoc /\ d[p] \in DbType /\ arg[p].key \in Keys /\ c = ChainOff(arg[p].key)
  BY <1>3, OnChain
<1>5. L[c] = c
  BY <1>4 DEF Good, Shape
<1>6. Follows(L, R, c, o)
  BY <1>1, <1>2, <1>3, <1>4, <1>5, NotCut
<1>7. \A y \in On(L, c) : R[y] < R[c] /\ R[y] \in Nat /\ R[c] \in Nat
  BY <1>4, Ranked DEF Good
<1>8. d'[p] = [d[p] EXCEPT !.offset = o]
  BY DEF FindHead, SetDb, TypeOK
<1>9. /\ d'[p].chainoff = c /\ d'[p].ptroff = c /\ d'[p].offset = o
  BY <1>2, <1>4, <1>8 DEF DbType
<1>10. \/ o = 0 /\ pc'[p] = MissPc(arg[p])
       \/ o # 0 /\ pc'[p] = "find_next"
  BY DEF FindHead, Miss, Goto, TypeOK
<1>11. /\ \A x, v : Follows(L, R, x, v)' <=> Follows(L, R, x, v)
       /\ \A l : On(L, l)' = On(L, l)
       /\ \A x : Rec(x)' = Rec(x)
  BY <1>1, StillList, StillFiles DEF Still
<1>12. Calm(p)
  BY <1>1, <1>10 DEF Calm, NewDat, Owns, Reusing, InFlux, InsLabels, NewLabels, FfLabels, Good, Paired,
     MissPc
<1>13. CASE o # 0
  <2>1. pc'[p] = "find_next"
    BY <1>10, <1>13
  <2>2. ChainOK(L, R, p)'
    BY <2>1, <1>5, <1>6, <1>7, <1>9, <1>11 DEF ChainOK, HitLabels, MissLabels, InsLabels, NewLabels, FfLabels
  <2>3. Knows(L, R, p)'
    BY <2>1, <2>2 DEF Knows, FreeOK, OwnOK, Owns, Reusing, NewDat, FfLabels
  <2>4. Expects(p)' /\ Scans(p)'
    BY <2>1 DEF Expects, Scans, DelLabels, InsLabels, NewLabels, FfLabels
  <2> QED BY <1>1, <1>12, <2>3, <2>4, StillGood
<1>14. CASE o = 0
  <2>1. On(L, c) = {} /\ map[arg[p].key] = NULL
    BY <1>1, <1>14, HeadMisses
  <2>2. pc'[p] = MissPc(arg[p])
    BY <1>10, <1>14
  <2>3. pc'[p] \in {"ins_head", "unlock"} /\ (pc'[p] = "ins_head" => MayInsert(arg[p]))
    BY <2>2 DEF MissPc
  <2>4. NotOn(L, p)'
    BY <2>1, <1>9, <1>11 DEF NotOn
  <2>5. Knows(L, R, p)'
    BY <2>3, <2>4, <1>1 DEF Knows, ChainOK, FreeOK, OwnOK, Owns, Reusing, NewDat, HitLabels, MissLabels,
       InsLabels, NewLabels, FfLabels, MayInsert
  <2>7. map' = map /\ arg' = arg
    BY <1>1 DEF Still
  <2>8. Expects(p)' /\ Scans(p)'
    BY <2>3, <2>1, <2>7 DEF Expects, Scans, DelLabels, InsLabels, NewLabels, FfLabels, MayInsert
  <2> QED BY <1>1, <1>12, <2>5, <2>8, StillGood
<1> QED BY <1>13, <1>14

LEMMA ReadidxFields ==
  ASSUME TypeOK, NEW p \in Procs, NEW o \in RecOff
  PROVE  LET r == AfterReadidx(p, o) IN
         /\ r \in DbType
         /\ r.idxoff = o /\ r.idxbuf = Rec(o).key /\ r.ptrval = Rec(o).ptr
         /\ r.datoff = Rec(o).datoff /\ r.datlen = Rec(o).datlen
         /\ r.offset = d[p].offset /\ r.chainoff = d[p].chainoff /\ r.ptroff = d[p].ptroff
         /\ r.saveoff = d[p].saveoff /\ r.head = d[p].head
<1>1. d[p] \in DbType
  BY DEF TypeOK
<1>2. AfterReadidx(p, o) \in DbType
  BY ReadidxTyped
<1> QED BY <1>1, <1>2 DEF AfterReadidx, DbType

LEMMA FindNextGood ==
  ASSUME TypeOK, PcInv, LockInv, NEW L, NEW R, Good(L, R), Alone', NEW p \in Procs, FindNext(p)
  PROVE  Good(L, R)'
<1> DEFINE c == d[p].chainoff
           o == d[p].offset
           n == Rec(o).ptr
           r == AfterReadidx(p, o)
<1>1. pc[p] = "find_next" /\ arg' = arg /\ Still(p) /\ map' = map
  BY DEF FindNext, At, Goto, SetDb, TypeOK, Still, Others, files, Miss, Hit
<1>2. /\ pc[p] \in ChainLabels /\ d[p] \in DbType
      /\ arg[p].op \in {"fetch", "store", "delete"}
      /\ L[d[p].ptroff] = c /\ Follows(L, R, d[p].ptroff, o)
      /\ o \in On(L, c) /\ o \in RecOff /\ L[o] = c
      /\ Follows(L, R, o, n)
      /\ Rec(o).key # arg[p].key => \A y \in On(L, c) : R[y] >= R[o] => Rec(y).key # arg[p].key
  BY <1>1, NextFacts
<1>11. /\ \A x, v : Follows(L, R, x, v)' <=> Follows(L, R, x, v)
       /\ \A l : On(L, l)' = On(L, l)
       /\ \A x : Rec(x)' = Rec(x)
  BY <1>1, StillList, StillFiles DEF Still
<1>12. /\ r \in DbType
       /\ r.idxoff = o /\ r.idxbuf = Rec(o).key /\ r.ptrval = n
       /\ r.datoff = Rec(o).datoff /\ r.datlen = Rec(o).datlen
       /\ r.chainoff = c /\ r.ptroff = d[p].ptroff
  BY <1>2, ReadidxFields
<1> HIDE DEF r
<1>13. CASE Rec(o).key = arg[p].key
  <2>1. d'[p] = r /\ pc'[p] = HitPc(arg[p], Rec(o).datlen)
    BY <1>13 DEF FindNext, SetDb, Goto, Hit, TypeOK, r
  <2>2. /\ pc'[p] \in {"fetch_dat", "del_lock", "rep_dat", "unlock"}
        /\ pc'[p] \in {"del_lock", "rep_dat"} /\ arg[p].op = "store" => "INSERT" \notin arg[p].flag
        /\ pc'[p] = "rep_dat" => DatLen[arg[p].val] = d'[p].datlen
    BY <2>1, <1>2, <1>12 DEF HitPc
  <2>3. AtHit(L, R, p)'
    BY <2>1, <1>1, <1>2, <1>11, <1>12, <1>13 DEF AtHit
  <2>4. Knows(L, R, p)'
    BY <1>1, <2>2, <2>3 DEF Knows, ChainOK, FreeOK, OwnOK, Owns, Reusing, NewDat, HitLabels, MissLabels,
       InsLabels, NewLabels, FfLabels
  <2>5. Expects(p)' /\ Scans(p)'
    BY <1>1, <2>2 DEF Expects, Scans, DelLabels, InsLabels, NewLabels, FfLabels
  <2>6. Calm(p)
    BY <1>1, <2>2 DEF Calm, NewDat, Owns, Reusing, InFlux, InsLabels, NewLabels, FfLabels, Good, Paired
  <2> QED BY <1>1, <2>4, <2>5, <2>6, StillGood
<1>14. CASE Rec(o).key # arg[p].key
  <2>1. d'[p] = [r EXCEPT !.ptroff = o, !.offset = n]
    BY <1>14 DEF FindNext, SetDb, TypeOK, r
  <2>2. d'[p].ptroff = o /\ d'[p].offset = n /\ d'[p].chainoff = c
    BY <2>1, <1>12 DEF DbType
  <2>3. \A y \in On(L, c) : R[y] >= R[o] => Rec(y).key # arg[p].key
    BY <1>2, <1>14
  <2>4. CASE n # 0
    <3>1. pc'[p] = "find_next"
      BY <1>14, <2>4, <1>1 DEF FindNext
    <3>2. ChainOK(L, R, p)'
      BY <3>1, <1>1, <1>2, <1>11, <2>2, <2>3
      DEF ChainOK, HitLabels, MissLabels, InsLabels, NewLabels, FfLabels
    <3>3. Knows(L, R, p)'
      BY <3>1, <3>2 DEF Knows, FreeOK, OwnOK, Owns, Reusing, NewDat, FfLabels
    <3>4. Expects(p)' /\ Scans(p)'
      BY <3>1 DEF Expects, Scans, DelLabels, InsLabels, NewLabels, FfLabels
    <3>5. Calm(p)
      BY <1>1, <3>1 DEF Calm, NewDat, Owns, Reusing, InFlux, InsLabels, NewLabels, FfLabels, Good, Paired
    <3> QED BY <1>1, <3>3, <3>4, <3>5, StillGood
  <2>5. CASE n = 0
    <3>1. NotOn(L, p) /\ map[arg[p].key] = NULL
      BY <1>1, <1>14, <2>5, NextMisses
    <3>2. pc'[p] = MissPc(arg[p])
      BY <1>14, <2>5 DEF FindNext, Miss, Goto, TypeOK
    <3>3. pc'[p] \in {"ins_head", "unlock"} /\ (pc'[p] = "ins_head" => MayInsert(arg[p]))
      BY <3>2 DEF MissPc
    <3>4. NotOn(L, p)'
      BY <3>1, <2>2, <1>1, <1>11 DEF NotOn
    <3>5. Knows(L, R, p)'
      BY <3>3, <3>4, <1>1 DEF Knows, ChainOK, FreeOK, OwnOK, Owns, Reusing, NewDat, HitLabels, MissLabels,
         InsLabels, NewLabels, FfLabels, MayInsert
    <3>7. Expects(p)' /\ Scans(p)'
      BY <3>3, <3>1, <1>1 DEF Expects, Scans, DelLabels, InsLabels, NewLabels, FfLabels, MayInsert
    <3>8. Calm(p)
      BY <1>1, <3>3 DEF Calm, NewDat, Owns, Reusing, InFlux, InsLabels, NewLabels, FfLabels, Good, Paired
    <3> QED BY <1>1, <3>5, <3>7, <3>8, StillGood
  <2> QED BY <2>4, <2>5
<1> QED BY <1>13, <1>14

(* Locks, unlocks and reads that leave the DB structure as it is.          *)
Moves(p) ==
  \/ pc[p] = "fetch_dat" /\ pc'[p] = "unlock"
  \/ pc[p] = "ff_unlock" /\ d[p].offset = 0 /\ pc'[p] = "app_datlock"
  \/ pc[p] = "ff_unlock" /\ d[p].offset # 0 /\ pc'[p] = "reuse_dat"
  \/ pc[p] = "app_datlock" /\ pc'[p] = "app_dat"
  \/ pc[p] = "app_datunlock" /\ pc'[p] = "app_idxlock"
  \/ pc[p] = "app_idxlock" /\ pc'[p] = "app_idx"
  \/ pc[p] = "app_idxunlock" /\ pc'[p] = "link"
  \/ pc[p] = "del_lock" /\ pc'[p] = "del_dat"
  \/ pc[p] = "del_unlock" /\ arg[p].op = "delete" /\ pc'[p] = "unlock"
  \/ pc[p] = "del_unlock" /\ arg[p].op = "store" /\ pc'[p] = "rep_head"
  \/ pc[p] = "next_lock" /\ pc'[p] = "next_idx"

LEMMA MovesGood ==
  ASSUME TypeOK, NEW L, NEW R, Good(L, R), Alone', NEW p \in Procs, Moves(p), Still(p),
         arg' = arg, d' = d, pc[p] = "next_lock" => rc' = rc
  PROVE  Good(L, R)'
<1>1. /\ \A x, v : Follows(L, R, x, v)' <=> Follows(L, R, x, v)
      /\ \A l : On(L, l)' = On(L, l)
      /\ \A x : Rec(x)' = Rec(x)
      /\ RecOff' = RecOff /\ tbl' = tbl /\ dat' = dat /\ map' = map
  BY StillList, StillFiles DEF Still
<1>2. ChainOK(L, R, p) /\ FreeOK(L, R, p) /\ OwnOK(L, p) /\ Expects(p)
  BY DEF Good, Knows
<1>3. ChainOK(L, R, p)'
  BY <1>1, <1>2 DEF Moves, ChainOK, AtHit, NotOn, HitLabels, MissLabels, InsLabels, NewLabels, FfLabels
<1>4. FreeOK(L, R, p)'
  BY <1>1, <1>2 DEF Moves, FreeOK, MayInsert, FfLabels
<1>5. OwnOK(L, p)'
  BY <1>1, <1>2 DEF Moves, OwnOK, Owns, Reusing, Free, Fits, NewDat
<1>6. Expects(p)'
  BY <1>1, <1>2 DEF Moves, Expects, DelLabels, InsLabels, NewLabels, FfLabels
<1>7. Scans(p)'
  BY DEF Moves, Scans, Good, Paired
<1>8. Calm(p)
  BY DEF Moves, Calm, NewDat, Owns, Reusing, InFlux, InsLabels, NewLabels, FfLabels, Good, Paired
<1> QED BY <1>3, <1>4, <1>5, <1>6, <1>7, <1>8, StillGood DEF Knows

LEMMA LockStepsGood ==
  ASSUME TypeOK, PcInv, NEW L, NEW R, Good(L, R), Alone', NEW p \in Procs,
         \/ FetchDat(p) \/ FreeUnlock(p) \/ AppDatLock(p) \/ AppDatUnlock(p) \/ AppIdxLock(p)
         \/ AppIdxUnlock(p) \/ DelLock(p) \/ DelUnlock(p) \/ NextLock(p)
  PROVE  Good(L, R)'
<1>1. arg' = arg /\ d' = d /\ Still(p) /\ (pc[p] = "next_lock" => rc' = rc)
  BY DEF At, FetchDat, FreeUnlock, AppDatLock, AppDatUnlock, AppIdxLock, AppIdxUnlock, DelLock, DelUnlock,
     NextLock, Still, Others, files, Goto, TypeOK
<1>2. pc[p] = "del_unlock" => arg[p].op \in {"delete", "store"}
  BY DEF PcInv, PcOK, KeyLabels, DelLabels, ScanLabels, Labels
<1>3. Moves(p)
  BY <1>2 DEF FetchDat, FreeUnlock, AppDatLock, AppDatUnlock, AppIdxLock, AppIdxUnlock, DelLock, DelUnlock,
     NextLock, Moves, At, Goto, TypeOK
<1> QED BY <1>1, <1>3, MovesGood

(* The ends of calls, and the calls.                                       *)
LEMMA OutsideGood ==
  ASSUME TypeOK, NEW L, NEW R, Good(L, R), Alone', NEW p \in Procs, Still(p),
         pc[p] \in {"unlock", "next_unlock", "next_idx", "idle"}, pc'[p] \in {"idle", "dead", "find_lock", "next_lock"},
         arg'[p].op = "store" => arg'[p].val \in Data[arg'[p].key],
         rc'[p] = NULL
  PROVE  Good(L, R)'
<1>1. Knows(L, R, p)'
  BY DEF Knows, ChainOK, FreeOK, OwnOK, Owns, Reusing, NewDat, HitLabels, MissLabels,
     InsLabels, NewLabels, FfLabels
<1>2. Expects(p)' /\ Scans(p)'
  BY DEF Expects, Scans, DelLabels, InsLabels, NewLabels, FfLabels
<1>3. Calm(p)
  BY DEF Calm, NewDat, Owns, Reusing, InFlux, InsLabels, NewLabels, FfLabels
<1> QED BY <1>1, <1>2, <1>3, StillGood

LEMMA ReturnGood ==
  ASSUME TypeOK, NEW L, NEW R, Good(L, R), Alone', NEW p \in Procs,
         Unlock(p) \/ NextUnlock(p) \/ NextIdxFails(p)
  PROVE  Good(L, R)'
<1>1. /\ Still(p) /\ pc[p] \in {"unlock", "next_unlock", "next_idx"} /\ pc'[p] \in {"idle", "dead"}
      /\ arg'[p] = NoArg /\ rc'[p] = NULL
  BY DEF Unlock, NextUnlock, NextIdxFails, Dies, At, Goto, SetDb, TypeOK, Still, Others, files
<1>2. arg'[p].op # "store"
  BY <1>1 DEF NoArg
<1> QED BY <1>1, <1>2, OutsideGood

LEMMA CallsGood ==
  ASSUME TypeOK, NEW L, NEW R, Good(L, R), Alone', NEW p \in Procs, Calls(p)
  PROVE  Good(L, R)'
<1>1. ASSUME NEW a, NEW label \in {"find_lock", "next_lock"}, Call(p, a, label),
             a.op = "store" => a.val \in Data[a.key]
      PROVE  Good(L, R)'
  <2>1. Still(p) /\ pc[p] = "idle" /\ pc'[p] = label /\ arg'[p] = a /\ rc' = rc
    BY <1>1 DEF Call, At, Goto, TypeOK, Still, Others, files
  <2>2. rc[p] = NULL
    BY <2>1 DEF Good, Paired, Scans
  <2> QED BY <1>1, <2>1, <2>2, OutsideGood
<1>2. CASE db_rewind(p)
  <2>1. Still(p) /\ pc[p] = "idle" /\ pc' = pc /\ arg' = arg /\ rc' = rc
    BY <1>2 DEF db_rewind, At, Still, Others, files
  <2>2. pc'[p] = "idle" /\ (arg'[p].op = "store" => arg'[p].val \in Data[arg'[p].key]) /\ rc'[p] = NULL
    BY <2>1 DEF Good, Paired, Scans
  <2> QED BY <2>1, <2>2, OutsideGood
<1>3. ASSUME NEW k \in Keys, db_fetch(p, k) \/ db_delete(p, k) PROVE Good(L, R)'
  BY <1>1, <1>3 DEF db_fetch, db_delete
<1>4. ASSUME NEW k \in Keys, NEW f \in Flags[p], NEW v \in Data[k], db_store(p, k, v, f)
      PROVE  Good(L, R)'
  BY <1>1, <1>4 DEF db_store
<1>5. CASE db_nextrec(p)
  BY <1>1, <1>5 DEF db_nextrec
<1> QED BY <1>2, <1>3, <1>4, <1>5 DEF Calls

(* The reads of the head of the chain before an insert.                    *)
LEMMA HeadGood ==
  ASSUME TypeOK, PcInv, LockInv, NEW L, NEW R, Good(L, R), Alone', NEW p \in Procs,
         InsHead(p) \/ RepHead(p)
  PROVE  Good(L, R)'
<1>1. /\ Still(p) /\ arg' = arg
      /\ \/ pc[p] = "ins_head" /\ pc'[p] = "ff_head"
         \/ pc[p] = "rep_head" /\ pc'[p] = "app_datlock"
      /\ d'[p] = [d[p] EXCEPT !.head = Field(d[p].chainoff)]
  BY DEF InsHead, RepHead, At, Goto, SetDb, TypeOK, Still, Others, files
<1>2. pc[p] \in ChainLabels
  BY <1>1, LabelFacts DEF MissLabels
<1>3. d[p] \in DbType /\ Field(d[p].chainoff) = tbl[d[p].chainoff]
  BY <1>2, OnChain DEF Field
<1>4. d'[p].chainoff = d[p].chainoff /\ d'[p].head = tbl[d[p].chainoff]
  BY <1>1, <1>3 DEF DbType
<1>5. /\ \A l : On(L, l)' = On(L, l)
      /\ \A x : Rec(x)' = Rec(x)
      /\ tbl' = tbl /\ map' = map
  BY <1>1, StillList, StillFiles DEF Still
<1>6. NotOn(L, p)'
  <2>1. NotOn(L, p)
    BY <1>1 DEF Good, Knows, ChainOK, MissLabels
  <2> QED BY <1>1, <1>4, <1>5, <2>1 DEF NotOn
<1>7. pc[p] = "ins_head" => MayInsert(arg[p])
  BY DEF Good, Knows, FreeOK
<1>8. Knows(L, R, p)'
  BY <1>1, <1>4, <1>5, <1>6, <1>7 DEF Knows, ChainOK, FreeOK, OwnOK, Owns, Reusing, NewDat, HitLabels,
     InsLabels, NewLabels, FfLabels, MayInsert
<1>9. arg[p].op = "store"
  BY <1>1 DEF PcInv, PcOK, StoreLabels
<1>10. Expects(p)'
  <2>1. Expects(p)
    BY DEF Good
  <2> QED BY <1>1, <1>5, <1>9, <2>1 DEF Expects, DelLabels, InsLabels, NewLabels, FfLabels
<1>11. Scans(p)'
  BY <1>1 DEF Scans
<1>12. Calm(p)
  BY <1>1 DEF Calm, NewDat, Owns, Reusing, InFlux, InsLabels, NewLabels, FfLabels, Good, Paired
<1> QED BY <1>1, <1>8, <1>10, <1>11, <1>12, StillGood

LEMMA FreeHeadGood ==
  ASSUME TypeOK, PcInv, LockInv, NEW L, NEW R, Good(L, R), Alone', NEW p \in Procs, FreeHead(p)
  PROVE  Good(L, R)'
<1> DEFINE o == Field(0)
<1>1. /\ Still(p) /\ arg' = arg
      /\ pc[p] = "ff_head" /\ pc'[p] = IF o = 0 THEN "ff_unlock" ELSE "ff_next"
      /\ d'[p] = [d[p] EXCEPT !.saveoff = 0, !.offset = o]
  BY DEF FreeHead, At, Goto, SetDb, TypeOK, Still, Others, files, FREE_OFF
<1>2. d[p] \in DbType
  BY DEF TypeOK
<1>3. /\ d'[p].chainoff = d[p].chainoff /\ d'[p].head = d[p].head
      /\ d'[p].saveoff = 0 /\ d'[p].offset = o
  BY <1>1, <1>2 DEF DbType
<1>4. /\ \A x, v : Follows(L, R, x, v)' <=> Follows(L, R, x, v)
      /\ \A l : On(L, l)' = On(L, l)
      /\ \A x : Rec(x)' = Rec(x)
      /\ tbl' = tbl /\ map' = map
  BY <1>1, StillList, StillFiles DEF Still
<1>5. L[0] = 0 /\ 0 \in PtrLoc
  BY ConstAssumption, OffsetFacts DEF Good, Shape
<1>6. Follows(L, R, 0, o)
  BY <1>5, NotCut
<1>7. ChainOK(L, R, p)'
  <2>1. NotOn(L, p) /\ d[p].head = tbl[d[p].chainoff]
    BY <1>1 DEF Good, Knows, ChainOK, MissLabels, InsLabels, FfLabels
  <2>2. NotOn(L, p)'
    BY <1>1, <1>3, <1>4, <2>1 DEF NotOn
  <2> QED BY <1>1, <1>3, <1>4, <2>1, <2>2 DEF ChainOK, HitLabels
<1>8. FreeOK(L, R, p)'
  <2>1. MayInsert(arg[p])
    BY <1>1 DEF Good, Knows, FreeOK, FfLabels
  <2> QED BY <1>1, <1>3, <1>4, <1>5, <1>6, <2>1 DEF FreeOK, MayInsert
<1>9. OwnOK(L, p)'
  BY <1>1, <1>3 DEF OwnOK, Owns, Reusing, NewDat
<1>10. Expects(p)'
  <2>1. Expects(p)
    BY DEF Good
  <2> QED BY <1>1, <1>4, <2>1 DEF Expects, DelLabels, InsLabels, NewLabels, FfLabels
<1>11. Scans(p)'
  BY <1>1 DEF Scans
<1>12. Calm(p)
  BY <1>1, <1>3 DEF Calm, NewDat, Owns, Reusing, InFlux, InsLabels, NewLabels, FfLabels, Good, Paired
<1> QED BY <1>1, <1>7, <1>8, <1>9, <1>10, <1>11, <1>12, StillGood DEF Knows

LEMMA FreeNextGood ==
  ASSUME TypeOK, PcInv, LockInv, NEW L, NEW R, Good(L, R), Alone', NEW p \in Procs, FreeNext(p)
  PROVE  Good(L, R)'
<1> DEFINE o == d[p].offset
           n == Rec(o).ptr
           r == AfterReadidx(p, o)
<1>1. /\ Still(p) /\ arg' = arg /\ pc[p] = "ff_next"
      /\ \/ Fits(arg[p], Rec(o)) /\ d'[p] = r /\ pc'[p] = "ff_unlink"
         \/ /\ d'[p] = [r EXCEPT !.saveoff = o, !.offset = n]
            /\ pc'[p] = IF n = 0 THEN "ff_unlock" ELSE "ff_next"
  BY DEF FreeNext, At, Goto, SetDb, TypeOK, Still, Others, files
<1>2. L[d[p].saveoff] = 0 /\ Follows(L, R, d[p].saveoff, o) /\ MayInsert(arg[p])
  BY <1>1 DEF Good, Knows, FreeOK, FfLabels
<1>3. o # 0
  BY <1>1 DEF PcInv, PcOK
<1>4. o \in RecOff /\ L[o] = 0
  BY <1>2, <1>3, FollowsOn
<1>5. Field(o) = n /\ o \in PtrLoc
  BY <1>4, RecField
<1>6. Follows(L, R, o, n)
  BY <1>4, <1>5, NotCut
<1>7. /\ r \in DbType
      /\ r.idxoff = o /\ r.ptrval = n /\ r.head = d[p].head
      /\ r.datoff = Rec(o).datoff /\ r.datlen = Rec(o).datlen
      /\ r.chainoff = d[p].chainoff /\ r.saveoff = d[p].saveoff /\ r.offset = o
  BY <1>4, ReadidxFields
<1>8. Rec(o).key = Blank
  BY <1>4 DEF Good, Sorted
<1> HIDE DEF r
<1>9. d'[p].chainoff = d[p].chainoff /\ d'[p].head = d[p].head
  BY <1>1, <1>7 DEF DbType
<1>10. /\ \A x, v : Follows(L, R, x, v)' <=> Follows(L, R, x, v)
       /\ \A l : On(L, l)' = On(L, l)
       /\ \A x : Rec(x)' = Rec(x)
       /\ tbl' = tbl /\ map' = map
  BY <1>1, StillList, StillFiles DEF Still
<1>11. ChainOK(L, R, p)'
  <2>1. NotOn(L, p) /\ d[p].head = tbl[d[p].chainoff]
    BY <1>1 DEF Good, Knows, ChainOK, MissLabels, InsLabels, FfLabels
  <2>2. NotOn(L, p)'
    BY <1>1, <1>9, <1>10, <2>1 DEF NotOn
  <2> QED BY <1>1, <1>9, <1>10, <2>1, <2>2 DEF ChainOK, HitLabels
<1>12. FreeOK(L, R, p)' /\ OwnOK(L, p)' /\ (~Owns(p))'
  <2>1. CASE Fits(arg[p], Rec(o)) /\ d'[p] = r /\ pc'[p] = "ff_unlink"
    <3>1. Free(p)'
      BY <1>1, <1>7, <1>8, <1>10, <2>1 DEF Free, Fits
    <3>2. FreeOK(L, R, p)'
      BY <1>1, <1>2, <1>3, <1>7, <1>10, <2>1, <3>1 DEF FreeOK, MayInsert
    <3> QED BY <2>1, <3>2 DEF OwnOK, Owns, Reusing, NewDat
  <2>2. CASE /\ d'[p] = [r EXCEPT !.saveoff = o, !.offset = n]
             /\ pc'[p] = IF n = 0 THEN "ff_unlock" ELSE "ff_next"
    <3>1. d'[p].saveoff = o /\ d'[p].offset = n
      BY <1>7, <2>2 DEF DbType
    <3>2. FreeOK(L, R, p)'
      BY <1>1, <1>2, <1>4, <1>6, <1>10, <2>2, <3>1 DEF FreeOK, MayInsert
    <3> QED BY <2>2, <3>1, <3>2 DEF OwnOK, Owns, Reusing, NewDat
  <2> QED BY <1>1, <2>1, <2>2
<1>13. Expects(p)'
  <2>1. Expects(p)
    BY DEF Good
  <2> QED BY <1>1, <1>10, <2>1 DEF Expects, DelLabels, InsLabels, NewLabels, FfLabels
<1>14. Scans(p)'
  BY <1>1 DEF Scans
<1>15. Calm(p)
  BY <1>1, <1>12 DEF Calm, NewDat, Owns, Reusing, InFlux, InsLabels, NewLabels, FfLabels, Good, Paired
<1> QED BY <1>1, <1>11, <1>12, <1>13, <1>14, <1>15, StillGood DEF Knows

LEMMA DelFreeGood ==
  ASSUME TypeOK, PcInv, NEW L, NEW R, Good(L, R), Alone', NEW p \in Procs, DelFree(p)
  PROVE  Good(L, R)'
<1>1. /\ Still(p) /\ arg' = arg /\ pc[p] = "del_free" /\ pc'[p] = "del_idx"
      /\ d'[p] = [d[p] EXCEPT !.freeptr = Field(0), !.saveptr = d[p].ptrval]
  BY DEF DelFree, At, Goto, SetDb, TypeOK, Still, Others, files, FREE_OFF
<1>2. d[p] \in DbType /\ Field(0) = tbl[0]
  BY ConstAssumption DEF TypeOK, Field, FirstRec
<1>3. /\ d'[p].chainoff = d[p].chainoff /\ d'[p].ptroff = d[p].ptroff /\ d'[p].idxoff = d[p].idxoff
      /\ d'[p].ptrval = d[p].ptrval /\ d'[p].datoff = d[p].datoff /\ d'[p].datlen = d[p].datlen
      /\ d'[p].idxbuf = d[p].idxbuf /\ d'[p].freeptr = tbl[0] /\ d'[p].saveptr = d[p].ptrval
  BY <1>1, <1>2 DEF DbType
<1>4. /\ \A x, v : Follows(L, R, x, v)' <=> Follows(L, R, x, v)
      /\ \A x : Rec(x)' = Rec(x)
      /\ tbl' = tbl /\ map' = map
  BY <1>1, StillList, StillFiles DEF Still
<1>5. AtHit(L, R, p)'
  <2>1. AtHit(L, R, p)
    BY <1>1 DEF Good, Knows, ChainOK, HitLabels
  <2> QED BY <1>1, <1>3, <1>4, <2>1 DEF AtHit
<1>6. Knows(L, R, p)'
  BY <1>1, <1>3, <1>4, <1>5 DEF Knows, ChainOK, FreeOK, OwnOK, Owns, Reusing, NewDat, MissLabels,
     InsLabels, NewLabels, FfLabels
<1>7. Expects(p)'
  <2>1. Expects(p)
    BY DEF Good
  <2> QED BY <1>1, <1>4, <2>1 DEF Expects, DelLabels, InsLabels, NewLabels, FfLabels
<1>8. Scans(p)'
  BY <1>1 DEF Scans
<1>9. Calm(p)
  BY <1>1, <1>3 DEF Calm, NewDat, Owns, Reusing, InFlux, InsLabels, NewLabels, FfLabels, Good, Paired
<1> QED BY <1>1, <1>6, <1>7, <1>8, <1>9, StillGood

LEMMA NextIdxGood ==
  ASSUME TypeOK, NEW L, NEW R, Good(L, R), Alone', NEW p \in Procs, NextIdx(p)
  PROVE  Good(L, R)'
<1> DEFINE o == pos[p]
<1>1. /\ Still(p) /\ arg' = arg /\ rc' = rc /\ pc[p] = "next_idx"
      /\ pc'[p] \in {"next_idx", "next_dat", "next_unlock"}
      /\ pc'[p] = "next_dat" => o \in RecOff /\ Rec(o).key # Blank /\ d'[p] = AfterReadidx(p, o)
  BY DEF NextIdx, At, Goto, SetDb, TypeOK, Still, Others, files
<1>2. \A x : Rec(x)' = Rec(x)
  BY <1>1, StillFiles DEF Still
<1>3. RecOff' = RecOff
  BY <1>1, StillFiles DEF Still
<1>4. rc[p] = NULL
  BY <1>1 DEF Good, Paired, Scans
<1>5. Scans(p)'
  <2>1. CASE pc'[p] = "next_dat"
    <3>1. o \in RecOff /\ d'[p].idxbuf = Rec(o).key /\ d'[p].datoff = Rec(o).datoff
      BY <1>1, <2>1, ReadidxFields
    <3>2. Rec(o).key \in Keys
      BY <1>1, <2>1, RecTyped DEF IdxType
    <3> QED BY <1>1, <1>2, <1>3, <1>4, <2>1, <3>1, <3>2 DEF Scans
  <2>2. CASE pc'[p] # "next_dat"
    BY <1>1, <1>4, <2>2 DEF Scans
  <2> QED BY <2>1, <2>2
<1>6. Knows(L, R, p)'
  BY <1>1 DEF Knows, ChainOK, FreeOK, OwnOK, Owns, Reusing, NewDat, HitLabels, MissLabels,
     InsLabels, NewLabels, FfLabels
<1>7. Expects(p)'
  BY <1>1 DEF Expects, DelLabels, InsLabels, NewLabels, FfLabels
<1>8. Calm(p)
  BY <1>1 DEF Calm, NewDat, Owns, Reusing, InFlux, InsLabels, NewLabels, FfLabels, Good, Paired
<1> QED BY <1>1, <1>5, <1>6, <1>7, <1>8, StillGood

LEMMA NextDatGood ==
  ASSUME TypeOK, LockInv, NEW L, NEW R, Good(L, R), Alone', NEW p \in Procs, NextDat(p)
  PROVE  Good(L, R)'
<1>1. /\ Still(p) /\ arg' = arg /\ d' = d /\ pc[p] = "next_dat" /\ pc'[p] = "next_unlock"
      /\ rc'[p] = dat[d[p].datoff].val
  BY DEF NextDat, _db_readdat, At, Goto, TypeOK, Still, Others, files
<1>2. PICK y \in RecOff : Rec(y).key = d[p].idxbuf /\ Rec(y).datoff = d[p].datoff /\ d[p].idxbuf \in Keys
  BY <1>1 DEF Good, Paired, Scans
<1>3. \A q \in Procs : pc[q] \notin {"del_free", "del_idx"}
  <2>1. pc[p] \in ScanHeld
    BY <1>1 DEF ScanHeld, ScanLabels
  <2>2. ASSUME NEW q \in Procs, pc[q] \in {"del_free", "del_idx"} PROVE FALSE
    <3>1. pc[q] \in FreeLabels /\ q # p
      BY <1>1, <2>2 DEF FreeLabels, DelLabels
    <3> QED BY <2>1, <3>1, OneDeleter
  <2> QED BY <2>2
<1>4. Rec(y).key # Blank
  BY <1>2, ConstAssumption
<1>5. dat[Rec(y).datoff].val \in Data[Rec(y).key]
  BY <1>3, <1>4 DEF Good, Paired
<1>6. Scans(p)'
  BY <1>1, <1>2, <1>5 DEF Scans
<1>7. Knows(L, R, p)'
  BY <1>1 DEF Knows, ChainOK, FreeOK, OwnOK, Owns, Reusing, NewDat, HitLabels, MissLabels,
     InsLabels, NewLabels, FfLabels
<1>8. Expects(p)'
  BY <1>1 DEF Expects, DelLabels, InsLabels, NewLabels, FfLabels
<1>9. Calm(p)
  BY <1>1 DEF Calm, NewDat, Owns, Reusing, InFlux, InsLabels, NewLabels, FfLabels, Good, Paired
<1> QED BY <1>1, <1>6, <1>7, <1>8, <1>9, StillGood

-----------------------------------------------------------------------------
(***************************************************************************)
(* Steps that change the files.  The lists a step leaves alone, and what   *)
(* the other processes know.                                               *)
(***************************************************************************)
SameList(L, R, L2, R2, l) ==
  /\ On(L2, l)' = On(L, l)
  /\ \A x \in On(L, l) \cup {l} : L2[x] = l /\ R2[x] = R[x]
  /\ \A y \in On(L, l) : Rec(y)' = Rec(y)
  /\ tbl'[l] = tbl[l]

LEMMA FieldsOf ==
  ASSUME TypeOK, NEW L, NEW R, Shape(L, R), NEW x \in PtrLoc, L[x] # -1
  PROVE  /\ L[x] \in 0 .. NHASH
         /\ x \in On(L, L[x]) \cup {L[x]}
         /\ x \in RecOff \/ (x = L[x] /\ x < FirstRec)
<1>1. NHASH \in Nat /\ Len(idx) \in Nat
  BY ConstAssumption, LenNat
<1>2. x \in 0 .. NHASH \/ x \in RecOff
  BY <1>1 DEF PtrLoc, RecOff, FirstRec
<1>3. x \in Nat /\ L[x] \in 0 .. NHASH
  <2>1. x \in Nat
    BY <1>1, <1>2 DEF RecOff, FirstRec
  <2>2. L[x] \in -1 .. NHASH
    BY <2>1 DEF Shape
  <2> QED BY <1>1, <2>1, <2>2
<1>4. CASE x \in 0 .. NHASH
  <2>1. L[x] = x /\ x < FirstRec
    BY <1>1, <1>4 DEF Shape, FirstRec
  <2> QED BY <1>3, <2>1
<1>5. CASE x \in RecOff
  BY <1>3, <1>5 DEF On
<1> QED BY <1>2, <1>4, <1>5

LEMMA FollowsSame ==
  ASSUME TypeOK, NEW L, NEW R, NEW L2, NEW R2, Shape(L, R), NEW l \in 0 .. NHASH,
         SameList(L, R, L2, R2, l), NEW x \in PtrLoc, L[x] = l, NEW v, Follows(L, R, x, v)
  PROVE  Follows(L2, R2, x, v)'
<1>1. x \in On(L, l) \cup {l} /\ l # -1
  BY FieldsOf, ConstAssumption
<1>2. L2[x] = l /\ R2[x] = R[x] /\ \A y \in On(L, l) : R2[y] = R[y] /\ L2[y] = l
  BY <1>1 DEF SameList
<1>3. \A y : y \in RecOff' /\ L2[y] = l <=> y \in RecOff /\ L[y] = l
  BY DEF SameList, On
<1>4. \A y \in RecOff : L[y] = l => R2[y] = R[y]
  BY <1>2 DEF On
<1> QED BY <1>2, <1>3, <1>4 DEF Follows

LEMMA ChainSame ==
  ASSUME TypeOK, PcInv, LockInv, NEW L, NEW R, NEW L2, NEW R2, Good(L, R), NEW q \in Procs,
         pc'[q] = pc[q], arg'[q] = arg[q], d'[q] = d[q],
         pc[q] \in ChainLabels => SameList(L, R, L2, R2, d[q].chainoff)
  PROVE  ChainOK(L2, R2, q)'
<1>1. ChainOK(L, R, q)
  BY DEF Good, Knows
<1>2. CASE pc[q] \notin ChainLabels
  BY <1>2, LabelFacts DEF ChainOK, HitLabels, MissLabels, InsLabels, DelLabels
<1>3. CASE pc[q] \in ChainLabels
  <2> DEFINE c == d[q].chainoff
             x == d[q].ptroff
  <2>1. SameList(L, R, L2, R2, c)
    BY <1>3
  <2>2. c \in 1 .. NHASH /\ x \in PtrLoc /\ c \in 0 .. NHASH
    BY <1>3, OnChain DEF DbType
  <2>3. On(L2, c)' = On(L, c) /\ tbl'[c] = tbl[c] /\ \A y \in On(L, c) : Rec(y)' = Rec(y) /\ R2[y] = R[y]
    BY <2>1 DEF SameList
  <2>4. ASSUME L[x] = c PROVE L2[x] = c /\ R2[x] = R[x]
    <3>1. x \in On(L, c) \cup {c}
      BY <2>2, <2>4, FieldsOf, ConstAssumption DEF Good
    <3> QED BY <2>1, <3>1 DEF SameList
  <2>5. \A v : L[x] = c /\ Follows(L, R, x, v) => Follows(L2, R2, x, v)'
    BY <2>1, <2>2, FollowsSame DEF Good
  <2>6. pc[q] = "find_next" =>
          /\ L2[x] = c
          /\ Follows(L2, R2, x, d[q].offset)'
          /\ \A y \in On(L, c) : R2[y] >= R2[x] => Rec(y)'.key # arg[q].key
    BY <1>1, <2>3, <2>4, <2>5 DEF ChainOK
  <2>7. pc[q] \in HitLabels => AtHit(L2, R2, q)'
    <3> SUFFICES ASSUME pc[q] \in HitLabels PROVE AtHit(L2, R2, q)'
      OBVIOUS
    <3>1. AtHit(L, R, q)
      BY <1>1 DEF ChainOK
    <3>2. d[q].idxoff # 0
      BY DEF PcInv, PcOK, HitLabels, NeedsRec, DelLabels
    <3>3. d[q].idxoff \in On(L, c)
      BY <3>1, <3>2, FollowsOn DEF AtHit
    <3>4. Rec(d[q].idxoff)' = Rec(d[q].idxoff)
      BY <2>3, <3>3
    <3> QED BY <2>4, <2>5, <3>1, <3>4 DEF AtHit
  <2>8. pc[q] \in MissLabels => NotOn(L2, q)'
    BY <1>1, <2>3 DEF ChainOK, NotOn
  <2>9. pc[q] \in {"del_head", "del_unlink"} => L2[x] = c
    BY <1>1, <2>4 DEF ChainOK
  <2> QED BY <1>1, <2>3, <2>6, <2>7, <2>8, <2>9 DEF ChainOK
<1> QED BY <1>2, <1>3

(* q's own record and its new datum stay as they are.                      *)
OwnSame(L2, q) ==
  /\ Owns(q) => /\ d[q].idxoff \in RecOff' /\ L2[d[q].idxoff] = -1
                /\ Rec(d[q].idxoff)' = Rec(d[q].idxoff)
                /\ dat'[Rec(d[q].idxoff).datoff] = dat[Rec(d[q].idxoff).datoff]
  /\ NewDat(q) => dat'[d[q].datoff] = dat[d[q].datoff]

LEMMA OwnFrame ==
  ASSUME NEW L, NEW R, NEW L2, Good(L, R), NEW q \in Procs,
         pc'[q] = pc[q], arg'[q] = arg[q], d'[q] = d[q], OwnSame(L2, q)
  PROVE  OwnOK(L2, q)'
<1>1. OwnOK(L, q)
  BY DEF Good, Knows
<1>2. (Owns(q)' <=> Owns(q)) /\ (Reusing(q)' <=> Reusing(q)) /\ (NewDat(q)' <=> NewDat(q))
  BY DEF Owns, Reusing, NewDat
<1>3. Reusing(q) => Owns(q)
  BY DEF Owns
<1>4. Reusing(q) => d[q].datoff = Rec(d[q].idxoff).datoff
  BY <1>1 DEF OwnOK, Free
<1>5. pc[q] \in {"app_idxunlock", "link", "del_head"} => Owns(q)
  BY DEF Owns
<1>6. pc[q] = "reuse_idx" => Reusing(q)
  BY DEF Reusing
<1>7. Reusing(q) => Free(q)'
  BY <1>1, <1>3 DEF OwnOK, Free, Fits, OwnSame
<1>8. pc[q] = "reuse_idx" => dat'[d[q].datoff].val = arg[q].val
  BY <1>1, <1>3, <1>4, <1>6 DEF OwnOK, OwnSame
<1>9. pc[q] = "del_head" => Rec(d[q].idxoff)'.key = Blank
  BY <1>1, <1>5 DEF OwnOK, OwnSame
<1>10. pc[q] \in {"app_idxunlock", "link"} =>
         /\ Rec(d[q].idxoff)'.key = arg[q].key /\ Rec(d[q].idxoff)'.ptr = d[q].head
         /\ dat'[Rec(d[q].idxoff)'.datoff].val = arg[q].val
  BY <1>1, <1>5 DEF OwnOK, OwnSame
<1>11. NewDat(q) => dat'[d[q].datoff].val = arg[q].val /\ dat'[d[q].datoff].len = d[q].datlen
  BY <1>1 DEF OwnOK, OwnSame
<1>12. Owns(q) => d[q].idxoff \in RecOff' /\ L2[d[q].idxoff] = -1
  BY DEF OwnSame
<1> QED BY <1>2, <1>7, <1>8, <1>9, <1>10, <1>11, <1>12 DEF OwnOK

(* No other process is inserting with a record of the free list.           *)
LEMMA OnlyInserter ==
  ASSUME PcInv, NEW L, NEW R, Good(L, R), NEW p \in Procs, NEW q \in Procs, p # q,
         IsWrite(arg[p])
  PROVE  pc[q] \notin FfLabels \cup {"ins_head"} /\ ~Reusing(q)
<1>1. ASSUME pc[q] \in FfLabels \cup {"ins_head"} PROVE FALSE
  <2>1. MayInsert(arg[q]) /\ IsWrite(arg[q])
    BY <1>1 DEF Good, Knows, FreeOK, MayInsert, IsWrite
  <2> QED BY <2>1 DEF Good, Alone
<1> QED BY <1>1 DEF Reusing, FfLabels

(* An insert excludes every other process from the labels of a write.      *)
LEMMA NoWriter ==
  ASSUME PcInv, NEW L, NEW R, Good(L, R), NEW p \in Procs, NEW q \in Procs, p # q,
         MayInsert(arg[p])
  PROVE  pc[q] \notin DelLabels \cup StoreLabels /\ ~Owns(q) /\ ~NewDat(q)
<1>1. ~IsWrite(arg[q])
  BY DEF Good, Alone, MayInsert, IsWrite
<1>2. pc[q] \notin DelLabels \cup StoreLabels
  BY <1>1, Writes
<1> QED BY <1>2 DEF Owns, Reusing, NewDat, DelLabels, StoreLabels

LEMMA OthersKnow ==
  ASSUME TypeOK, PcInv, LockInv, NEW L, NEW R, NEW L2, NEW R2, Good(L, R), NEW p \in Procs, Others(p),
         pc[p] \in ChainLabels, IsWrite(arg[p]),
         \A l \in 1 .. NHASH : l # d[p].chainoff => SameList(L, R, L2, R2, l),
         \A q \in Procs : q # p => OwnSame(L2, q),
         \A q \in Procs : q # p /\ pc[q] \in {"del_idx", "del_head"} => tbl'[0] = tbl[0]
  PROVE  \A q \in Procs : q # p => Knows(L2, R2, q)'
<1> SUFFICES ASSUME NEW q \in Procs, q # p PROVE Knows(L2, R2, q)'
  OBVIOUS
<1>1. pc'[q] = pc[q] /\ arg'[q] = arg[q] /\ d'[q] = d[q] /\ OwnSame(L2, q)
  BY DEF Others
<1>2. ChainOK(L2, R2, q)'
  <2>1. pc[q] \in ChainLabels => d[q].chainoff \in 1 .. NHASH /\ d[q].chainoff # d[p].chainoff
    BY OnChain, OtherChain
  <2> QED BY <1>1, <2>1, ChainSame
<1>3. OwnOK(L2, q)'
  BY <1>1, OwnFrame
<1>4. FreeOK(L2, R2, q)'
  <2>1. pc[q] \notin FfLabels \cup {"ins_head"}
    BY OnlyInserter
  <2>2. FreeOK(L, R, q)
    BY DEF Good, Knows
  <2>3. pc[q] = "del_head" => Owns(q)
    BY DEF Owns
  <2>4. pc[q] = "del_head" => Rec(d[q].idxoff)' = Rec(d[q].idxoff)
    BY <1>1, <2>3 DEF OwnSame
  <2>5. pc[q] \in {"del_idx", "del_head"} => tbl'[0] = tbl[0]
    OBVIOUS
  <2> QED BY <1>1, <2>1, <2>2, <2>4, <2>5 DEF FreeOK, FfLabels
<1> QED BY <1>2, <1>3, <1>4 DEF Knows

(* Links, list by list.                                                    *)
LinkedOn(L, R, l) ==
  \A x \in PtrLoc : L[x] = l =>
    /\ (\A p \in Procs : ~CutAt(p, x)) => Follows(L, R, x, Field(x))
    /\ \A p \in Procs : CutAt(p, x) => Follows(L, R, x, d[p].saveptr)

(* A deletion cuts the chain it is on.                                     *)
LEMMA CutsOwn ==
  ASSUME NEW L, NEW R, Good(L, R), NEW q \in Procs, NEW x, CutAt(q, x)
  PROVE  L[x] = d[q].chainoff
  BY DEF Good, Knows, ChainOK, CutAt

LEMMA LinkedSame ==
  ASSUME TypeOK, NEW L, NEW R, NEW L2, NEW R2, Good(L, R), NEW p \in Procs, Others(p),
         NEW l \in 0 .. NHASH, SameList(L, R, L2, R2, l), \A x \in 0 .. NHASH : L2[x] = x,
         \A x \in PtrLoc : L[x] = l =>
           (CutAt(p, x)' <=> CutAt(p, x)) /\ (CutAt(p, x) => d'[p].saveptr = d[p].saveptr)
  PROVE  LinkedOn(L2, R2, l)'
<1> SUFFICES ASSUME NEW x \in PtrLoc', L2[x] = l
             PROVE  /\ (\A q \in Procs : ~CutAt(q, x)') => Follows(L2, R2, x, Field(x))'
                    /\ \A q \in Procs : CutAt(q, x)' => Follows(L2, R2, x, d[q].saveptr)'
  BY DEF LinkedOn
<1>1. NHASH \in Nat /\ Len(idx) \in Nat /\ l # -1
  BY ConstAssumption, LenNat
<1>2. x \in On(L, l) \cup {l}
  <2>1. x \in 0 .. NHASH \/ x \in RecOff'
    BY <1>1 DEF PtrLoc, RecOff, FirstRec
  <2>2. CASE x \in 0 .. NHASH
    BY <2>2
  <2>3. CASE x \in RecOff'
    <3>1. x \in On(L2, l)'
      BY <2>3 DEF On
    <3> QED BY <3>1 DEF SameList
  <2> QED BY <2>1, <2>2, <2>3
<1>3. x \in PtrLoc /\ L[x] = l
  <2>1. l \in PtrLoc /\ L[l] = l
    BY <1>1 DEF PtrLoc, Good, Shape
  <2>2. \A y \in On(L, l) : y \in PtrLoc /\ L[y] = l
    BY <1>1 DEF On, RecOff, PtrLoc, FirstRec
  <2> QED BY <1>2, <2>1, <2>2
<1>4. Field(x)' = Field(x)
  <2>1. CASE x = l
    <3>1. x < FirstRec /\ tbl'[x] = tbl[x]
      BY <1>1, <2>1 DEF FirstRec, SameList
    <3> QED BY <3>1 DEF Field
  <2>2. CASE x \in On(L, l)
    <3>1. Rec(x)' = Rec(x)
      BY <2>2 DEF SameList
    <3>2. ~(x < FirstRec)
      BY <1>1, <2>2 DEF FirstRec, On, RecOff
    <3> QED BY <3>1, <3>2 DEF Field
  <2> QED BY <1>2, <2>1, <2>2
<1>5. \A v : Follows(L, R, x, v) => Follows(L2, R2, x, v)'
  BY <1>3, FollowsSame DEF Good
<1>6. \A q \in Procs : (CutAt(q, x)' <=> CutAt(q, x)) /\ (CutAt(q, x) => d'[q].saveptr = d[q].saveptr)
  <2>1. \A q \in Procs : q # p => (CutAt(q, x)' <=> CutAt(q, x)) /\ d'[q] = d[q]
    BY DEF CutAt, Others
  <2>2. (CutAt(p, x)' <=> CutAt(p, x)) /\ (CutAt(p, x) => d'[p].saveptr = d[p].saveptr)
    BY <1>3
  <2>3. ASSUME NEW q \in Procs
        PROVE  (CutAt(q, x)' <=> CutAt(q, x)) /\ (CutAt(q, x) => d'[q].saveptr = d[q].saveptr)
    <3>1. CASE q = p
      BY <2>2, <3>1
    <3>2. CASE q # p
      BY <2>1, <3>2
    <3> QED BY <3>1, <3>2
  <2> QED BY <2>3
<1>7. Linked(L, R)
  BY DEF Good
<1>8. ASSUME \A q \in Procs : ~CutAt(q, x)' PROVE Follows(L2, R2, x, Field(x))'
  <2>1. \A q \in Procs : ~CutAt(q, x)
    BY <1>6, <1>8
  <2>2. Follows(L, R, x, Field(x))
    BY <1>1, <1>3, <1>7, <2>1 DEF Linked
  <2> QED BY <1>4, <1>5, <2>2
<1>9. ASSUME NEW q \in Procs, CutAt(q, x)' PROVE Follows(L2, R2, x, d[q].saveptr)'
  <2>1. CutAt(q, x) /\ d'[q].saveptr = d[q].saveptr
    BY <1>6, <1>9
  <2>2. Follows(L, R, x, d[q].saveptr)
    BY <1>1, <1>3, <1>7, <2>1 DEF Linked
  <2> QED BY <1>5, <2>1, <2>2
<1> QED BY <1>8, <1>9

(* What the map says of the other processes' keys.                         *)
LEMMA OthersExpect ==
  ASSUME TypeOK, PcInv, LockInv, NEW L, NEW R, Good(L, R), NEW p \in Procs, Others(p),
         pc[p] \in ChainLabels, IsWrite(arg[p]), \A k \in Keys : k # arg[p].key => map'[k] = map[k]
  PROVE  \A q \in Procs : q # p => Expects(q)'
<1> SUFFICES ASSUME NEW q \in Procs, q # p PROVE Expects(q)'
  OBVIOUS
<1>1. pc'[q] = pc[q] /\ arg'[q] = arg[q]
  BY DEF Others
<1>2. Expects(q)
  BY DEF Good
<1>3. pc[q] \in ChainLabels => map'[arg[q].key] = map[arg[q].key]
  <2> SUFFICES ASSUME pc[q] \in ChainLabels PROVE map'[arg[q].key] = map[arg[q].key]
    OBVIOUS
  <2>1. d[q].chainoff = ChainOff(arg[q].key) /\ d[p].chainoff = ChainOff(arg[p].key) /\ arg[q].key \in Keys
    BY OnChain
  <2>2. d[p].chainoff # d[q].chainoff
    BY OtherChain
  <2> QED BY <2>1, <2>2
<1>4. pc[q] \in DelLabels \cup InsLabels \cup {"ins_head", "rep_head"} => pc[q] \in ChainLabels
  BY LabelFacts DEF MissLabels
<1> QED BY <1>1, <1>2, <1>3, <1>4 DEF Expects, DelLabels

(* Keys whose records and data a step leaves alone.                        *)
KeySame(L, L2, k) ==
  \A y : /\ (y \in On(L2, ChainOff(k)) /\ Rec(y).key = k)' <=> y \in On(L, ChainOff(k)) /\ Rec(y).key = k
         /\ y \in On(L, ChainOff(k)) /\ Rec(y).key = k =>
              Rec(y)'.datoff = Rec(y).datoff /\ dat'[Rec(y).datoff].val = dat[Rec(y).datoff].val

LEMMA AgreesFrame ==
  ASSUME NEW L, NEW R, NEW L2, Good(L, R), NEW p \in Procs, Others(p), NEW n \in Keys, n = arg[p].key,
         \A k \in Keys : k # n => KeySame(L, L2, k) /\ map'[k] = map[k],
         \/ InFlux(p)' /\ arg'[p].key = n
         \/ map'[n] = NULL /\ \A y \in On(L2, ChainOff(n))' : Rec(y)'.key # n
         \/ map'[n] # NULL /\ \E y \in On(L2, ChainOff(n))' :
                               Rec(y)'.key = n /\ dat'[Rec(y)'.datoff].val = map'[n]
  PROVE  Agrees(L2)'
<1> SUFFICES ASSUME NEW k \in Keys, \A q \in Procs : InFlux(q)' => arg'[q].key # k
             PROVE  \/ map'[k] = NULL /\ \A y \in On(L2, ChainOff(k))' : Rec(y)'.key # k
                    \/ map'[k] # NULL /\ \E y \in On(L2, ChainOff(k))' :
                               Rec(y)'.key = k /\ dat'[Rec(y)'.datoff].val = map'[k]
  BY DEF Agrees, ChainOff
<1>1. CASE k = arg[p].key
  BY <1>1
<1>2. CASE k # arg[p].key
  <2>1. \A q \in Procs : InFlux(q) => arg[q].key # k
    <3>1. \A q \in Procs : q # p => (InFlux(q)' <=> InFlux(q)) /\ arg'[q] = arg[q]
      BY DEF InFlux, Others
    <3> QED BY <1>2, <3>1
  <2>2. \/ map[k] = NULL /\ \A y \in On(L, ChainOff(k)) : Rec(y).key # k
        \/ map[k] # NULL /\ \E y \in On(L, ChainOff(k)) :
                              Rec(y).key = k /\ dat[Rec(y).datoff].val = map[k]
    BY <2>1 DEF Good, Agrees
  <2>3. \A y : (y \in On(L2, ChainOff(k))' /\ Rec(y)'.key = k) <=> (y \in On(L, ChainOff(k)) /\ Rec(y).key = k)
    BY <1>2 DEF KeySame, ChainOff
  <2>4. \A y : y \in On(L, ChainOff(k)) /\ Rec(y).key = k =>
              Rec(y)'.datoff = Rec(y).datoff /\ dat'[Rec(y).datoff].val = dat[Rec(y).datoff].val
    BY <1>2 DEF KeySame
  <2>5. map'[k] = map[k]
    BY <1>2
  <2> QED BY <2>2, <2>3, <2>4, <2>5
<1> QED BY <1>1, <1>2

(* Records and data other than o's.                                        *)
LEMMA PairedFrame ==
  ASSUME LockInv, NEW L, NEW R, Good(L, R), NEW p \in Procs, Others(p), Scans(p)', NEW o,
         arg'[p].op = "store" => arg'[p].val \in Data[arg'[p].key],
         \A y \in RecOff' : y # o =>
            /\ y \in RecOff /\ Rec(y)'.key = Rec(y).key /\ Rec(y)'.datoff = Rec(y).datoff
            /\ dat'[Rec(y).datoff].val = dat[Rec(y).datoff].val,
         pc[p] \in {"del_free", "del_idx"} => d[p].idxoff = o,
         o \in RecOff' /\ Rec(o)'.key # Blank /\ ~(pc'[p] \in {"del_free", "del_idx"} /\ d'[p].idxoff = o)
           => dat'[Rec(o)'.datoff].val \in Data[Rec(o)'.key],
         \/ pc[p] \in FreeLabels
         \/ \A y \in RecOff : Rec(y).key # Blank =>
               y \in RecOff' /\ Rec(y)'.key = Rec(y).key /\ Rec(y)'.datoff = Rec(y).datoff
  PROVE  Paired'
<1>1. \A q \in Procs : q # p =>
        pc'[q] = pc[q] /\ arg'[q] = arg[q] /\ d'[q] = d[q] /\ rc'[q] = rc[q]
  BY DEF Others
<1>2. \A q \in Procs : arg'[q].op = "store" => arg'[q].val \in Data[arg'[q].key]
  BY <1>1 DEF Good, Paired
<1>3. ASSUME NEW y \in RecOff', Rec(y)'.key # Blank,
             \A q \in Procs : pc'[q] \in {"del_free", "del_idx"} => d'[q].idxoff # y
      PROVE  dat'[Rec(y)'.datoff].val \in Data[Rec(y)'.key]
  <2>1. CASE y = o
    BY <1>3, <2>1
  <2>2. CASE y # o
    <3>1. /\ y \in RecOff /\ Rec(y)'.key = Rec(y).key /\ Rec(y)'.datoff = Rec(y).datoff
          /\ dat'[Rec(y).datoff].val = dat[Rec(y).datoff].val
      BY <2>2
    <3>2. \A q \in Procs : pc[q] \in {"del_free", "del_idx"} => d[q].idxoff # y
      BY <1>1, <1>3, <2>2
    <3>3. dat[Rec(y).datoff].val \in Data[Rec(y).key]
      BY <1>3, <3>1, <3>2 DEF Good, Paired
    <3> QED BY <3>1, <3>3
  <2> QED BY <2>1, <2>2
<1>4. ASSUME NEW q \in Procs PROVE Scans(q)'
  <2>1. CASE q = p
    BY <2>1
  <2>2. CASE q # p
    <3>1. Scans(q)
      BY DEF Good, Paired
    <3>2. pc'[q] = pc[q] /\ d'[q] = d[q] /\ rc'[q] = rc[q]
      BY <1>1, <2>2
    <3>3. ASSUME pc[q] = "next_dat"
          PROVE  \E y \in RecOff' : Rec(y)'.key = d[q].idxbuf /\ Rec(y)'.datoff = d[q].datoff /\ d[q].idxbuf \in Keys
      <4>1. PICK y \in RecOff : Rec(y).key = d[q].idxbuf /\ Rec(y).datoff = d[q].datoff /\ d[q].idxbuf \in Keys
        BY <3>1, <3>3 DEF Scans
      <4>2. Rec(y).key # Blank
        BY <4>1, ConstAssumption
      <4>3. pc[p] \notin FreeLabels
        BY <2>2, <3>3, OneDeleter DEF ScanHeld, ScanLabels
      <4> QED BY <4>1, <4>2, <4>3
    <3> QED BY <3>1, <3>2, <3>3 DEF Scans
  <2> QED BY <2>1, <2>2
<1> QED BY <1>2, <1>3, <1>4 DEF Paired

(* Who owns a record.                                                      *)
LEMMA OwnersFrame ==
  ASSUME NEW L, NEW R, NEW L2, Good(L, R), NEW p \in Procs, Others(p),
         \A q \in Procs : q # p /\ Owns(q) /\ Owns(p)' => d[q].idxoff # d'[p].idxoff,
         \A y \in RecOff' : L2[y] = -1 /\ y <= PTR_MAX =>
            \/ Owns(p)' /\ d'[p].idxoff = y
            \/ y \in RecOff /\ L[y] = -1 /\ ~(Owns(p) /\ d[p].idxoff = y)
  PROVE  OwnApart' /\ Kept(L2)'
<1>1. \A q \in Procs : q # p => (Owns(q)' <=> Owns(q)) /\ d'[q] = d[q]
  BY DEF Owns, Reusing, Others
<1>2. OwnApart'
  <2>1. OwnApart
    BY DEF Good
  <2> QED BY <1>1, <2>1 DEF OwnApart
<1>3. Kept(L2)'
  <2> SUFFICES ASSUME NEW y \in RecOff', L2[y] = -1, y <= PTR_MAX
               PROVE  \E q \in Procs : Owns(q)' /\ d'[q].idxoff = y
    BY DEF Kept
  <2>1. CASE Owns(p)' /\ d'[p].idxoff = y
    BY <2>1
  <2>2. CASE y \in RecOff /\ L[y] = -1 /\ ~(Owns(p) /\ d[p].idxoff = y)
    <3>1. PICK q \in Procs : Owns(q) /\ d[q].idxoff = y
      BY <2>2 DEF Good, Kept
    <3>2. q # p
      BY <2>2, <3>1
    <3> QED BY <1>1, <3>1, <3>2
  <2> QED BY <2>1, <2>2
<1> QED BY <1>2, <1>3

(* Steps that neither append a record nor leave a datum without one.       *)
LEMMA ApartFrame ==
  ASSUME NEW L, NEW R, Good(L, R), NEW p \in Procs, Others(p), ~NewDat(p)',
         RecOff' = RecOff, \A y \in RecOff : Rec(y)'.datoff = Rec(y).datoff
  PROVE  Apart'
<1>1. \A q \in Procs : NewDat(q)' => NewDat(q) /\ d'[q] = d[q]
  BY DEF NewDat, Others
<1> QED BY <1>1 DEF Good, Apart

(***************************************************************************)
(* Steps that change the data file only.                                   *)
(***************************************************************************)
LEMMA SameIdx ==
  ASSUME TypeOK, UNCHANGED <<tbl, idx>>, NEW L, NEW R, Shape(L, R)
  PROVE  /\ RecOff' = RecOff /\ PtrLoc' = PtrLoc
         /\ \A x : Rec(x)' = Rec(x)
         /\ \A x : Field(x)' = Field(x)
         /\ \A x, v : Follows(L, R, x, v)' <=> Follows(L, R, x, v)
         /\ \A l : On(L, l)' = On(L, l)
         /\ Shape(L, R)'
         /\ Sorted(L)' <=> Sorted(L)
         /\ \A l \in 0 .. NHASH : SameList(L, R, L, R, l)
<1>1. RecOff' = RecOff /\ PtrLoc' = PtrLoc /\ \A x : Rec(x)' = Rec(x)
  BY DEF RecOff, PtrLoc, Rec
<1>2. \A x : Field(x)' = Field(x)
  BY DEF Field, Rec
<1>3. \A x, v : Follows(L, R, x, v)' <=> Follows(L, R, x, v)
  BY <1>1 DEF Follows
<1>4. \A l : On(L, l)' = On(L, l)
  BY <1>1 DEF On
<1>5. Shape(L, R)'
  BY <1>1 DEF Shape
<1>6. Sorted(L)' <=> Sorted(L)
  BY <1>1 DEF Sorted
<1>7. ASSUME NEW l \in 0 .. NHASH PROVE SameList(L, R, L, R, l)
  <2>1. \A x \in On(L, l) \cup {l} : L[x] = l
    BY DEF On, Shape
  <2> QED BY <1>1, <1>4, <2>1 DEF SameList
<1> QED BY <1>1, <1>2, <1>3, <1>4, <1>5, <1>6, <1>7

LEMMA DatGood ==
  ASSUME TypeOK, PcInv, LockInv, NEW L, NEW R, Good(L, R), Alone', NEW p \in Procs, Others(p),
         UNCHANGED <<tbl, idx>>, arg' = arg, pc[p] \in ChainLabels, IsWrite(arg[p]), NEW o,
         \A y \in RecOff : y # o => dat'[Rec(y).datoff] = dat[Rec(y).datoff],
         \A y \in RecOff : dat'[Rec(y).datoff].len = dat[Rec(y).datoff].len,
         \A q \in Procs : q # p /\ NewDat(q) => dat'[d[q].datoff] = dat[d[q].datoff],
         \A q \in Procs : q # p /\ Owns(q) => d[q].idxoff # o,
         \A k \in Keys : k # arg[p].key => map'[k] = map[k],
         pc[p] \notin {"del_head", "del_unlink"}, pc'[p] \notin {"del_head", "del_unlink"},
         Owns(p)' <=> Owns(p), Owns(p) => d'[p].idxoff = d[p].idxoff,
         Apart', Knows(L, R, p)', Expects(p)', Agrees(L)', Paired'
  PROVE  Good(L, R)'
<1>1. Shape(L, R) /\ Linked(L, R) /\ Sorted(L) /\ Sized
  BY DEF Good
<1>2. /\ RecOff' = RecOff /\ PtrLoc' = PtrLoc
      /\ \A x : Rec(x)' = Rec(x)
      /\ \A x : Field(x)' = Field(x)
      /\ \A x, v : Follows(L, R, x, v)' <=> Follows(L, R, x, v)
      /\ Shape(L, R)' /\ Sorted(L)'
      /\ \A l \in 0 .. NHASH : SameList(L, R, L, R, l)
  BY <1>1, SameIdx
<1>3. \A q \in Procs : q # p => pc'[q] = pc[q] /\ d'[q] = d[q]
  BY DEF Others
<1>4. Linked(L, R)'
  <2>1. \A q \in Procs : \A x : CutAt(q, x)' <=> CutAt(q, x)
    BY <1>3 DEF CutAt
  <2>2. \A q \in Procs : \A x : CutAt(q, x) => d'[q].saveptr = d[q].saveptr
    BY <1>3 DEF CutAt
  <2> QED BY <1>1, <1>2, <2>1, <2>2 DEF Linked
<1>5. Sized'
  BY <1>1, <1>2 DEF Sized
<1>6. OwnApart' /\ Kept(L)'
  <2>1. \A q \in Procs : q # p /\ Owns(q) /\ Owns(p)' => d[q].idxoff # d'[p].idxoff
    BY DEF Good, OwnApart
  <2>2. \A y \in RecOff' : L[y] = -1 /\ y <= PTR_MAX =>
            \/ Owns(p)' /\ d'[p].idxoff = y
            \/ y \in RecOff /\ L[y] = -1 /\ ~(Owns(p) /\ d[p].idxoff = y)
    BY <1>2
  <2> QED BY <2>1, <2>2, OwnersFrame
<1>7. \A q \in Procs : q # p => Knows(L, R, q)'
  <2>1. ASSUME NEW q \in Procs, q # p PROVE OwnSame(L, q)
    <3>1. Owns(q) => d[q].idxoff \in RecOff /\ L[d[q].idxoff] = -1 /\ d[q].idxoff # o
      BY <2>1 DEF Good, Knows, OwnOK
    <3>2. Owns(q) => dat'[Rec(d[q].idxoff).datoff] = dat[Rec(d[q].idxoff).datoff]
      BY <3>1
    <3>3. Owns(q) => d[q].idxoff \in RecOff' /\ Rec(d[q].idxoff)' = Rec(d[q].idxoff)
      <4>1. d'[q] = d[q]
        BY <1>3, <2>1
      <4> QED BY <1>2, <3>1, <4>1
    <3>4. NewDat(q) => dat'[d[q].datoff] = dat[d[q].datoff]
      BY <2>1
    <3> QED BY <3>1, <3>2, <3>3, <3>4 DEF OwnSame
  <2>2. \A l \in 1 .. NHASH : l # d[p].chainoff => SameList(L, R, L, R, l)
    BY <1>2
  <2> QED BY <2>1, <2>2, OthersKnow
<1>8. \A q \in Procs : q # p => Expects(q)'
  BY OthersExpect
<1> QED BY <1>2, <1>4, <1>5, <1>6, <1>7, <1>8 DEF Good

(* The record behind a hit.                                                *)
LEMMA HitFacts ==
  ASSUME TypeOK, PcInv, LockInv, NEW L, NEW R, Good(L, R), NEW p \in Procs, pc[p] \in HitLabels
  PROVE  /\ AtHit(L, R, p) /\ pc[p] \in ChainLabels
         /\ d[p].idxoff \in On(L, d[p].chainoff) /\ d[p].idxoff \in RecOff
         /\ L[d[p].idxoff] = d[p].chainoff /\ d[p].chainoff \in 1 .. NHASH /\ L[d[p].idxoff] >= 1
         /\ d[p].datoff \in DatPos /\ d[p].datlen = dat[d[p].datoff].len
         /\ arg[p].key \in Keys /\ ChainOff(arg[p].key) = d[p].chainoff
         /\ d[p].ptroff \in PtrLoc
         /\ \A q \in Procs : Owns(q) => d[q].idxoff # d[p].idxoff
<1>1. AtHit(L, R, p) /\ pc[p] \in ChainLabels
  BY LabelFacts DEF Good, Knows, ChainOK
<1>2. d[p].idxoff # 0
  BY DEF PcInv, PcOK, HitLabels, NeedsRec, DelLabels
<1>3. d[p].idxoff \in On(L, d[p].chainoff) /\ d[p].idxoff \in RecOff /\ L[d[p].idxoff] = d[p].chainoff
  BY <1>1, <1>2, FollowsOn DEF AtHit
<1>4. /\ d[p].chainoff \in 1 .. NHASH /\ arg[p].key \in Keys /\ ChainOff(arg[p].key) = d[p].chainoff
      /\ d[p].ptroff \in PtrLoc
  BY <1>1, OnChain DEF DbType
<1>5. d[p].datoff \in DatPos /\ d[p].datlen = dat[d[p].datoff].len
  <2>1. Rec(d[p].idxoff) \in IdxType
    BY <1>3, RecTyped
  <2> QED BY <1>1, <1>3, <2>1 DEF AtHit, Good, Sized, IdxType
<1>6. ASSUME NEW q \in Procs, Owns(q) PROVE d[q].idxoff # d[p].idxoff
  <2>1. L[d[q].idxoff] = -1
    BY <1>6 DEF Good, Knows, OwnOK
  <2> QED BY <1>3, <1>4, <2>1
<1> QED BY <1>1, <1>3, <1>4, <1>5, <1>6

(* A datum is overwritten: only its record's datum changes.                *)
LEMMA OverwriteFacts ==
  ASSUME TypeOK, NEW L, NEW R, Good(L, R), NEW o \in RecOff, NEW v, NEW len,
         OverwriteDat(Rec(o).datoff, v, len)
  PROVE  /\ \A y \in RecOff : y # o => dat'[Rec(y).datoff] = dat[Rec(y).datoff]
         /\ \A q \in Procs : NewDat(q) => dat'[d[q].datoff] = dat[d[q].datoff]
         /\ dat'[Rec(o).datoff] = [val |-> v, len |-> len]
<1>1. dat' = [dat EXCEPT ![Rec(o).datoff] = [val |-> v, len |-> len]]
  BY DEF OverwriteDat
<1>2. dat \in Seq(DatType) /\ DatPos = 1 .. Len(dat) /\ Rec(o).datoff \in DatPos
  <2>1. Rec(o) \in IdxType
    BY RecTyped
  <2> QED BY <2>1 DEF TypeOK, DatPos, IdxType
<1>3. \A i : i # Rec(o).datoff => dat'[i] = dat[i]
  BY <1>1, <1>2
<1>4. dat'[Rec(o).datoff] = [val |-> v, len |-> len]
  BY <1>1, <1>2
<1>5. \A y \in RecOff : y # o => Rec(y).datoff # Rec(o).datoff
  BY DEF Good, Apart
<1>6. \A q \in Procs : NewDat(q) => d[q].datoff # Rec(o).datoff
  BY DEF Good, Apart
<1> QED BY <1>3, <1>4, <1>5, <1>6

(* Records that are not o keep their key and their datum.                  *)
LEMMA KeysSameDat ==
  ASSUME TypeOK, UNCHANGED <<tbl, idx>>, NEW L, NEW R, Shape(L, R), NEW o,
         \A y \in RecOff : y # o => dat'[Rec(y).datoff] = dat[Rec(y).datoff]
  PROVE  \A k : o \notin On(L, ChainOff(k)) \/ Rec(o).key # k => KeySame(L, L, k)
<1>1. RecOff' = RecOff /\ \A x : Rec(x)' = Rec(x)
  BY SameIdx
<1>2. \A l : On(L, l)' = On(L, l)
  BY SameIdx
<1> SUFFICES ASSUME NEW k, o \notin On(L, ChainOff(k)) \/ Rec(o).key # k PROVE KeySame(L, L, k)
  OBVIOUS
<1>3. ASSUME NEW y, y \in On(L, ChainOff(k)), Rec(y).key = k
      PROVE  Rec(y)'.datoff = Rec(y).datoff /\ dat'[Rec(y).datoff].val = dat[Rec(y).datoff].val
  <2>1. y \in RecOff /\ y # o
    BY <1>3 DEF On
  <2> QED BY <1>1, <2>1
<1>4. \A y : (y \in On(L, ChainOff(k)) /\ Rec(y).key = k)' <=> y \in On(L, ChainOff(k)) /\ Rec(y).key = k
  <2>1. ChainOff(k)' = ChainOff(k)
    BY DEF ChainOff
  <2> QED BY <1>1, <1>2, <2>1
<1> QED BY <1>3, <1>4 DEF KeySame

LEMMA DelDatGood ==
  ASSUME TypeOK, PcInv, LockInv, NEW L, NEW R, Good(L, R), Alone', NEW p \in Procs, DelDat(p)
  PROVE  Good(L, R)'
<1>1. /\ Others(p) /\ pc[p] = "del_dat" /\ pc'[p] = "del_free" /\ tbl' = tbl /\ idx' = idx
      /\ arg' = arg /\ d' = d /\ rc' = rc /\ map' = map
      /\ OverwriteDat(d[p].datoff, Blank, d[p].datlen)
  BY DEF DelDat, At, Goto, TypeOK, Others
<1>2. PICK o : o = d[p].idxoff
  OBVIOUS
<1>3. /\ AtHit(L, R, p) /\ pc[p] \in ChainLabels /\ o \in RecOff /\ L[o] = d[p].chainoff
      /\ d[p].datlen = dat[d[p].datoff].len /\ arg[p].key \in Keys
      /\ \A q \in Procs : Owns(q) => d[q].idxoff # o
  BY <1>1, <1>2, HitFacts DEF HitLabels
<1>4. d[p].datoff = Rec(o).datoff /\ Rec(o).key = arg[p].key
  BY <1>2, <1>3 DEF AtHit
<1>5. IsWrite(arg[p])
  BY <1>1, Writes DEF DelLabels
<1>6. /\ \A y \in RecOff : y # o => dat'[Rec(y).datoff] = dat[Rec(y).datoff]
      /\ \A q \in Procs : NewDat(q) => dat'[d[q].datoff] = dat[d[q].datoff]
      /\ dat'[Rec(o).datoff] = [val |-> Blank, len |-> d[p].datlen]
  BY <1>1, <1>3, <1>4, OverwriteFacts
<1>7. \A y \in RecOff : dat'[Rec(y).datoff].len = dat[Rec(y).datoff].len
  <2>1. dat'[Rec(o).datoff].len = dat[Rec(o).datoff].len
    BY <1>3, <1>4, <1>6
  <2> QED BY <1>6, <2>1
<1>8. Shape(L, R)
  BY DEF Good
<1>9. /\ RecOff' = RecOff /\ \A x : Rec(x)' = Rec(x)
      /\ \A x, v : Follows(L, R, x, v)' <=> Follows(L, R, x, v)
  BY <1>1, <1>8, SameIdx
<1>10. Apart'
  <2>1. ~NewDat(p)'
    BY <1>1 DEF NewDat
  <2> QED BY <1>1, <1>9, <2>1, ApartFrame
<1>11. Knows(L, R, p)'
  <2>1. AtHit(L, R, p)'
    BY <1>1, <1>3, <1>9 DEF AtHit
  <2> QED BY <1>1, <2>1 DEF Knows, ChainOK, FreeOK, OwnOK, Owns, Reusing, NewDat, MissLabels,
     InsLabels, NewLabels, FfLabels
<1>12. Agrees(L)'
  <2>1. \A k \in Keys : k # arg[p].key => KeySame(L, L, k) /\ map'[k] = map[k]
    BY <1>1, <1>4, <1>6, <1>8, KeysSameDat
  <2>2. InFlux(p)' /\ arg'[p].key = arg[p].key
    BY <1>1 DEF InFlux
  <2>3. PICK n : n = arg[p].key
    OBVIOUS
  <2> QED BY <1>1, <1>3, <2>1, <2>2, <2>3, AgreesFrame
<1>13. Expects(p)'
  <2>1. map[arg[p].key] # NULL
    <3>1. ~InFlux(p) /\ Rec(o).key = arg[p].key /\ o \in On(L, d[p].chainoff)
      BY <1>1, <1>3, <1>4 DEF InFlux, InsLabels, NewLabels, FfLabels, On
    <3> QED BY <1>3, <3>1, KeyAgrees
  <2>2. Expects(p)
    BY DEF Good
  <2> QED BY <1>1, <2>1, <2>2 DEF Expects, DelLabels, InsLabels, NewLabels, FfLabels
<1>14. Paired'
  <2>1. Scans(p)'
    BY <1>1 DEF Scans
  <2>2. arg'[p].op = "store" => arg'[p].val \in Data[arg'[p].key]
    BY <1>1 DEF Good, Paired
  <2>3. pc'[p] \in {"del_free", "del_idx"} /\ d'[p].idxoff = o
    BY <1>1, <1>2
  <2>4. \A y \in RecOff' : y # o =>
            /\ y \in RecOff /\ Rec(y)'.key = Rec(y).key /\ Rec(y)'.datoff = Rec(y).datoff
            /\ dat'[Rec(y).datoff].val = dat[Rec(y).datoff].val
    BY <1>6, <1>9
  <2>5. \A y \in RecOff : y \in RecOff' /\ Rec(y)'.key = Rec(y).key /\ Rec(y)'.datoff = Rec(y).datoff
    BY <1>9
  <2>6. pc[p] \notin {"del_free", "del_idx"}
    BY <1>1
  <2> QED BY <1>1, <2>1, <2>2, <2>3, <2>4, <2>5, <2>6, PairedFrame
<1>15. (~Owns(p)) /\ (~Owns(p)')
  BY <1>1 DEF Owns, Reusing
<1> QED BY <1>1, <1>3, <1>5, <1>6, <1>7, <1>10, <1>11, <1>12, <1>13, <1>14, <1>15, DatGood

LEMMA RepDatGood ==
  ASSUME TypeOK, PcInv, LockInv, NEW L, NEW R, Good(L, R), Alone', NEW p \in Procs, RepDat(p)
  PROVE  Good(L, R)'
<1>1. /\ Others(p) /\ pc[p] = "rep_dat" /\ pc'[p] = "unlock" /\ tbl' = tbl /\ idx' = idx
      /\ arg' = arg /\ d' = d
      /\ OverwriteDat(d[p].datoff, arg[p].val, DatLen[arg[p].val])
      /\ map' = [map EXCEPT ![arg[p].key] = arg[p].val]
  BY DEF RepDat, At, Goto, TypeOK, Others
<1>2. PICK o : o = d[p].idxoff
  OBVIOUS
<1>3. /\ AtHit(L, R, p) /\ pc[p] \in ChainLabels /\ o \in RecOff /\ L[o] = d[p].chainoff
      /\ d[p].datlen = dat[d[p].datoff].len /\ arg[p].key \in Keys /\ ChainOff(arg[p].key) = d[p].chainoff
      /\ \A q \in Procs : Owns(q) => d[q].idxoff # o
  BY <1>1, <1>2, HitFacts DEF HitLabels
<1>4. d[p].datoff = Rec(o).datoff /\ Rec(o).key = arg[p].key /\ DatLen[arg[p].val] = d[p].datlen
  BY <1>1, <1>2, <1>3 DEF AtHit, Good, Knows, ChainOK
<1>5. IsWrite(arg[p]) /\ arg[p].op = "store" /\ arg[p].val \in Vals
  BY <1>1, Writes DEF StoreLabels, PcInv, PcOK
<1>6. /\ \A y \in RecOff : y # o => dat'[Rec(y).datoff] = dat[Rec(y).datoff]
      /\ \A q \in Procs : NewDat(q) => dat'[d[q].datoff] = dat[d[q].datoff]
      /\ dat'[Rec(o).datoff] = [val |-> arg[p].val, len |-> DatLen[arg[p].val]]
  BY <1>1, <1>3, <1>4, OverwriteFacts
<1>7. \A y \in RecOff : dat'[Rec(y).datoff].len = dat[Rec(y).datoff].len
  <2>1. dat'[Rec(o).datoff].len = dat[Rec(o).datoff].len
    BY <1>3, <1>4, <1>6
  <2> QED BY <1>6, <2>1
<1>8. Shape(L, R)
  BY DEF Good
<1>9. RecOff' = RecOff /\ (\A x : Rec(x)' = Rec(x)) /\ (\A l : On(L, l)' = On(L, l))
  BY <1>1, <1>8, SameIdx
<1>10. Apart'
  <2>1. ~NewDat(p)'
    BY <1>1 DEF NewDat
  <2> QED BY <1>1, <1>9, <2>1, ApartFrame
<1>11. Knows(L, R, p)'
  BY <1>1 DEF Knows, ChainOK, FreeOK, OwnOK, Owns, Reusing, NewDat, HitLabels, MissLabels,
     InsLabels, NewLabels, FfLabels
<1>12. \A k \in Keys : k # arg[p].key => map'[k] = map[k]
  BY <1>1 DEF TypeOK
<1>13. Agrees(L)'
  <2>1. \A k \in Keys : k # arg[p].key => KeySame(L, L, k)
    BY <1>1, <1>4, <1>6, <1>8, KeysSameDat
  <2>2. PICK n : n = arg[p].key
    OBVIOUS
  <2>3. map'[n] = arg[p].val /\ map'[n] # NULL
    BY <1>1, <1>3, <1>5, <2>2, ConstAssumption DEF TypeOK
  <2>4. o \in On(L, ChainOff(n))' /\ Rec(o)'.key = n /\ dat'[Rec(o)'.datoff].val = map'[n]
    <3>1. ChainOff(n)' = ChainOff(n)
      BY DEF ChainOff
    <3>2. o \in On(L, ChainOff(n))
      BY <1>3, <2>2 DEF On
    <3> QED BY <1>4, <1>6, <1>9, <2>2, <2>3, <3>1, <3>2
  <2> QED BY <1>1, <1>3, <1>12, <2>1, <2>2, <2>3, <2>4, AgreesFrame
<1>14. Expects(p)'
  BY <1>1 DEF Expects, DelLabels, InsLabels, NewLabels, FfLabels
<1>15. Paired'
  <2>1. Scans(p)'
    BY <1>1 DEF Scans
  <2>2. arg[p].val \in Data[arg[p].key]
    BY <1>5 DEF Good, Paired
  <2>3. dat'[Rec(o)'.datoff].val \in Data[Rec(o)'.key]
    BY <1>4, <1>6, <1>9, <2>2
  <2>4. \A y \in RecOff' : y # o =>
            /\ y \in RecOff /\ Rec(y)'.key = Rec(y).key /\ Rec(y)'.datoff = Rec(y).datoff
            /\ dat'[Rec(y).datoff].val = dat[Rec(y).datoff].val
    BY <1>6, <1>9
  <2>5. \A y \in RecOff : y \in RecOff' /\ Rec(y)'.key = Rec(y).key /\ Rec(y)'.datoff = Rec(y).datoff
    BY <1>9
  <2>6. pc[p] \notin {"del_free", "del_idx"}
    BY <1>1
  <2> QED BY <1>1, <2>1, <2>2, <2>3, <2>4, <2>5, <2>6, PairedFrame
<1>16. (~Owns(p)) /\ (~Owns(p)')
  BY <1>1 DEF Owns, Reusing
<1> QED BY <1>1, <1>3, <1>5, <1>6, <1>7, <1>10, <1>11, <1>12, <1>13, <1>14, <1>15, <1>16, DatGood

LEMMA ReuseDatGood ==
  ASSUME TypeOK, PcInv, LockInv, NEW L, NEW R, Good(L, R), Alone', NEW p \in Procs, ReuseDat(p)
  PROVE  Good(L, R)'
<1>1. /\ Others(p) /\ pc[p] = "reuse_dat" /\ pc'[p] = "reuse_idx" /\ tbl' = tbl /\ idx' = idx
      /\ arg' = arg /\ d' = d /\ rc' = rc /\ map' = map
      /\ OverwriteDat(d[p].datoff, arg[p].val, DatLen[arg[p].val])
  BY DEF ReuseDat, At, Goto, TypeOK, Others
<1>2. PICK o : o = d[p].idxoff
  OBVIOUS
<1>3. Owns(p) /\ Reusing(p) /\ Owns(p)' /\ Reusing(p)'
  BY <1>1 DEF Owns, Reusing
<1>4. o \in RecOff /\ L[o] = -1 /\ Free(p)
  BY <1>2, <1>3 DEF Good, Knows, OwnOK
<1>5. d[p].datoff = Rec(o).datoff /\ Rec(o).key = Blank /\ DatLen[arg[p].val] = Rec(o).datlen
  BY <1>2, <1>4 DEF Free, Fits
<1>6. pc[p] \in ChainLabels /\ IsWrite(arg[p]) /\ MayInsert(arg[p])
  <2>1. pc[p] \in StoreLabels /\ pc[p] \in FfLabels
    BY <1>1 DEF StoreLabels, FfLabels
  <2> QED BY <2>1, LabelFacts, Writes DEF Good, Knows, FreeOK
<1>7. arg[p].key \in Keys /\ arg[p].val \in Vals
  BY <1>6, OnChain DEF PcInv, PcOK, MayInsert
<1>8. /\ \A y \in RecOff : y # o => dat'[Rec(y).datoff] = dat[Rec(y).datoff]
      /\ \A q \in Procs : NewDat(q) => dat'[d[q].datoff] = dat[d[q].datoff]
      /\ dat'[Rec(o).datoff] = [val |-> arg[p].val, len |-> DatLen[arg[p].val]]
  BY <1>1, <1>4, <1>5, OverwriteFacts
<1>9. \A y \in RecOff : dat'[Rec(y).datoff].len = dat[Rec(y).datoff].len
  <2>1. dat'[Rec(o).datoff].len = dat[Rec(o).datoff].len
    BY <1>4, <1>5, <1>8 DEF Good, Sized
  <2> QED BY <1>8, <2>1
<1>10. \A q \in Procs : q # p /\ Owns(q) => d[q].idxoff # o
  BY <1>2, <1>3 DEF Good, OwnApart
<1>11. Shape(L, R)
  BY DEF Good
<1>12. RecOff' = RecOff /\ (\A x : Rec(x)' = Rec(x)) /\ (\A l : On(L, l)' = On(L, l))
  BY <1>1, <1>11, SameIdx
<1>13. Apart'
  <2>1. ~NewDat(p)'
    BY <1>1 DEF NewDat
  <2> QED BY <1>1, <1>12, <2>1, ApartFrame
<1>14. Knows(L, R, p)'
  <2>1. NotOn(L, p) /\ d[p].head = tbl[d[p].chainoff]
    BY <1>1 DEF Good, Knows, ChainOK, MissLabels, InsLabels, FfLabels
  <2>2. NotOn(L, p)'
    BY <1>1, <1>12, <2>1 DEF NotOn
  <2>3. ChainOK(L, R, p)'
    BY <1>1, <2>1, <2>2 DEF ChainOK, HitLabels
  <2>4. FreeOK(L, R, p)'
    BY <1>1, <1>6 DEF FreeOK, MayInsert
  <2>5. Free(p)'
    BY <1>1, <1>4, <1>12 DEF Free, Fits
  <2>6. dat'[d[p].datoff].val = arg[p].val
    BY <1>5, <1>8
  <2>7. OwnOK(L, p)'
    BY <1>1, <1>2, <1>4, <1>12, <2>5, <2>6 DEF OwnOK, NewDat
  <2> QED BY <2>3, <2>4, <2>7 DEF Knows
<1>15. Agrees(L)'
  <2>1. \A k \in Keys : k # arg[p].key => KeySame(L, L, k) /\ map'[k] = map[k]
    <3>1. ASSUME NEW k \in Keys PROVE Rec(o).key # k
      BY <1>5, ConstAssumption
    <3> QED BY <1>1, <1>8, <1>11, <3>1, KeysSameDat
  <2>2. InFlux(p)' /\ arg'[p].key = arg[p].key
    BY <1>1 DEF InFlux, InsLabels, FfLabels
  <2>3. PICK n : n = arg[p].key
    OBVIOUS
  <2> QED BY <1>1, <1>7, <2>1, <2>2, <2>3, AgreesFrame
<1>16. Expects(p)'
  <2>1. Expects(p)
    BY DEF Good
  <2> QED BY <1>1, <2>1 DEF Expects, DelLabels, InsLabels, NewLabels, FfLabels
<1>17. Paired'
  <2>1. Scans(p)'
    BY <1>1 DEF Scans
  <2>2. arg'[p].op = "store" => arg'[p].val \in Data[arg'[p].key]
    BY <1>1 DEF Good, Paired
  <2>3. Rec(o)'.key = Blank
    BY <1>5, <1>12
  <2>4. \A y \in RecOff' : y # o =>
            /\ y \in RecOff /\ Rec(y)'.key = Rec(y).key /\ Rec(y)'.datoff = Rec(y).datoff
            /\ dat'[Rec(y).datoff].val = dat[Rec(y).datoff].val
    BY <1>8, <1>12
  <2>5. \A y \in RecOff : y \in RecOff' /\ Rec(y)'.key = Rec(y).key /\ Rec(y)'.datoff = Rec(y).datoff
    BY <1>12
  <2>6. pc[p] \notin {"del_free", "del_idx"}
    BY <1>1
  <2> QED BY <1>1, <2>1, <2>2, <2>3, <2>4, <2>5, <2>6, PairedFrame
<1> QED BY <1>1, <1>3, <1>6, <1>8, <1>9, <1>10, <1>13, <1>14, <1>15, <1>16, <1>17, DatGood

LEMMA AppDatGood ==
  ASSUME TypeOK, PcInv, LockInv, NEW L, NEW R, Good(L, R), Alone', NEW p \in Procs, AppDat(p)
  PROVE  Good(L, R)'
<1>1. /\ Others(p) /\ pc[p] = "app_dat" /\ pc'[p] = "app_datunlock" /\ tbl' = tbl /\ idx' = idx
      /\ arg' = arg /\ rc' = rc /\ map' = map
      /\ dat' = Append(dat, [val |-> arg[p].val, len |-> DatLen[arg[p].val]])
      /\ d'[p] = [d[p] EXCEPT !.datoff = Len(dat) + 1, !.datlen = DatLen[arg[p].val]]
  BY DEF AppDat, At, Goto, SetDb, TypeOK, Others
<1>2. pc[p] \in ChainLabels /\ IsWrite(arg[p])
  <2>1. pc[p] \in StoreLabels
    BY <1>1 DEF StoreLabels
  <2> QED BY <2>1, LabelFacts, Writes
<1>3. arg[p].key \in Keys /\ d[p] \in DbType
  BY <1>2, OnChain
<1>4. /\ d'[p].datoff = Len(dat) + 1 /\ d'[p].datlen = DatLen[arg[p].val]
      /\ d'[p].chainoff = d[p].chainoff /\ d'[p].head = d[p].head
  BY <1>1, <1>3 DEF DbType
<1>5. dat \in Seq(DatType) /\ DatPos = 1 .. Len(dat) /\ Len(dat) \in Nat
  BY DEF TypeOK, DatPos
<1>6. /\ \A i \in DatPos : dat'[i] = dat[i]
      /\ dat'[Len(dat) + 1] = [val |-> arg[p].val, len |-> DatLen[arg[p].val]]
      /\ Len(dat) + 1 \notin DatPos
  BY <1>1, <1>5
<1>7. \A y \in RecOff : Rec(y).datoff \in DatPos
  BY RecTyped DEF IdxType
<1>8. \A q \in Procs : NewDat(q) => d[q].datoff \in DatPos
  <2> SUFFICES ASSUME NEW q \in Procs, NewDat(q) PROVE d[q].datoff \in DatPos
    OBVIOUS
  <2>1. d[q].datoff # 0
    BY DEF NewDat, PcInv, PcOK
  <2>2. d[q] \in DbType
    BY DEF TypeOK
  <2> QED BY <2>1, <2>2 DEF DbType
<1>9. /\ \A y \in RecOff : dat'[Rec(y).datoff] = dat[Rec(y).datoff]
      /\ \A q \in Procs : NewDat(q) => dat'[d[q].datoff] = dat[d[q].datoff]
  BY <1>6, <1>7, <1>8
<1>10. 0 \notin RecOff
  BY OffsetFacts
<1>11. Shape(L, R)
  BY DEF Good
<1>12. RecOff' = RecOff /\ (\A x : Rec(x)' = Rec(x)) /\ (\A l : On(L, l)' = On(L, l))
  BY <1>1, <1>11, SameIdx
<1>13. Apart'
  <2>1. \A q \in Procs : q # p => (NewDat(q)' <=> NewDat(q)) /\ d'[q] = d[q]
    BY <1>1 DEF NewDat, Others
  <2>2. NewDat(p)'
    BY <1>1 DEF NewDat
  <2>3. \A y \in RecOff : Rec(y).datoff # d'[p].datoff
    BY <1>4, <1>6, <1>7
  <2>4. \A q \in Procs : q # p /\ NewDat(q) => d[q].datoff # d'[p].datoff
    BY <1>4, <1>6, <1>8
  <2> QED BY <1>12, <2>1, <2>2, <2>3, <2>4 DEF Good, Apart
<1>14. Knows(L, R, p)'
  <2>1. NotOn(L, p) /\ d[p].head = tbl[d[p].chainoff]
    BY <1>1 DEF Good, Knows, ChainOK, MissLabels, InsLabels, NewLabels
  <2>2. NotOn(L, p)'
    BY <1>1, <1>4, <1>12, <2>1 DEF NotOn
  <2>3. ChainOK(L, R, p)'
    BY <1>1, <1>4, <2>1, <2>2 DEF ChainOK, HitLabels
  <2>4. FreeOK(L, R, p)'
    BY <1>1 DEF FreeOK, FfLabels
  <2>5. OwnOK(L, p)'
    BY <1>1, <1>4, <1>6 DEF OwnOK, NewDat, Owns, Reusing
  <2> QED BY <2>3, <2>4, <2>5 DEF Knows
<1>15. Agrees(L)'
  <2>1. \A k \in Keys : k # arg[p].key => KeySame(L, L, k) /\ map'[k] = map[k]
    <3>1. ASSUME NEW k \in Keys PROVE 0 \notin On(L, ChainOff(k))
      BY <1>10 DEF On
    <3> QED BY <1>1, <1>9, <1>11, <3>1, KeysSameDat
  <2>2. InFlux(p)' /\ arg'[p].key = arg[p].key
    BY <1>1 DEF InFlux, InsLabels, NewLabels
  <2>3. PICK n : n = arg[p].key
    OBVIOUS
  <2> QED BY <1>1, <1>3, <2>1, <2>2, <2>3, AgreesFrame
<1>16. Expects(p)'
  <2>1. Expects(p)
    BY DEF Good
  <2> QED BY <1>1, <2>1 DEF Expects, DelLabels, InsLabels, NewLabels, FfLabels
<1>17. Paired'
  <2>1. Scans(p)'
    BY <1>1 DEF Scans
  <2>2. arg'[p].op = "store" => arg'[p].val \in Data[arg'[p].key]
    BY <1>1 DEF Good, Paired
  <2>3. 0 \notin RecOff'
    BY <1>10, <1>12
  <2>4. \A y \in RecOff' : y # 0 =>
            /\ y \in RecOff /\ Rec(y)'.key = Rec(y).key /\ Rec(y)'.datoff = Rec(y).datoff
            /\ dat'[Rec(y).datoff].val = dat[Rec(y).datoff].val
    BY <1>9, <1>12
  <2>5. \A y \in RecOff : y \in RecOff' /\ Rec(y)'.key = Rec(y).key /\ Rec(y)'.datoff = Rec(y).datoff
    BY <1>12
  <2>6. pc[p] \notin {"del_free", "del_idx"}
    BY <1>1
  <2> QED BY <1>1, <2>1, <2>2, <2>3, <2>4, <2>5, <2>6, PairedFrame
<1>18. (~Owns(p)) /\ (~Owns(p)')
  BY <1>1 DEF Owns, Reusing
<1>19. \A q \in Procs : Owns(q) => d[q].idxoff # 0
  BY <1>10 DEF Good, Knows, OwnOK
<1> QED BY <1>1, <1>2, <1>9, <1>13, <1>14, <1>15, <1>16, <1>17, <1>18, <1>19, DatGood, ZenonT(30)

-----------------------------------------------------------------------------
(***************************************************************************)
(* Taking a record off a list, and putting one at its head.                *)
(***************************************************************************)
LEMMA OnRank ==
  ASSUME TypeOK, NEW L, NEW R, Shape(L, R), NEW l \in 0 .. NHASH, NEW x \in PtrLoc, L[x] = l
  PROVE  /\ x \in Nat /\ R[x] \in Nat /\ (x \in On(L, l) \/ x = l)
         /\ \A y \in On(L, l) : y \in RecOff /\ y \in Nat /\ R[y] \in Nat /\ y # 0 /\ L[y] = l /\ R[y] < R[l] /\ y # l
<1>1. x \in On(L, l) \/ x = l
  BY FieldsOf, ConstAssumption
<1>2. l \in Nat /\ NHASH \in Nat
  BY ConstAssumption
<1>3. \A y \in On(L, l) : /\ y \in RecOff /\ y \in Nat /\ R[y] \in Nat /\ y # 0 /\ L[y] = l /\ R[y] < R[l]
                          /\ y > NHASH
  BY Ranked
<1>4. R[l] \in Nat
  BY <1>2 DEF Shape
<1> QED BY <1>1, <1>2, <1>3, <1>4

LEMMA ShapeFacts ==
  ASSUME TypeOK, NEW L, NEW R, Shape(L, R)
  PROVE  /\ L \in [Nat -> -1 .. NHASH] /\ R \in [Nat -> Nat]
         /\ \A h \in 0 .. NHASH : L[h] = h
         /\ RecOff \subseteq Nat /\ PtrLoc \subseteq Nat
<1>1. NHASH \in Nat /\ Len(idx) \in Nat
  BY ConstAssumption, LenNat
<1>2. RecOff \subseteq Nat /\ PtrLoc \subseteq Nat
  BY <1>1 DEF RecOff, PtrLoc, FirstRec
<1> QED BY <1>2 DEF Shape

(* L2 is L without v.                                                      *)
Without(L, v, L2) ==
  /\ L2 \in [Nat -> -1 .. NHASH] /\ L2[v] = -1
  /\ \A y \in Nat : y # v => L2[y] = L[y]

LEMMA WithoutIs ==
  ASSUME TypeOK, NEW L, NEW R, Shape(L, R), NEW v \in RecOff
  PROVE  \E L2 : Without(L, v, L2)
<1>1. -1 \in -1 .. NHASH
  BY ConstAssumption
<1>2. L \in [Nat -> -1 .. NHASH] /\ v \in Nat
  BY ShapeFacts
<1>3. Without(L, v, [L EXCEPT ![v] = -1])
  BY <1>1, <1>2 DEF Without
<1> QED BY <1>3

LEMMA TakeOff ==
  ASSUME TypeOK, NEW L, NEW R, Shape(L, R), NEW l \in 0 .. NHASH, NEW x \in PtrLoc, L[x] = l,
         NEW v \in On(L, l), Follows(L, R, x, v), NEW L2, Without(L, v, L2)
  PROVE  /\ Shape(L2, R)
         /\ On(L2, l) = On(L, l) \ {v} /\ \A m \in 0 .. NHASH : m # l => On(L2, m) = On(L, m)
         /\ x # v /\ L2[x] = l /\ L2[v] = -1 /\ \A y \in Nat : y # v => L2[y] = L[y]
         /\ \A w : Follows(L, R, v, w) => Follows(L2, R, x, w)
         /\ \A z \in PtrLoc : \A u : L[z] = l /\ z # x /\ z # v /\ Follows(L, R, z, u) => Follows(L2, R, z, u)
<1>1. /\ x \in Nat /\ R[x] \in Nat /\ (x \in On(L, l) \/ x = l)
      /\ \A y \in On(L, l) : y \in RecOff /\ y \in Nat /\ R[y] \in Nat /\ y # 0 /\ L[y] = l /\ R[y] < R[l] /\ y # l
  BY OnRank
<1>2. NHASH \in Nat /\ v \in Nat /\ v > NHASH /\ Len(idx) \in Nat /\ l \in Nat
  BY Ranked, ConstAssumption, LenNat
<1>3. v # 0 /\ R[v] < R[x] /\ R[v] \in Nat /\ L[v] = l /\ v \in RecOff
  BY <1>1, FollowsOn
<1>4. x # v
  BY <1>1, <1>3
<1>0. /\ L \in [Nat -> -1 .. NHASH] /\ R \in [Nat -> Nat]
      /\ \A h \in 0 .. NHASH : L[h] = h
      /\ RecOff \subseteq Nat /\ PtrLoc \subseteq Nat
  BY ShapeFacts
<1>5. L2[v] = -1 /\ (\A y \in Nat : y # v => L2[y] = L[y]) /\ L2 \in [Nat -> -1 .. NHASH]
  BY DEF Without
<1>6. On(L2, l) = On(L, l) \ {v} /\ \A m \in 0 .. NHASH : m # l => On(L2, m) = On(L, m)
  <2>3. \A y \in RecOff : y # v => L2[y] = L[y]
    BY <1>0, <1>5
  <2>4. L2[v] = -1 /\ L[v] = l /\ v \in RecOff
    BY <1>3, <1>5
  <2>5. l # -1
    BY <1>2
  <2>1. On(L2, l) = On(L, l) \ {v}
    BY <2>3, <2>4, <2>5 DEF On
  <2>2. ASSUME NEW m \in 0 .. NHASH, m # l PROVE On(L2, m) = On(L, m)
    <3>1. m # -1
      BY <1>2
    <3> QED BY <2>2, <2>3, <2>4, <3>1 DEF On
  <2> QED BY <2>1, <2>2
<1>7. Shape(L2, R)
  <2>1. \A h \in 0 .. NHASH : L2[h] = h
    <3> SUFFICES ASSUME NEW h \in 0 .. NHASH PROVE L2[h] = h
      OBVIOUS
    <3>1. h \in Nat /\ h # v
      BY <1>2
    <3> QED BY <1>0, <1>5, <3>1
  <2>2. \A y \in Nat : y > NHASH + Len(idx) => L2[y] = -1
    BY <1>5 DEF Shape
  <2>3. \A y \in RecOff : L2[y] # -1 => L2[y] = L[y]
    BY <1>0, <1>5
  <2>4. \A y \in RecOff : L2[y] # -1 => y <= PTR_MAX /\ R[y] < R[L2[y]]
    BY <2>3 DEF Shape
  <2>5. ASSUME NEW y \in RecOff, NEW z \in RecOff, L2[y] # -1, L2[y] = L2[z], R[y] = R[z] PROVE y = z
    <3>1. L[y] # -1 /\ L[y] = L[z]
      BY <2>3, <2>5
    <3> QED BY <2>5, <3>1 DEF Shape
  <2> QED BY <1>5, <2>1, <2>2, <2>4, <2>5 DEF Shape
<1>8. \A y \in On(L, l) : R[y] = R[v] => y = v
  BY RankedApart
<1>9. ASSUME NEW w, Follows(L, R, v, w) PROVE Follows(L2, R, x, w)
  <2>1. \A y \in On(L, l) : y # v /\ R[y] < R[x] => R[y] < R[v]
    <3> SUFFICES ASSUME NEW y \in On(L, l), y # v, R[y] < R[x] PROVE R[y] < R[v]
      OBVIOUS
    <3>1. R[y] <= R[v]
      BY <1>1, <1>3 DEF Follows
    <3> QED BY <1>1, <1>3, <1>8, <3>1
  <2>2. CASE w = 0
    <3>1. \A y \in On(L, l) : R[y] >= R[v]
      BY <1>3, <1>9, <2>2, OffsetFacts DEF Follows, On
    <3>2. ASSUME NEW y \in On(L2, l) PROVE R[y] >= R[x]
      <4>1. y \in On(L, l) /\ y # v /\ R[y] \in Nat
        BY <1>1, <1>6
      <4> QED BY <1>1, <1>3, <2>1, <3>1, <4>1
    <3>3. L2[x] = l
      BY <1>1, <1>4, <1>5
    <3> QED BY <2>2, <3>2, <3>3 DEF Follows, On
  <2>3. CASE w # 0
    <3>1. w \in On(L, l) /\ R[w] < R[v] /\ \A y \in On(L, l) : R[y] < R[v] => R[y] <= R[w]
      BY <1>3, <1>9, <2>3 DEF Follows, On
    <3>2. w \in On(L2, l) /\ R[w] < R[x]
      <4>1. R[w] \in Nat /\ w # v
        BY <1>1, <1>3, <3>1
      <4>2. w \in On(L2, l)
        BY <1>6, <3>1, <4>1
      <4>3. R[w] < R[x]
        BY <1>1, <1>3, <3>1, <4>1
      <4> QED BY <4>2, <4>3
    <3>3. ASSUME NEW y \in On(L2, l), R[y] < R[x] PROVE R[y] <= R[w]
      <4>1. y \in On(L, l) /\ y # v
        BY <1>6
      <4> QED BY <2>1, <3>1, <3>3, <4>1
    <3>4. L2[x] = l
      BY <1>1, <1>4, <1>5
    <3> QED BY <3>2, <3>3, <3>4 DEF Follows, On
  <2> QED BY <2>2, <2>3
<1>10. ASSUME NEW z \in PtrLoc, NEW u, L[z] = l, z # x, z # v, Follows(L, R, z, u)
       PROVE  Follows(L2, R, z, u)
  <2>1. R[z] \in Nat /\ (z \in On(L, l) \/ z = l)
    BY <1>10, OnRank
  <2>2. R[z] # R[x]
    <3>1. CASE z = l \/ x = l
      BY <1>1, <1>10, <2>1, <3>1
    <3>2. CASE z # l /\ x # l
      BY <1>1, <1>10, <2>1, <3>2, RankedApart
    <3> QED BY <3>1, <3>2
  <2>3. u # v
    <3> SUFFICES ASSUME u = v PROVE FALSE
      OBVIOUS
    <3>1. R[v] < R[z] /\ \A y \in On(L, l) : R[y] < R[z] => R[y] <= R[v]
      BY <1>3, <1>10 DEF Follows, On
    <3>2. \A y \in On(L, l) : R[y] < R[x] => R[y] <= R[v]
      BY <1>3 DEF Follows, On
    <3>3. CASE R[z] < R[x]
      <4>1. z \in On(L, l)
        BY <1>1, <2>1, <3>3
      <4> QED BY <1>3, <2>1, <3>1, <3>2, <3>3, <4>1
    <3>4. CASE R[x] < R[z]
      <4>1. x \in On(L, l)
        BY <1>1, <2>1, <3>4
      <4> QED BY <1>1, <1>3, <3>1, <3>4, <4>1
    <3> QED BY <1>1, <2>1, <2>2, <3>3, <3>4
  <2>4. L2[z] = l
    BY <1>0, <1>5, <1>10
  <2>5. CASE u = 0
    <3>1. \A y \in On(L, l) : R[y] >= R[z]
      BY <1>10, <2>5, OffsetFacts DEF Follows, On
    <3> QED BY <1>6, <2>4, <2>5, <3>1 DEF Follows, On
  <2>6. CASE u # 0
    <3>1. u \in On(L, l) /\ R[u] < R[z] /\ \A y \in On(L, l) : R[y] < R[z] => R[y] <= R[u]
      BY <1>10, <2>6 DEF Follows, On
    <3>2. u \in On(L2, l)
      BY <1>6, <2>3, <3>1
    <3> QED BY <1>6, <2>4, <3>1, <3>2 DEF Follows, On
  <2> QED BY <2>5, <2>6
<1> QED BY <1>1, <1>4, <1>5, <1>6, <1>7, <1>9, <1>10

(* L2, R2 are L, R with o at the head of list l.                           *)
WithHead(L, R, l, o, L2, R2) ==
  /\ L2 \in [Nat -> -1 .. NHASH] /\ L2[o] = l
  /\ \A y \in Nat : y # o => L2[y] = L[y]
  /\ R2 \in [Nat -> Nat] /\ R2[o] = R[l] /\ R2[l] = R[l] + 1
  /\ \A y \in Nat : y # o /\ y # l => R2[y] = R[y]

LEMMA WithHeadIs ==
  ASSUME TypeOK, NEW L, NEW R, Shape(L, R), NEW l \in 0 .. NHASH, NEW o \in RecOff
  PROVE  \E L2, R2 : WithHead(L, R, l, o, L2, R2)
<1>1. NHASH \in Nat
  BY ConstAssumption
<1>2. l \in -1 .. NHASH /\ l \in Nat /\ o # l
  BY <1>1, LenNat DEF RecOff, FirstRec
<1>3. L \in [Nat -> -1 .. NHASH] /\ R \in [Nat -> Nat] /\ o \in Nat
  BY ShapeFacts
<1>4. R[l] \in Nat /\ R[l] + 1 \in Nat
  BY <1>2, <1>3
<1>5. WithHead(L, R, l, o, [L EXCEPT ![o] = l], [R EXCEPT ![o] = R[l], ![l] = R[l] + 1])
  BY <1>2, <1>3, <1>4 DEF WithHead
<1> QED BY <1>5

LEMMA PutAtHead ==
  ASSUME TypeOK, NEW L, NEW R, Shape(L, R), NEW l \in 0 .. NHASH, NEW o \in RecOff, L[o] = -1, o <= PTR_MAX,
         NEW h, Follows(L, R, l, h),
         NEW L2, NEW R2, WithHead(L, R, l, o, L2, R2)
  PROVE  /\ Shape(L2, R2)
         /\ On(L2, l) = On(L, l) \cup {o} /\ o \notin On(L, l)
         /\ \A m \in 0 .. NHASH : m # l => On(L2, m) = On(L, m)
         /\ L2[o] = l /\ o # l /\ \A y \in Nat : y # o => L2[y] = L[y]
         /\ \A y \in Nat : y # o /\ y # l => R2[y] = R[y]
         /\ Follows(L2, R2, l, o) /\ Follows(L2, R2, o, h)
         /\ \A z \in PtrLoc : \A u : L[z] = l /\ z # l /\ Follows(L, R, z, u) => Follows(L2, R2, z, u)
<1>0. NHASH \in Nat /\ Len(idx) \in Nat
  BY ConstAssumption, LenNat
<1>1. NHASH \in Nat /\ l \in Nat /\ l \in PtrLoc /\ L[l] = l /\ l # -1
  <2>1. l \in Nat /\ l \in PtrLoc /\ l # -1
    BY <1>0 DEF PtrLoc
  <2> QED BY <1>0, <2>1 DEF Shape
<1>13. /\ L \in [Nat -> -1 .. NHASH] /\ R \in [Nat -> Nat]
       /\ RecOff \subseteq Nat /\ PtrLoc \subseteq Nat
       /\ \A m \in 0 .. NHASH : L[m] = m
  BY ShapeFacts
<1>2. /\ R[l] \in Nat
      /\ \A y \in On(L, l) : y \in RecOff /\ y \in Nat /\ R[y] \in Nat /\ y # 0 /\ L[y] = l /\ R[y] < R[l] /\ y # l
  BY <1>1, OnRank
<1>3. o \in Nat /\ o > NHASH /\ o # l /\ o <= NHASH + Len(idx)
  BY <1>0, <1>1 DEF RecOff, FirstRec
<1>4. /\ L2[o] = l /\ (\A y \in Nat : y # o => L2[y] = L[y]) /\ L2 \in [Nat -> -1 .. NHASH]
  BY DEF WithHead
<1>5. /\ R2[o] = R[l] /\ R2[l] = R[l] + 1 /\ (\A y \in Nat : y # o /\ y # l => R2[y] = R[y])
      /\ R2 \in [Nat -> Nat]
  BY DEF WithHead
<1>6. o \notin On(L, l)
  BY <1>1 DEF On
<1>7. On(L2, l) = On(L, l) \cup {o} /\ \A m \in 0 .. NHASH : m # l => On(L2, m) = On(L, m)
  <2>1. On(L2, l) = On(L, l) \cup {o}
    BY <1>4, <1>13 DEF On
  <2>3. \A y \in RecOff : y # o => L2[y] = L[y]
    BY <1>4, <1>13
  <2>2. ASSUME NEW m \in 0 .. NHASH, m # l PROVE On(L2, m) = On(L, m)
    <3>1. m # -1
      BY <1>1
    <3> QED BY <1>4, <2>2, <2>3, <3>1 DEF On
  <2> QED BY <2>1, <2>2
<1>8. Shape(L2, R2)
  <2>1. \A x \in 0 .. NHASH : L2[x] = x
    <3> SUFFICES ASSUME NEW x \in 0 .. NHASH PROVE L2[x] = x
      OBVIOUS
    <3>1. x \in Nat /\ x # o
      BY <1>1, <1>3
    <3> QED BY <1>4, <1>13, <3>1
  <2>2. \A x \in Nat : x > NHASH + Len(idx) => L2[x] = -1
    BY <1>0, <1>3, <1>4 DEF Shape
  <2>3. \A y \in RecOff : y \in Nat /\ y > NHASH /\ y # l
    BY <1>0, <1>1 DEF RecOff, FirstRec
  <2>4. ASSUME NEW y \in RecOff, L2[y] # -1 PROVE y <= PTR_MAX /\ R2[y] < R2[L2[y]]
    <3>1. CASE y = o
      BY <1>2, <1>4, <1>5, <3>1
    <3>2. CASE y # o
      <4>1. L2[y] = L[y] /\ R2[y] = R[y] /\ y <= PTR_MAX /\ R[y] < R[L[y]] /\ R[y] \in Nat
        BY <1>4, <1>5, <2>3, <2>4, <3>2 DEF Shape
      <4>2. L[y] # o
        <5>1. L[y] \in -1 .. NHASH
          BY <2>3 DEF Shape
        <5> QED BY <1>1, <1>3, <5>1
      <4>3. CASE L[y] = l
        BY <1>2, <1>5, <4>1, <4>3
      <4>4. CASE L[y] # l
        <5>1. L[y] \in Nat
          <6>1. L[y] \in -1 .. NHASH /\ L[y] # -1
            BY <1>13, <2>3, <2>4, <4>1
          <6> QED BY <1>1, <6>1
        <5> QED BY <1>5, <4>1, <4>2, <4>4, <5>1
      <4> QED BY <4>3, <4>4
    <3> QED BY <3>1, <3>2
  <2>5. ASSUME NEW y \in RecOff, NEW z \in RecOff, L2[y] # -1, L2[y] = L2[z], R2[y] = R2[z] PROVE y = z
    <3>1. ASSUME NEW a \in RecOff, a # o, L2[a] = l PROVE R2[a] # R2[o]
      <4>1. a \in On(L, l) /\ R2[a] = R[a]
        BY <1>4, <1>5, <2>3, <3>1 DEF On
      <4> QED BY <1>2, <1>5, <4>1
    <3>2. CASE y = o \/ z = o
      BY <1>4, <2>5, <3>1, <3>2
    <3>3. CASE y # o /\ z # o
      <4>1. L[y] # -1 /\ L[y] = L[z] /\ R[y] = R[z]
        BY <1>4, <1>5, <2>3, <2>5, <3>3
      <4> QED BY <4>1 DEF Shape
    <3> QED BY <3>2, <3>3
  <2> QED BY <1>4, <1>5, <2>1, <2>2, <2>4, <2>5 DEF Shape
<1>9. \A y \in On(L, l) : R2[y] = R[y] /\ y # o
  BY <1>2, <1>5, <1>6
<1>15. R2[o] = R[l] /\ R2[l] = R[l] + 1 /\ R[l] \in Nat
  BY <1>2, <1>5
<1>14. \A y \in On(L2, l) : y = o \/ (y \in On(L, l) /\ R2[y] = R[y] /\ R[y] \in Nat /\ R[y] < R[l])
  BY <1>2, <1>7, <1>9
<1>10. Follows(L2, R2, l, o)
  <2>1. o \in On(L2, l) /\ R2[o] < R2[l] /\ \A y \in On(L2, l) : R2[y] <= R2[o]
    <3>1. o \in On(L2, l)
      BY <1>7
    <3>2. R2[o] < R2[l]
      BY <1>15
    <3>3. ASSUME NEW y \in On(L2, l) PROVE R2[y] <= R2[o]
      <4>1. CASE y = o
        BY <1>15, <4>1
      <4>2. CASE y # o
        <5>1. R2[y] = R[y] /\ R[y] \in Nat /\ R[y] < R[l]
          BY <1>14, <4>2
        <5> QED BY <1>15, <5>1
      <4> QED BY <4>1, <4>2
    <3> QED BY <3>1, <3>2, <3>3
  <2> QED BY <1>1, <1>3, <1>4, <2>1 DEF Follows, On
<1>11. Follows(L2, R2, o, h)
  <2>1. CASE h = 0
    <3>1. On(L, l) = {}
      <4>1. \A y \in On(L, l) : R[y] >= R[l]
        BY <1>1, <2>1, OffsetFacts DEF Follows, On
      <4> QED BY <1>2, <4>1
    <3>2. \A y \in On(L2, l) : R2[y] >= R2[o]
      BY <1>2, <1>5, <1>7, <3>1
    <3> QED BY <1>4, <2>1, <3>2 DEF Follows, On
  <2>2. CASE h # 0
    <3>1. h \in On(L, l) /\ R[h] < R[l] /\ \A y \in On(L, l) : R[y] < R[l] => R[y] <= R[h]
      BY <1>1, <2>2 DEF Follows, On
    <3>2. h \in On(L2, l) /\ R2[h] = R[h]
      BY <1>7, <1>9, <3>1
    <3>3. R2[h] < R2[o] /\ \A y \in On(L2, l) : R2[y] < R2[o] => R2[y] <= R2[h]
      <4>1. R[h] \in Nat /\ R2[h] < R2[o]
        BY <1>2, <1>15, <3>1, <3>2
      <4>2. ASSUME NEW y \in On(L2, l), R2[y] < R2[o] PROVE R2[y] <= R2[h]
        <5>1. y # o
          BY <1>15, <4>2
        <5>2. y \in On(L, l) /\ R2[y] = R[y] /\ R[y] < R[l]
          BY <1>14, <5>1
        <5> QED BY <3>1, <3>2, <5>2
      <4> QED BY <4>1, <4>2
    <3> QED BY <1>4, <3>2, <3>3 DEF Follows, On
  <2> QED BY <2>1, <2>2
<1>12. ASSUME NEW z \in PtrLoc, NEW u, L[z] = l, z # l, Follows(L, R, z, u) PROVE Follows(L2, R2, z, u)
  <2>1. z \in On(L, l) /\ R[z] \in Nat /\ R2[z] = R[z] /\ z # o /\ L2[z] = l /\ R[z] < R[l]
    <3>1. z \in On(L, l)
      BY <1>12, OnRank
    <3> QED BY <1>2, <1>4, <1>9, <1>12, <3>1
  <2>2. CASE u = 0
    <3>1. \A y \in On(L, l) : R[y] >= R[z]
      BY <1>12, <2>2, OffsetFacts DEF Follows, On
    <3>2. \A y \in On(L2, l) : R2[y] >= R2[z]
      BY <1>2, <1>5, <1>14, <2>1, <3>1
    <3> QED BY <2>1, <2>2, <3>2 DEF Follows, On
  <2>3. CASE u # 0
    <3>1. u \in On(L, l) /\ R[u] < R[z] /\ \A y \in On(L, l) : R[y] < R[z] => R[y] <= R[u]
      BY <1>12, <2>3 DEF Follows, On
    <3>2. u \in On(L2, l) /\ R2[u] = R[u]
      BY <1>7, <1>9, <3>1
    <3>3. R2[u] < R2[z] /\ \A y \in On(L2, l) : R2[y] < R2[z] => R2[y] <= R2[u]
      <4>1. R[u] \in Nat
        BY <1>2, <3>1
      <4>2. ASSUME NEW y \in On(L2, l), R2[y] < R2[z] PROVE R2[y] <= R2[u]
        <5>1. y # o
          BY <1>15, <2>1, <4>2
        <5> QED BY <1>14, <2>1, <3>1, <3>2, <4>2, <5>1
      <4> QED BY <2>1, <3>1, <3>2, <4>2
    <3> QED BY <2>1, <3>2, <3>3 DEF Follows, On
  <2> QED BY <2>2, <2>3
<1> QED BY <1>3, <1>4, <1>5, <1>6, <1>7, <1>8, <1>10, <1>11, <1>12

(***************************************************************************)
(* Steps that change the index file.                                       *)
(***************************************************************************)
LEMMA SameOff ==
  ASSUME RecOff' = RecOff, NEW L, NEW R
  PROVE  /\ \A x, v : Follows(L, R, x, v)' <=> Follows(L, R, x, v)
         /\ \A l : On(L, l)' = On(L, l)
         /\ Len(idx') = Len(idx) => (Shape(L, R)' <=> Shape(L, R))
<1>1. \A x, v : Follows(L, R, x, v)' <=> Follows(L, R, x, v)
  BY DEF Follows
<1>2. \A l : On(L, l)' = On(L, l)
  BY DEF On
<1>3. Len(idx') = Len(idx) => (Shape(L, R)' <=> Shape(L, R))
  BY DEF Shape
<1> QED BY <1>1, <1>2, <1>3

LEMMA LinkedAll ==
  ASSUME TypeOK', NEW L, NEW R, Shape(L, R)', \A l \in 0 .. NHASH : LinkedOn(L, R, l)'
  PROVE  Linked(L, R)'
<1>1. NHASH \in Nat /\ Len(idx') \in Nat
  BY ConstAssumption DEF TypeOK
<1>2. \A x \in PtrLoc' : L[x] \in -1 .. NHASH
  BY <1>1 DEF Shape, PtrLoc
<1>3. \A x \in PtrLoc' : L[x] # -1 => L[x] \in 0 .. NHASH
  BY <1>1, <1>2
<1> QED BY <1>3 DEF Linked, LinkedOn

LEMMA IdxGood ==
  ASSUME TypeOK, PcInv, LockInv, NEW L, NEW R, NEW L2, NEW R2, Good(L, R), Alone', NEW p \in Procs, Others(p),
         dat' = dat, pc[p] \in ChainLabels, IsWrite(arg[p]),
         \A l \in 1 .. NHASH : l # d[p].chainoff => SameList(L, R, L2, R2, l),
         \A q \in Procs : q # p /\ Owns(q) =>
            \A o : o = d[q].idxoff => o \in RecOff' /\ L2[o] = -1 /\ Rec(o)' = Rec(o),
         \A q \in Procs : q # p /\ pc[q] \in {"del_idx", "del_head"} => tbl'[0] = tbl[0],
         \A k \in Keys : k # arg[p].key => map'[k] = map[k],
         Shape(L2, R2)', Linked(L2, R2)', Sorted(L2)', Apart', Sized', OwnApart', Kept(L2)',
         Knows(L2, R2, p)', Expects(p)', Agrees(L2)', Paired'
  PROVE  Good(L2, R2)'
<1>1. \A q \in Procs : q # p => Knows(L2, R2, q)'
  <2>1. ASSUME NEW q \in Procs, q # p PROVE OwnSame(L2, q)
    <3>1. d'[q] = d[q]
      BY <2>1 DEF Others
    <3>2. PICK o : o = d[q].idxoff
      OBVIOUS
    <3>3. Owns(q) => o \in RecOff' /\ L2[o] = -1 /\ Rec(o)' = Rec(o)
      BY <2>1, <3>2
    <3>4. Rec(d[q].idxoff)' = Rec(o)' /\ Rec(d[q].idxoff) = Rec(o)
      BY <3>1, <3>2
    <3> QED BY <3>2, <3>3, <3>4 DEF OwnSame
  <2> QED BY <2>1, OthersKnow
<1>2. \A q \in Procs : q # p => Expects(q)'
  BY OthersExpect
<1> QED BY <1>1, <1>2 DEF Good

(* _db_writeptr.                                                           *)
LEMMA WritePtr ==
  ASSUME TypeOK, NEW p \in Procs, NEW x \in PtrLoc, NEW v, _db_writeptr(p, x, v)
  PROVE  /\ dat' = dat /\ Len(idx') = Len(idx) /\ RecOff' = RecOff /\ PtrLoc' = PtrLoc
         /\ \A y \in RecOff : y # x => Rec(y)' = Rec(y)
         /\ \A y \in RecOff : /\ Rec(y)'.key = Rec(y).key /\ Rec(y)'.klen = Rec(y).klen
                              /\ Rec(y)'.datoff = Rec(y).datoff /\ Rec(y)'.datlen = Rec(y).datlen
         /\ \A l \in 0 .. NHASH : l # x => tbl'[l] = tbl[l]
         /\ x < FirstRec => tbl'[x] = v /\ \A y \in RecOff : Rec(y)' = Rec(y)
         /\ Field(x)' = v /\ \A z \in PtrLoc : z # x => Field(z)' = Field(z)
<1>1. NHASH \in Nat /\ Len(idx) \in Nat /\ x \in Nat /\ idx \in Seq(IdxType) /\ tbl \in [0 .. NHASH -> Ptr]
  BY ConstAssumption, LenNat DEF TypeOK, PtrLoc
<1>2. \A y \in RecOff : y - NHASH \in 1 .. Len(idx) /\ y \in Nat /\ y >= FirstRec
  BY <1>1 DEF RecOff, FirstRec
<1>3. \A z \in PtrLoc : z \in Nat /\ (z < FirstRec => z \in 0 .. NHASH) /\ (~(z < FirstRec) => z \in RecOff)
  BY <1>1 DEF PtrLoc, FirstRec, RecOff
<1>4. dat' = dat
  BY DEF _db_writeptr
<1>5. CASE x < FirstRec
  <2>1. tbl' = [tbl EXCEPT ![x] = v] /\ idx' = idx
    BY <1>5 DEF _db_writeptr
  <2>2. x \in 0 .. NHASH
    BY <1>3, <1>5
  <2>3. tbl'[x] = v /\ \A l \in 0 .. NHASH : l # x => tbl'[l] = tbl[l]
    BY <1>1, <2>1, <2>2
  <2>4. RecOff' = RecOff /\ PtrLoc' = PtrLoc /\ \A y : Rec(y)' = Rec(y)
    BY <2>1 DEF RecOff, PtrLoc, Rec
  <2>5. Field(x)' = v
    BY <1>5, <2>3 DEF Field
  <2>6. ASSUME NEW z \in PtrLoc, z # x PROVE Field(z)' = Field(z)
    <3>1. CASE z < FirstRec
      BY <1>3, <2>3, <2>6, <3>1 DEF Field
    <3>2. CASE ~(z < FirstRec)
      BY <2>4, <3>2 DEF Field
    <3> QED BY <3>1, <3>2
  <2> QED BY <1>4, <1>5, <2>1, <2>3, <2>4, <2>5, <2>6
<1>6. CASE ~(x < FirstRec)
  <2>1. tbl' = tbl /\ idx' = [idx EXCEPT ![x - NHASH] = [@ EXCEPT !.ptr = v]]
    BY <1>6 DEF _db_writeptr
  <2>2. x \in RecOff /\ x - NHASH \in 1 .. Len(idx)
    BY <1>2, <1>3, <1>6
  <2>3. Len(idx') = Len(idx)
    BY <1>1, <2>1, <2>2
  <2>4. RecOff' = RecOff /\ PtrLoc' = PtrLoc
    BY <2>3 DEF RecOff, PtrLoc
  <2>5. idx'[x - NHASH] = [idx[x - NHASH] EXCEPT !.ptr = v]
    BY <1>1, <2>1, <2>2
  <2>6. \A i \in 1 .. Len(idx) : i # x - NHASH => idx'[i] = idx[i]
    BY <1>1, <2>1, <2>2
  <2>7. Rec(x)' = [Rec(x) EXCEPT !.ptr = v]
    BY <2>5 DEF Rec
  <2>8. ASSUME NEW y \in RecOff, y # x PROVE Rec(y)' = Rec(y)
    <3>1. y - NHASH \in 1 .. Len(idx) /\ y - NHASH # x - NHASH
      BY <1>1, <1>2, <2>2, <2>8
    <3> QED BY <2>6, <3>1 DEF Rec
  <2>9. Rec(x) \in IdxType
    BY <2>2, RecTyped
  <2>10. /\ Rec(x)'.ptr = v /\ Rec(x)'.key = Rec(x).key /\ Rec(x)'.klen = Rec(x).klen
         /\ Rec(x)'.datoff = Rec(x).datoff /\ Rec(x)'.datlen = Rec(x).datlen
    BY <2>7, <2>9 DEF IdxType
  <2>11. Field(x)' = v
    BY <1>6, <2>10 DEF Field
  <2>12. ASSUME NEW z \in PtrLoc, z # x PROVE Field(z)' = Field(z)
    <3>1. CASE z < FirstRec
      BY <2>1, <3>1 DEF Field
    <3>2. CASE ~(z < FirstRec)
      BY <1>3, <2>8, <2>12, <3>2 DEF Field
    <3> QED BY <3>1, <3>2
  <2>13. \A y \in RecOff : /\ Rec(y)'.key = Rec(y).key /\ Rec(y)'.klen = Rec(y).klen
                           /\ Rec(y)'.datoff = Rec(y).datoff /\ Rec(y)'.datlen = Rec(y).datlen
    BY <2>8, <2>10
  <2> QED BY <1>4, <1>6, <2>1, <2>3, <2>4, <2>8, <2>11, <2>12, <2>13
<1> QED BY <1>5, <1>6

(* _db_writeidx over record o.                                             *)
LEMMA WriteIdx ==
  ASSUME TypeOK, NEW p \in Procs, NEW o \in RecOff, o = d[p].idxoff, NEW k, NEW klen, NEW ptr,
         OverwriteIdx(p, k, klen, ptr), tbl' = tbl
  PROVE  /\ Len(idx') = Len(idx) /\ RecOff' = RecOff /\ PtrLoc' = PtrLoc
         /\ \A y \in RecOff : y # o => Rec(y)' = Rec(y)
         /\ Rec(o)' = [ptr |-> ptr, key |-> k, klen |-> klen, datoff |-> d[p].datoff, datlen |-> d[p].datlen]
         /\ \A z \in PtrLoc : z # o => Field(z)' = Field(z)
<1>1. NHASH \in Nat /\ Len(idx) \in Nat /\ idx \in Seq(IdxType)
  BY ConstAssumption, LenNat DEF TypeOK
<1>2. \A y \in RecOff : y - NHASH \in 1 .. Len(idx) /\ y \in Nat
  BY <1>1 DEF RecOff, FirstRec
<1>3. \A z \in PtrLoc : ~(z < FirstRec) => z \in RecOff
  BY <1>1 DEF PtrLoc, FirstRec, RecOff
<1> DEFINE r == [ptr |-> ptr, key |-> k, klen |-> klen, datoff |-> d[p].datoff, datlen |-> d[p].datlen]
<1>4. idx' = [idx EXCEPT ![o - NHASH] = r]
  BY DEF OverwriteIdx
<1> HIDE DEF r
<1>5. Len(idx') = Len(idx) /\ idx'[o - NHASH] = r /\ \A i \in 1 .. Len(idx) : i # o - NHASH => idx'[i] = idx[i]
  BY <1>1, <1>2, <1>4
<1>6. RecOff' = RecOff /\ PtrLoc' = PtrLoc
  BY <1>5 DEF RecOff, PtrLoc
<1>7. Rec(o)' = r
  BY <1>5 DEF Rec
<1>8. ASSUME NEW y \in RecOff, y # o PROVE Rec(y)' = Rec(y)
  <2>1. y - NHASH \in 1 .. Len(idx) /\ y - NHASH # o - NHASH
    BY <1>1, <1>2, <1>8
  <2> QED BY <1>5, <2>1 DEF Rec
<1>9. ASSUME NEW z \in PtrLoc, z # o PROVE Field(z)' = Field(z)
  <2>1. CASE z < FirstRec
    BY <2>1 DEF Field
  <2>2. CASE ~(z < FirstRec)
    BY <1>3, <1>8, <1>9, <2>2 DEF Field
  <2> QED BY <2>1, <2>2
<1> QED BY <1>5, <1>6, <1>7, <1>8, <1>9 DEF r

(* A key on a chain that a step leaves alone, and a key on a chain where   *)
(* only records of other keys come and go.                                 *)
LEMMA KeyOther ==
  ASSUME NEW L, NEW R, NEW L2, NEW R2, NEW k, dat' = dat, SameList(L, R, L2, R2, ChainOff(k))
  PROVE  KeySame(L, L2, k)
<1>1. PICK c : c = ChainOff(k)
  OBVIOUS
<1>2. ChainOff(k)' = c
  BY <1>1 DEF ChainOff
<1>3. On(L2, c)' = On(L, c) /\ \A y \in On(L, c) : Rec(y)' = Rec(y)
  BY <1>1 DEF SameList
<1>4. On(L2, ChainOff(k))' = On(L, ChainOff(k))
  BY <1>1, <1>2, <1>3
<1> QED BY <1>1, <1>3, <1>4 DEF KeySame

LEMMA KeyOwn ==
  ASSUME NEW L, NEW L2, NEW k, NEW c, c = ChainOff(k), dat' = dat, NEW o,
         \A y : y # o => (y \in On(L2, c)' <=> y \in On(L, c)),
         \A y \in On(L, c) : y # o => Rec(y)'.key = Rec(y).key /\ Rec(y)'.datoff = Rec(y).datoff,
         o \in On(L, c) => Rec(o).key # k,
         o \in On(L2, c)' => Rec(o)'.key # k
  PROVE  KeySame(L, L2, k)
<1>1. ChainOff(k)' = c
  BY DEF ChainOff
<1>2. On(L2, ChainOff(k))' = On(L2, c)'
  BY <1>1
<1>3. ASSUME NEW y PROVE (y \in On(L2, ChainOff(k)) /\ Rec(y).key = k)' <=> y \in On(L, ChainOff(k)) /\ Rec(y).key = k
  <2>1. CASE y = o
    BY <1>2, <2>1
  <2>2. CASE y # o
    BY <1>2, <2>2
  <2> QED BY <2>1, <2>2
<1>4. ASSUME NEW y, y \in On(L, ChainOff(k)), Rec(y).key = k
      PROVE  Rec(y)'.datoff = Rec(y).datoff /\ dat'[Rec(y).datoff].val = dat[Rec(y).datoff].val
  <2>1. y # o
    BY <1>4
  <2> QED BY <1>4, <2>1
<1> QED BY <1>3, <1>4 DEF KeySame

(* Records keep all but their pointers.                                    *)
LEMMA SizedFrame ==
  ASSUME Sized, dat' = dat, RecOff' = RecOff, NEW o,
         \A y \in RecOff : y # o => /\ Rec(y)'.key = Rec(y).key /\ Rec(y)'.klen = Rec(y).klen
                                    /\ Rec(y)'.datoff = Rec(y).datoff /\ Rec(y)'.datlen = Rec(y).datlen,
         o \in RecOff => /\ Rec(o)'.datoff = Rec(o).datoff /\ Rec(o)'.datlen = Rec(o).datlen
                         /\ Rec(o)'.key \in Keys => Rec(o)'.klen = KeyLen[Rec(o)'.key]
  PROVE  Sized'
<1> SUFFICES ASSUME NEW y \in RecOff'
             PROVE  /\ Rec(y)'.datlen = dat'[Rec(y)'.datoff].len
                    /\ Rec(y)'.key \in Keys => Rec(y)'.klen = KeyLen[Rec(y)'.key]
  BY DEF Sized
<1>1. Rec(y).datlen = dat[Rec(y).datoff].len /\ (Rec(y).key \in Keys => Rec(y).klen = KeyLen[Rec(y).key])
  BY DEF Sized
<1>2. CASE y = o
  BY <1>1, <1>2
<1>3. CASE y # o
  BY <1>1, <1>3
<1> QED BY <1>2, <1>3

LEMMA FreeUnlinkGood ==
  ASSUME TypeOK, TypeOK', PcInv, LockInv, NEW L, NEW R, Good(L, R), Alone', NEW p \in Procs, FreeUnlink(p)
  PROVE  \E L2, R2 : Good(L2, R2)'
<1>1. /\ Others(p) /\ pc[p] = "ff_unlink" /\ pc'[p] = "ff_unlock"
      /\ arg' = arg /\ d' = d /\ rc' = rc /\ map' = map
      /\ _db_writeptr(p, d[p].saveoff, d[p].ptrval)
  BY DEF FreeUnlink, At, Goto, TypeOK, Others
<1>2. PICK x, v, w, c : x = d[p].saveoff /\ v = d[p].idxoff /\ w = d[p].ptrval /\ c = d[p].chainoff
  OBVIOUS
<1>3. /\ L[x] = 0 /\ Follows(L, R, x, v) /\ w = Rec(v).ptr /\ d[p].offset # 0 /\ Free(p)
      /\ MayInsert(arg[p])
  BY <1>1, <1>2 DEF Good, Knows, FreeOK, FfLabels
<1>4. /\ pc[p] \in ChainLabels /\ IsWrite(arg[p]) /\ v # 0
      /\ c \in 1 .. NHASH /\ x \in PtrLoc /\ c = ChainOff(arg[p].key) /\ arg[p].key \in Keys
  <2>1. pc[p] \in StoreLabels /\ pc[p] \in NeedsRec
    BY <1>1 DEF StoreLabels, NeedsRec
  <2>2. pc[p] \in ChainLabels /\ IsWrite(arg[p])
    BY <2>1, LabelFacts, Writes
  <2> QED BY <1>2, <2>1, <2>2, OnChain DEF PcInv, PcOK, DbType
<1>5. v \in On(L, 0) /\ v \in RecOff /\ L[v] = 0
  BY <1>3, <1>4, FollowsOn
<1>6. Follows(L, R, v, w)
  <2>1. Field(v) = Rec(v).ptr /\ v \in PtrLoc
    BY <1>5, RecField
  <2>2. Follows(L, R, v, Field(v))
    BY <1>5, <2>1, NotCut
  <2> QED BY <1>3, <2>1, <2>2
<1>7. Shape(L, R) /\ 0 \in 0 .. NHASH /\ NHASH \in Nat
  BY ConstAssumption DEF Good
<1>8. PICK L2 : Without(L, v, L2)
  BY <1>5, <1>7, WithoutIs
<1>9. /\ Shape(L2, R)
      /\ On(L2, 0) = On(L, 0) \ {v} /\ \A m \in 0 .. NHASH : m # 0 => On(L2, m) = On(L, m)
      /\ x # v /\ L2[x] = 0 /\ L2[v] = -1 /\ \A y \in Nat : y # v => L2[y] = L[y]
      /\ Follows(L2, R, x, w)
      /\ \A z \in PtrLoc : \A u : L[z] = 0 /\ z # x /\ z # v /\ Follows(L, R, z, u) => Follows(L2, R, z, u)
  <2>1. PICK l \in 0 .. NHASH : l = 0
    BY <1>7
  <2>2. x \in PtrLoc /\ L[x] = l /\ v \in On(L, l) /\ Follows(L, R, x, v) /\ Shape(L, R)
    BY <1>3, <1>4, <1>5, <1>7, <2>1
  <2>3. /\ Shape(L2, R)
        /\ On(L2, l) = On(L, l) \ {v} /\ \A m \in 0 .. NHASH : m # l => On(L2, m) = On(L, m)
        /\ x # v /\ L2[x] = l /\ L2[v] = -1 /\ \A y \in Nat : y # v => L2[y] = L[y]
        /\ \A u : Follows(L, R, v, u) => Follows(L2, R, x, u)
        /\ \A z \in PtrLoc : \A u : L[z] = l /\ z # x /\ z # v /\ Follows(L, R, z, u) => Follows(L2, R, z, u)
    BY <1>8, <2>2, TakeOff
  <2> QED BY <1>6, <2>1, <2>3
<1>10. /\ dat' = dat /\ Len(idx') = Len(idx) /\ RecOff' = RecOff /\ PtrLoc' = PtrLoc
       /\ \A y \in RecOff : y # x => Rec(y)' = Rec(y)
       /\ \A y \in RecOff : /\ Rec(y)'.key = Rec(y).key /\ Rec(y)'.klen = Rec(y).klen
                            /\ Rec(y)'.datoff = Rec(y).datoff /\ Rec(y)'.datlen = Rec(y).datlen
       /\ \A l \in 0 .. NHASH : l # x => tbl'[l] = tbl[l]
       /\ Field(x)' = w /\ \A z \in PtrLoc : z # x => Field(z)' = Field(z)
  BY <1>1, <1>2, <1>4, WritePtr
<1>11. /\ \A a, b : Follows(L2, R, a, b)' <=> Follows(L2, R, a, b)
       /\ \A l : On(L2, l)' = On(L2, l)
       /\ Shape(L2, R)'
  BY <1>9, <1>10, SameOff
<1>12. /\ RecOff \subseteq Nat /\ PtrLoc \subseteq Nat /\ \A h \in 0 .. NHASH : L2[h] = h /\ L[h] = h
  BY <1>7, <1>9, ShapeFacts
<1>13. ASSUME NEW l \in 1 .. NHASH PROVE SameList(L, R, L2, R, l) /\ l \in 0 .. NHASH /\ l # 0
  <2>1. l \in 0 .. NHASH /\ l # 0
    BY <1>7
  <2>2. On(L2, l)' = On(L, l)
    BY <1>9, <1>11, <2>1
  <2>3. \A y \in On(L, l) : y \in RecOff /\ L[y] = l /\ y # x /\ y # v /\ L2[y] = l
    BY <1>3, <1>5, <1>9, <1>12, <2>1 DEF On
  <2>4. l # x
    BY <1>3, <1>12, <2>1
  <2> QED BY <1>10, <1>12, <2>1, <2>2, <2>3, <2>4 DEF SameList
<1>14. \A q \in Procs : \A z : CutAt(q, z)' <=> CutAt(q, z)
  BY <1>1 DEF CutAt, Others
<1>15. \A q \in Procs : \A z : CutAt(q, z) => L[z] # 0
  <2> SUFFICES ASSUME NEW q \in Procs, NEW z, CutAt(q, z) PROVE L[z] # 0
    OBVIOUS
  <2>1. L[z] = d[q].chainoff /\ pc[q] \in ChainLabels
    BY CutsOwn, LabelFacts DEF CutAt, DelLabels
  <2> QED BY <2>1, OnChain
<1>16. Linked(L2, R)'
  <2>1. ASSUME NEW l \in 1 .. NHASH PROVE LinkedOn(L2, R, l)'
    <3>1. SameList(L, R, L2, R, l) /\ l \in 0 .. NHASH
      BY <1>13
    <3>2. \A z \in PtrLoc : L[z] = l =>
            (CutAt(p, z)' <=> CutAt(p, z)) /\ (CutAt(p, z) => d'[p].saveptr = d[p].saveptr)
      BY <1>1, <1>14
    <3> QED BY <1>1, <1>12, <3>1, <3>2, LinkedSame
  <2>2. LinkedOn(L2, R, 0)'
    <3> SUFFICES ASSUME NEW z \in PtrLoc, L2[z] = 0
                 PROVE  Follows(L2, R, z, Field(z))' /\ \A q \in Procs : ~CutAt(q, z)'
      BY <1>10 DEF LinkedOn
    <3>1. z # v /\ L[z] = 0
      BY <1>9, <1>12
    <3>2. \A q \in Procs : ~CutAt(q, z) /\ ~CutAt(q, z)'
      BY <1>14, <1>15, <3>1
    <3>3. CASE z = x
      BY <1>9, <1>10, <1>11, <3>2, <3>3
    <3>4. CASE z # x
      <4>1. Follows(L, R, z, Field(z))
        BY <3>1, NotCut
      <4>2. Follows(L2, R, z, Field(z))
        BY <1>9, <3>1, <3>4, <4>1
      <4>3. Field(z)' = Field(z)
        BY <1>10, <3>4
      <4> QED BY <1>11, <3>2, <4>2, <4>3
    <3> QED BY <3>3, <3>4
  <2>3. \A l \in 0 .. NHASH : l = 0 \/ l \in 1 .. NHASH
    BY <1>7
  <2> QED BY <1>11, <2>1, <2>2, <2>3, LinkedAll
<1>17. Sorted(L2)'
  <2>1. Sorted(L)
    BY DEF Good
  <2>2. \A y \in RecOff : L2[y] # -1 => L2[y] = L[y]
    BY <1>9, <1>12
  <2>3. \A y \in RecOff : L2[y] \in -1 .. NHASH
    BY <1>9, <1>12 DEF Shape
  <2>4. \A y \in RecOff : (L2[y] = 0 => L[y] = 0) /\ (L2[y] >= 1 => L[y] >= 1 /\ L2[y] = L[y])
    BY <1>7, <2>2, <2>3
  <2> QED BY <1>10, <2>1, <2>4 DEF Sorted, ChainOff
<1>18. Apart'
  <2>1. ~NewDat(p)'
    BY <1>1 DEF NewDat
  <2> QED BY <1>1, <1>10, <2>1, ApartFrame
<1>19. Sized'
  <2>1. Sized /\ 0 \notin RecOff
    BY OffsetFacts DEF Good
  <2> QED BY <1>10, <2>1, SizedFrame
<1>20. \A q \in Procs : q # p => ~Owns(q) /\ pc[q] \notin {"del_idx", "del_head"}
  BY <1>3, NoWriter DEF DelLabels
<1>21. ~Owns(p) /\ Owns(p)' /\ Reusing(p)'
  BY <1>1, <1>3 DEF Owns, Reusing
<1>22. OwnApart' /\ Kept(L2)'
  <2>1. \A y \in RecOff' : L2[y] = -1 /\ y <= PTR_MAX =>
            \/ Owns(p)' /\ d'[p].idxoff = y
            \/ y \in RecOff /\ L[y] = -1 /\ ~(Owns(p) /\ d[p].idxoff = y)
    BY <1>1, <1>2, <1>9, <1>10, <1>12, <1>21
  <2> QED BY <1>1, <1>20, <2>1, OwnersFrame
<1>23. Knows(L2, R, p)'
  <2>1. NotOn(L, p) /\ d[p].head = tbl[d[p].chainoff]
    BY <1>1 DEF Good, Knows, ChainOK, MissLabels, InsLabels, FfLabels
  <2>2. On(L2, c)' = On(L, c) /\ tbl'[c] = tbl[c] /\ \A y \in On(L, c) : Rec(y)' = Rec(y)
    BY <1>4, <1>13 DEF SameList
  <2>3. NotOn(L2, p)'
    BY <1>1, <1>2, <2>1, <2>2 DEF NotOn
  <2>4. ChainOK(L2, R, p)'
    BY <1>1, <1>2, <2>1, <2>2, <2>3 DEF ChainOK, HitLabels
  <2>5. FreeOK(L2, R, p)'
    BY <1>1, <1>3 DEF FreeOK, MayInsert
  <2>6. Rec(v)' = Rec(v)
    BY <1>5, <1>9, <1>10
  <2>7. Free(p)'
    BY <1>1, <1>2, <1>3, <2>6 DEF Free, Fits
  <2>8. OwnOK(L2, p)'
    BY <1>1, <1>2, <1>5, <1>9, <1>10, <2>7 DEF OwnOK, NewDat
  <2> QED BY <2>4, <2>5, <2>8 DEF Knows
<1>24. Expects(p)'
  <2>1. Expects(p)
    BY DEF Good
  <2> QED BY <1>1, <2>1 DEF Expects, DelLabels, InsLabels, NewLabels, FfLabels
<1>25. Agrees(L2)'
  <2>1. ASSUME NEW k \in Keys PROVE KeySame(L, L2, k)
    <3>1. ChainOff(k) \in 1 .. NHASH
      BY ConstAssumption DEF ChainOff, HASH_OFF
    <3> QED BY <1>10, <1>13, <3>1, KeyOther
  <2>2. InFlux(p)' /\ arg'[p].key = arg[p].key
    BY <1>1 DEF InFlux, InsLabels, FfLabels
  <2>3. PICK n : n = arg[p].key
    OBVIOUS
  <2> QED BY <1>1, <1>4, <2>1, <2>2, <2>3, AgreesFrame
<1>26. Paired'
  <2>1. Scans(p)'
    BY <1>1 DEF Scans
  <2>2. arg'[p].op = "store" => arg'[p].val \in Data[arg'[p].key]
    BY <1>1 DEF Good, Paired
  <2>3. 0 \notin RecOff'
    BY <1>10, OffsetFacts
  <2>4. \A y \in RecOff' : y # 0 =>
            /\ y \in RecOff /\ Rec(y)'.key = Rec(y).key /\ Rec(y)'.datoff = Rec(y).datoff
            /\ dat'[Rec(y).datoff].val = dat[Rec(y).datoff].val
    BY <1>10
  <2>5. \A y \in RecOff : y \in RecOff' /\ Rec(y)'.key = Rec(y).key /\ Rec(y)'.datoff = Rec(y).datoff
    BY <1>10
  <2>6. pc[p] \notin {"del_free", "del_idx"}
    BY <1>1
  <2> QED BY <1>1, <2>1, <2>2, <2>3, <2>4, <2>5, <2>6, PairedFrame
<1>27. Good(L2, R)'
  BY <1>1, <1>4, <1>10, <1>11, <1>13, <1>16, <1>17, <1>18, <1>19, <1>20, <1>22, <1>23, <1>24, <1>25, <1>26, IdxGood
<1> QED BY <1>27

LEMMA ReuseIdxGood ==
  ASSUME TypeOK, TypeOK', PcInv, LockInv, NEW L, NEW R, Good(L, R), Alone', NEW p \in Procs, ReuseIdx(p)
  PROVE  Good(L, R)'
<1>1. /\ Others(p) /\ pc[p] = "reuse_idx" /\ pc'[p] = "link"
      /\ arg' = arg /\ rc' = rc /\ map' = map /\ tbl' = tbl /\ dat' = dat
      /\ d'[p] = [d[p] EXCEPT !.ptrval = d[p].head]
      /\ OverwriteIdx(p, arg[p].key, KeyLen[arg[p].key], d[p].head)
  BY DEF ReuseIdx, At, Goto, SetDb, TypeOK, Others
<1>2. PICK o, c : o = d[p].idxoff /\ c = d[p].chainoff
  OBVIOUS
<1>3. Owns(p) /\ Reusing(p) /\ Owns(p)' /\ ~Reusing(p)' /\ ~NewDat(p)'
  BY <1>1 DEF Owns, Reusing, NewDat
<1>4. o \in RecOff /\ L[o] = -1 /\ Free(p) /\ dat[d[p].datoff].val = arg[p].val
  BY <1>1, <1>2, <1>3 DEF Good, Knows, OwnOK
<1>5. d[p].datoff = Rec(o).datoff /\ Rec(o).key = Blank /\ d[p].datlen = Rec(o).datlen
  BY <1>2, <1>4 DEF Free
<1>6. /\ pc[p] \in ChainLabels /\ IsWrite(arg[p]) /\ MayInsert(arg[p])
      /\ c \in 1 .. NHASH /\ c = ChainOff(arg[p].key) /\ arg[p].key \in Keys /\ d[p] \in DbType
      /\ arg[p].op = "store"
  <2>1. pc[p] \in StoreLabels /\ pc[p] \in FfLabels
    BY <1>1 DEF StoreLabels, FfLabels
  <2>2. pc[p] \in ChainLabels /\ IsWrite(arg[p]) /\ MayInsert(arg[p])
    BY <2>1, LabelFacts, Writes DEF Good, Knows, FreeOK
  <2> QED BY <1>2, <2>2, OnChain DEF MayInsert
<1>7. d'[p].idxoff = o /\ d'[p].chainoff = c /\ d'[p].head = d[p].head /\ d'[p].ptroff = d[p].ptroff
  BY <1>1, <1>2, <1>6 DEF DbType
<1>8. /\ Len(idx') = Len(idx) /\ RecOff' = RecOff /\ PtrLoc' = PtrLoc
      /\ \A y \in RecOff : y # o => Rec(y)' = Rec(y)
      /\ Rec(o)' = [ptr |-> d[p].head, key |-> arg[p].key, klen |-> KeyLen[arg[p].key],
                    datoff |-> d[p].datoff, datlen |-> d[p].datlen]
  BY <1>1, <1>2, <1>4, WriteIdx
<1>9. /\ Rec(o)'.ptr = d[p].head /\ Rec(o)'.key = arg[p].key /\ Rec(o)'.klen = KeyLen[arg[p].key]
      /\ Rec(o)'.datoff = Rec(o).datoff /\ Rec(o)'.datlen = Rec(o).datlen
  BY <1>5, <1>8
<1>10. Shape(L, R) /\ NHASH \in Nat
  BY ConstAssumption DEF Good
<1>11. /\ \A x, v : Follows(L, R, x, v)' <=> Follows(L, R, x, v)
       /\ \A l : On(L, l)' = On(L, l)
       /\ Shape(L, R)'
  BY <1>8, <1>10, SameOff
<1>12. RecOff \subseteq Nat /\ \A h \in 0 .. NHASH : L[h] = h
  BY <1>10, ShapeFacts
<1>13. ASSUME NEW l \in 0 .. NHASH PROVE SameList(L, R, L, R, l) /\ o \notin On(L, l)
  <2>1. l # -1
    BY <1>10
  <2>2. \A y \in On(L, l) : y \in RecOff /\ L[y] = l /\ y # o
    BY <1>4, <2>1 DEF On
  <2> QED BY <1>1, <1>8, <1>11, <1>12, <2>2 DEF SameList
<1>14. Linked(L, R)'
  <2>1. ASSUME NEW l \in 0 .. NHASH PROVE LinkedOn(L, R, l)'
    <3>1. \A z \in PtrLoc : L[z] = l =>
            (CutAt(p, z)' <=> CutAt(p, z)) /\ (CutAt(p, z) => d'[p].saveptr = d[p].saveptr)
      BY <1>1 DEF CutAt
    <3>2. SameList(L, R, L, R, l)
      BY <1>13
    <3>3. Others(p) /\ \A h \in 0 .. NHASH : L[h] = h
      BY <1>1, <1>12
    <3> QED BY <3>1, <3>2, <3>3, LinkedSame
  <2> QED BY <1>11, <2>1, LinkedAll
<1>15. Sorted(L)'
  <2>1. Sorted(L)
    BY DEF Good
  <2>2. \A y \in RecOff : L[y] = 0 \/ L[y] >= 1 => Rec(y)' = Rec(y)
    BY <1>4, <1>8
  <2> QED BY <1>8, <2>1, <2>2 DEF Sorted, ChainOff
<1>16. Apart'
  <2>1. \A y \in RecOff : Rec(y)'.datoff = Rec(y).datoff
    BY <1>8, <1>9
  <2> QED BY <1>1, <1>3, <1>8, <2>1, ApartFrame
<1>17. Sized'
  <2>1. Sized
    BY DEF Good
  <2>2. /\ Rec(o)'.datoff = Rec(o).datoff /\ Rec(o)'.datlen = Rec(o).datlen
        /\ Rec(o)'.key \in Keys => Rec(o)'.klen = KeyLen[Rec(o)'.key]
    BY <1>9
  <2> QED BY <1>1, <1>8, <2>1, <2>2, SizedFrame
<1>18. \A q \in Procs : q # p => ~Owns(q) /\ pc[q] \notin {"del_idx", "del_head"}
  BY <1>6, NoWriter DEF DelLabels
<1>19. OwnApart' /\ Kept(L)'
  <2>1. \A y \in RecOff' : L[y] = -1 /\ y <= PTR_MAX =>
            \/ Owns(p)' /\ d'[p].idxoff = y
            \/ y \in RecOff /\ L[y] = -1 /\ ~(Owns(p) /\ d[p].idxoff = y)
    BY <1>2, <1>3, <1>7, <1>8
  <2> QED BY <1>1, <1>18, <2>1, OwnersFrame
<1>20. Knows(L, R, p)'
  <2>1. NotOn(L, p) /\ d[p].head = tbl[d[p].chainoff]
    BY <1>1 DEF Good, Knows, ChainOK, MissLabels, InsLabels, FfLabels
  <2>2. c \in 0 .. NHASH
    BY <1>6, <1>10
  <2>3. \A y \in On(L, c) : Rec(y)' = Rec(y)
    BY <1>13, <2>2 DEF SameList
  <2>4. NotOn(L, p)'
    BY <1>1, <1>2, <1>7, <1>11, <2>1, <2>3 DEF NotOn
  <2>5. ChainOK(L, R, p)'
    BY <1>1, <1>2, <1>7, <2>1, <2>4 DEF ChainOK, HitLabels
  <2>6. FreeOK(L, R, p)'
    BY <1>1 DEF FreeOK, FfLabels
  <2>7. OwnOK(L, p)'
    BY <1>1, <1>3, <1>4, <1>5, <1>7, <1>8, <1>9 DEF OwnOK
  <2> QED BY <2>5, <2>6, <2>7 DEF Knows
<1>21. Expects(p)'
  <2>1. Expects(p)
    BY DEF Good
  <2> QED BY <1>1, <2>1 DEF Expects, DelLabels, InsLabels, NewLabels, FfLabels
<1>22. Agrees(L)'
  <2>1. ASSUME NEW k \in Keys PROVE KeySame(L, L, k)
    <3>1. ChainOff(k) \in 0 .. NHASH
      BY ConstAssumption DEF ChainOff, HASH_OFF
    <3> QED BY <1>1, <1>13, <3>1, KeyOther
  <2>2. InFlux(p)' /\ arg'[p].key = arg[p].key
    BY <1>1 DEF InFlux, InsLabels, NewLabels
  <2>3. PICK n : n = arg[p].key
    OBVIOUS
  <2> QED BY <1>1, <1>6, <2>1, <2>2, <2>3, AgreesFrame
<1>23. Paired'
  <2>1. Scans(p)'
    BY <1>1 DEF Scans
  <2>2. arg[p].val \in Data[arg[p].key]
    BY <1>6 DEF Good, Paired
  <2>3. dat'[Rec(o)'.datoff].val \in Data[Rec(o)'.key]
    BY <1>1, <1>4, <1>5, <1>9, <2>2
  <2>4. \A y \in RecOff' : y # o =>
            /\ y \in RecOff /\ Rec(y)'.key = Rec(y).key /\ Rec(y)'.datoff = Rec(y).datoff
            /\ dat'[Rec(y).datoff].val = dat[Rec(y).datoff].val
    BY <1>1, <1>8
  <2>5. \A y \in RecOff : Rec(y).key # Blank =>
          y \in RecOff' /\ Rec(y)'.key = Rec(y).key /\ Rec(y)'.datoff = Rec(y).datoff
    BY <1>5, <1>8
  <2>6. pc[p] \notin {"del_free", "del_idx"}
    BY <1>1
  <2> QED BY <1>1, <2>1, <2>2, <2>3, <2>4, <2>5, <2>6, PairedFrame
<1>24. \A l \in 1 .. NHASH : l # d[p].chainoff => SameList(L, R, L, R, l)
  BY <1>10, <1>13
<1> QED BY <1>1, <1>6, <1>11, <1>14, <1>15, <1>16, <1>17, <1>18, <1>19, <1>20, <1>21, <1>22, <1>23, <1>24, IdxGood

LEMMA AppIdxGood ==
  ASSUME TypeOK, TypeOK', PcInv, LockInv, NEW L, NEW R, Good(L, R), Alone', NEW p \in Procs, AppIdx(p)
  PROVE  Good(L, R)'
<1>1. /\ Others(p) /\ pc[p] = "app_idx" /\ pc'[p] = "app_idxunlock"
      /\ arg' = arg /\ rc' = rc /\ map' = map /\ tbl' = tbl /\ dat' = dat
      /\ d'[p] = [d[p] EXCEPT !.idxoff = FirstRec + Len(idx), !.ptrval = d[p].head]
      /\ idx' = Append(idx, [ptr |-> d[p].head, key |-> arg[p].key, klen |-> KeyLen[arg[p].key],
                             datoff |-> d[p].datoff, datlen |-> d[p].datlen])
  BY DEF AppIdx, At, Goto, SetDb, TypeOK, Others
<1>2. PICK o, c : o = FirstRec + Len(idx) /\ c = d[p].chainoff
  OBVIOUS
<1>3. NewDat(p) /\ Owns(p)' /\ ~Owns(p) /\ ~Reusing(p)' /\ ~NewDat(p)'
  BY <1>1 DEF Owns, Reusing, NewDat
<1>4. dat[d[p].datoff].val = arg[p].val /\ dat[d[p].datoff].len = d[p].datlen
  BY <1>3 DEF Good, Knows, OwnOK
<1>5. \A y \in RecOff : Rec(y).datoff # d[p].datoff
  BY <1>3 DEF Good, Apart
<1>6. /\ pc[p] \in ChainLabels /\ IsWrite(arg[p])
      /\ c \in 1 .. NHASH /\ c = ChainOff(arg[p].key) /\ arg[p].key \in Keys /\ d[p] \in DbType
      /\ arg[p].op = "store"
  <2>1. pc[p] \in StoreLabels
    BY <1>1 DEF StoreLabels
  <2>2. pc[p] \in ChainLabels /\ IsWrite(arg[p])
    BY <2>1, LabelFacts, Writes
  <2> QED BY <1>2, <2>1, <2>2, OnChain DEF PcInv, PcOK
<1>7. /\ d'[p].idxoff = o /\ d'[p].chainoff = c /\ d'[p].head = d[p].head
  BY <1>1, <1>2, <1>6 DEF DbType
<1>8. NHASH \in Nat /\ Len(idx) \in Nat /\ idx \in Seq(IdxType) /\ o \in Nat /\ o = NHASH + Len(idx) + 1
  BY <1>2, ConstAssumption, LenNat DEF TypeOK, FirstRec
<1>9. Len(idx') = Len(idx) + 1
  BY <1>1, <1>8
<1>10. RecOff' = RecOff \cup {o} /\ o \notin RecOff
  BY <1>8, <1>9 DEF RecOff, FirstRec
<1>11. \A y \in RecOff : Rec(y)' = Rec(y)
  <2> SUFFICES ASSUME NEW y \in RecOff PROVE Rec(y)' = Rec(y)
    OBVIOUS
  <2>1. y - NHASH \in 1 .. Len(idx)
    BY <1>8 DEF RecOff, FirstRec
  <2> QED BY <1>1, <1>8, <2>1 DEF Rec
<1>12. Rec(o)' = [ptr |-> d[p].head, key |-> arg[p].key, klen |-> KeyLen[arg[p].key],
                  datoff |-> d[p].datoff, datlen |-> d[p].datlen]
  <2>1. o - NHASH = Len(idx) + 1
    BY <1>8
  <2>2. Rec(o)' = idx'[Len(idx) + 1]
    BY <2>1 DEF Rec
  <2> QED BY <1>1, <1>8, <2>2
<1>13. Shape(L, R) /\ RecOff \subseteq Nat /\ \A h \in 0 .. NHASH : L[h] = h
  BY ShapeFacts DEF Good
<1>14. L[o] = -1
  BY <1>8, <1>13 DEF Shape
<1>15. \A y \in RecOff' : L[y] # -1 => y \in RecOff
  BY <1>10, <1>14
<1>16. Shape(L, R)'
  <2>1. \A x \in Nat : x > NHASH + Len(idx') => L[x] = -1
    BY <1>8, <1>9, <1>13 DEF Shape
  <2>2. \A y \in RecOff' : L[y] # -1 => y <= PTR_MAX /\ R[y] < R[L[y]]
    BY <1>13, <1>15 DEF Shape
  <2>3. \A y, z \in RecOff' : L[y] # -1 /\ L[y] = L[z] /\ R[y] = R[z] => y = z
    BY <1>13, <1>15 DEF Shape
  <2>4. L \in [Nat -> -1 .. NHASH] /\ R \in [Nat -> Nat]
    BY <1>13 DEF Shape
  <2> QED BY <1>13, <2>1, <2>2, <2>3, <2>4 DEF Shape
<1>17. ASSUME NEW l \in 0 .. NHASH PROVE SameList(L, R, L, R, l)
  <2>1. l # -1
    BY <1>8
  <2>2. On(L, l)' = On(L, l)
    BY <1>10, <1>14, <2>1 DEF On
  <2>3. \A y \in On(L, l) : y \in RecOff /\ L[y] = l
    BY DEF On
  <2> QED BY <1>1, <1>11, <1>13, <2>2, <2>3 DEF SameList
<1>18. Linked(L, R)'
  <2>1. ASSUME NEW l \in 0 .. NHASH PROVE LinkedOn(L, R, l)'
    <3>1. \A z \in PtrLoc : L[z] = l =>
            (CutAt(p, z)' <=> CutAt(p, z)) /\ (CutAt(p, z) => d'[p].saveptr = d[p].saveptr)
      BY <1>1 DEF CutAt
    <3>2. SameList(L, R, L, R, l)
      BY <1>17
    <3>3. Others(p) /\ \A h \in 0 .. NHASH : L[h] = h
      BY <1>1, <1>13
    <3> QED BY <3>1, <3>2, <3>3, LinkedSame
  <2> QED BY <1>16, <2>1, LinkedAll
<1>19. Sorted(L)'
  <2>1. Sorted(L)
    BY DEF Good
  <2>2. \A y \in RecOff' : L[y] = 0 \/ L[y] >= 1 => y \in RecOff /\ Rec(y)' = Rec(y)
    BY <1>11, <1>14, <1>15
  <2> QED BY <2>1, <2>2 DEF Sorted, ChainOff
<1>20. Apart'
  <2>1. \A q \in Procs : NewDat(q)' => q # p /\ NewDat(q) /\ d'[q] = d[q]
    BY <1>1, <1>3 DEF NewDat, Others
  <2>2. Rec(o)'.datoff = d[p].datoff
    BY <1>12
  <2>3. \A q \in Procs : NewDat(q)' => d[q].datoff # d[p].datoff
    BY <1>3, <2>1 DEF Good, Apart
  <2>4. Apart
    BY DEF Good
  <2>5. ASSUME NEW y \in RecOff', NEW z \in RecOff', Rec(y)'.datoff = Rec(z)'.datoff PROVE y = z
    <3>1. CASE y = o \/ z = o
      BY <1>5, <1>10, <1>11, <2>2, <2>5, <3>1
    <3>2. CASE y # o /\ z # o
      BY <1>10, <1>11, <2>4, <2>5, <3>2 DEF Apart
    <3> QED BY <3>1, <3>2
  <2>6. ASSUME NEW q \in Procs, NewDat(q)', NEW y \in RecOff' PROVE Rec(y)'.datoff # d'[q].datoff
    <3>1. CASE y = o
      BY <2>1, <2>2, <2>3, <2>6, <3>1
    <3>2. CASE y # o
      BY <1>10, <1>11, <2>1, <2>4, <2>6, <3>2 DEF Apart
    <3> QED BY <3>1, <3>2
  <2>7. \A q, r \in Procs : NewDat(q)' /\ NewDat(r)' /\ d'[q].datoff = d'[r].datoff => q = r
    BY <2>1, <2>4 DEF Apart
  <2> QED BY <2>5, <2>6, <2>7 DEF Apart
<1>21. Sized'
  <2> SUFFICES ASSUME NEW y \in RecOff'
               PROVE  /\ Rec(y)'.datlen = dat'[Rec(y)'.datoff].len
                      /\ Rec(y)'.key \in Keys => Rec(y)'.klen = KeyLen[Rec(y)'.key]
    BY DEF Sized
  <2>1. CASE y = o
    BY <1>1, <1>4, <1>12, <2>1
  <2>2. CASE y # o
    BY <1>1, <1>10, <1>11, <2>2 DEF Good, Sized
  <2> QED BY <2>1, <2>2
<1>22. \A q \in Procs : Owns(q) => d[q].idxoff \in RecOff /\ L[d[q].idxoff] = -1
  BY DEF Good, Knows, OwnOK
<1>23. OwnApart' /\ Kept(L)'
  <2>1. \A y \in RecOff' : L[y] = -1 /\ y <= PTR_MAX =>
            \/ Owns(p)' /\ d'[p].idxoff = y
            \/ y \in RecOff /\ L[y] = -1 /\ ~(Owns(p) /\ d[p].idxoff = y)
    BY <1>3, <1>7, <1>10
  <2>2. \A q \in Procs : q # p /\ Owns(q) /\ Owns(p)' => d[q].idxoff # d'[p].idxoff
    BY <1>7, <1>10, <1>22
  <2> QED BY <1>1, <2>1, <2>2, OwnersFrame
<1>24. Knows(L, R, p)'
  <2>1. NotOn(L, p) /\ d[p].head = tbl[d[p].chainoff]
    BY <1>1 DEF Good, Knows, ChainOK, MissLabels, InsLabels, NewLabels
  <2>2. c \in 0 .. NHASH
    BY <1>6, <1>8
  <2>3. On(L, c)' = On(L, c) /\ \A y \in On(L, c) : Rec(y)' = Rec(y)
    BY <1>17, <2>2 DEF SameList
  <2>4. NotOn(L, p)'
    BY <1>1, <1>2, <1>7, <2>1, <2>3 DEF NotOn
  <2>5. ChainOK(L, R, p)'
    BY <1>1, <1>2, <1>7, <2>1, <2>4 DEF ChainOK, HitLabels
  <2>6. FreeOK(L, R, p)'
    BY <1>1 DEF FreeOK, FfLabels
  <2>7. /\ Rec(o)'.key = arg[p].key /\ Rec(o)'.ptr = d[p].head /\ Rec(o)'.datoff = d[p].datoff
    BY <1>12
  <2>8. OwnOK(L, p)'
    BY <1>1, <1>3, <1>4, <1>7, <1>10, <1>14, <2>7 DEF OwnOK
  <2> QED BY <2>5, <2>6, <2>8 DEF Knows
<1>25. Expects(p)'
  <2>1. Expects(p)
    BY DEF Good
  <2> QED BY <1>1, <2>1 DEF Expects, DelLabels, InsLabels, NewLabels, FfLabels
<1>26. Agrees(L)'
  <2>1. ASSUME NEW k \in Keys PROVE KeySame(L, L, k)
    <3>1. ChainOff(k) \in 0 .. NHASH
      BY ConstAssumption DEF ChainOff, HASH_OFF
    <3> QED BY <1>1, <1>17, <3>1, KeyOther
  <2>2. InFlux(p)' /\ arg'[p].key = arg[p].key
    BY <1>1 DEF InFlux, InsLabels, NewLabels
  <2>3. PICK n : n = arg[p].key
    OBVIOUS
  <2> QED BY <1>1, <1>6, <2>1, <2>2, <2>3, AgreesFrame
<1>27. Paired'
  <2>1. Scans(p)'
    BY <1>1 DEF Scans
  <2>2. arg[p].val \in Data[arg[p].key]
    BY <1>6 DEF Good, Paired
  <2>3. dat'[Rec(o)'.datoff].val \in Data[Rec(o)'.key]
    BY <1>1, <1>4, <1>12, <2>2
  <2>4. \A y \in RecOff' : y # o =>
            /\ y \in RecOff /\ Rec(y)'.key = Rec(y).key /\ Rec(y)'.datoff = Rec(y).datoff
            /\ dat'[Rec(y).datoff].val = dat[Rec(y).datoff].val
    BY <1>1, <1>10, <1>11
  <2>5. \A y \in RecOff : y \in RecOff' /\ Rec(y)'.key = Rec(y).key /\ Rec(y)'.datoff = Rec(y).datoff
    BY <1>10, <1>11
  <2>6. pc[p] \notin {"del_free", "del_idx"}
    BY <1>1
  <2> QED BY <1>1, <2>1, <2>2, <2>3, <2>4, <2>5, <2>6, PairedFrame
<1>28. \A l \in 1 .. NHASH : l # d[p].chainoff => SameList(L, R, L, R, l)
  BY <1>8, <1>17
<1>29. \A q \in Procs : q # p /\ Owns(q) =>
            \A y : y = d[q].idxoff => y \in RecOff' /\ L[y] = -1 /\ Rec(y)' = Rec(y)
  BY <1>10, <1>11, <1>22
<1> QED BY <1>1, <1>6, <1>16, <1>18, <1>19, <1>20, <1>21, <1>23, <1>24, <1>25, <1>26, <1>27, <1>28, <1>29, IdxGood

LEMMA LinkGood ==
  ASSUME TypeOK, TypeOK', PcInv, LockInv, NEW L, NEW R, Good(L, R), Alone', NEW p \in Procs, Link(p)
  PROVE  \E L2, R2 : Good(L2, R2)'
<1>1. /\ Others(p) /\ pc[p] = "link" /\ pc'[p] = "unlock" /\ d[p].idxoff <= PTR_MAX
      /\ arg' = arg /\ d' = d
      /\ map' = [map EXCEPT ![arg[p].key] = arg[p].val]
      /\ _db_writeptr(p, d[p].chainoff, d[p].idxoff)
  BY DEF Link, At, Goto, TypeOK, Others
<1>2. PICK o, c, h, n : o = d[p].idxoff /\ c = d[p].chainoff /\ h = d[p].head /\ n = arg[p].key
  OBVIOUS
<1>3. Owns(p) /\ ~Owns(p)' /\ ~Reusing(p)' /\ ~NewDat(p)' /\ ~NewDat(p)
  BY <1>1 DEF Owns, Reusing, NewDat
<1>4. /\ pc[p] \in ChainLabels /\ IsWrite(arg[p])
      /\ c \in 1 .. NHASH /\ c = ChainOff(n) /\ n \in Keys /\ c \in PtrLoc /\ c < FirstRec
      /\ arg[p].op = "store" /\ arg[p].val \in Vals
  <2>1. pc[p] \in StoreLabels
    BY <1>1 DEF StoreLabels
  <2>2. pc[p] \in ChainLabels /\ IsWrite(arg[p])
    BY <2>1, LabelFacts, Writes
  <2> QED BY <1>2, <2>1, <2>2, OnChain DEF PcInv, PcOK
<1>5. /\ o \in RecOff /\ L[o] = -1 /\ o <= PTR_MAX
      /\ Rec(o).key = n /\ Rec(o).ptr = h /\ dat[Rec(o).datoff].val = arg[p].val
  BY <1>1, <1>2, <1>3 DEF Good, Knows, OwnOK
<1>6. NotOn(L, p) /\ h = tbl[c]
  BY <1>1, <1>2 DEF Good, Knows, ChainOK, MissLabels, InsLabels, NewLabels
<1>7. Shape(L, R) /\ NHASH \in Nat /\ c \in 0 .. NHASH /\ c # 0 /\ c # -1
  BY <1>4, ConstAssumption DEF Good
<1>8. RecOff \subseteq Nat /\ PtrLoc \subseteq Nat /\ \A x \in 0 .. NHASH : L[x] = x
  BY <1>7, ShapeFacts
<1>9. Follows(L, R, c, h)
  <2>1. L[c] = c /\ Field(c) = h
    BY <1>4, <1>6, <1>7, <1>8 DEF Field
  <2>2. Follows(L, R, c, Field(c))
    BY <1>1, <1>2, <1>4, <2>1, NotCut
  <2> QED BY <2>1, <2>2
<1>10. PICK L2, R2 : WithHead(L, R, c, o, L2, R2)
  BY <1>5, <1>7, WithHeadIs
<1>11. /\ Shape(L2, R2)
       /\ On(L2, c) = On(L, c) \cup {o} /\ o \notin On(L, c)
       /\ \A m \in 0 .. NHASH : m # c => On(L2, m) = On(L, m)
       /\ L2[o] = c /\ o # c /\ \A y \in Nat : y # o => L2[y] = L[y]
       /\ \A y \in Nat : y # o /\ y # c => R2[y] = R[y]
       /\ Follows(L2, R2, c, o) /\ Follows(L2, R2, o, h)
       /\ \A z \in PtrLoc : \A u : L[z] = c /\ z # c /\ Follows(L, R, z, u) => Follows(L2, R2, z, u)
  BY <1>5, <1>7, <1>9, <1>10, PutAtHead
<1>12. /\ dat' = dat /\ Len(idx') = Len(idx) /\ RecOff' = RecOff /\ PtrLoc' = PtrLoc
       /\ \A l \in 0 .. NHASH : l # c => tbl'[l] = tbl[l]
       /\ \A y \in RecOff : Rec(y)' = Rec(y)
       /\ Field(c)' = o /\ \A z \in PtrLoc : z # c => Field(z)' = Field(z)
  BY <1>1, <1>2, <1>4, WritePtr
<1>13. /\ \A a, b : Follows(L2, R2, a, b)' <=> Follows(L2, R2, a, b)
       /\ \A l : On(L2, l)' = On(L2, l)
       /\ Shape(L2, R2)'
  BY <1>11, <1>12, SameOff
<1>14. ASSUME NEW l \in 0 .. NHASH, l # c PROVE SameList(L, R, L2, R2, l)
  <2>1. On(L2, l)' = On(L, l)
    BY <1>11, <1>13, <1>14
  <2>2. l \in Nat /\ l # -1 /\ l # o
    <3>1. o > NHASH
      BY <1>5, <1>7, LenNat DEF RecOff, FirstRec
    <3> QED BY <1>7, <3>1
  <2>3. c \notin RecOff
    BY <1>4, <1>7 DEF RecOff, FirstRec
  <2>4. \A y \in On(L, l) \cup {l} : y \in Nat /\ L[y] = l /\ y # o /\ y # c
    BY <1>5, <1>8, <1>14, <2>2, <2>3 DEF On
  <2>5. \A y \in On(L, l) \cup {l} : L2[y] = l /\ R2[y] = R[y]
    BY <1>11, <2>4
  <2>6. \A y \in On(L, l) : y \in RecOff
    BY DEF On
  <2> QED BY <1>12, <1>14, <2>1, <2>5, <2>6 DEF SameList
<1>15. \A q \in Procs : \A z : (CutAt(q, z)' <=> CutAt(q, z)) /\ ~CutAt(p, z)
  BY <1>1 DEF CutAt, Others
<1>16. \A q \in Procs : \A z : CutAt(q, z) => L[z] # c /\ L[z] # -1
  <2> SUFFICES ASSUME NEW q \in Procs, NEW z, CutAt(q, z) PROVE L[z] # c /\ L[z] # -1
    OBVIOUS
  <2>1. L[z] = d[q].chainoff /\ pc[q] \in ChainLabels /\ q # p
    BY <1>15, CutsOwn, LabelFacts DEF CutAt, DelLabels
  <2>2. d[q].chainoff \in 1 .. NHASH /\ d[q].chainoff # c
    BY <1>2, <1>4, <2>1, OnChain, OtherChain
  <2> QED BY <1>7, <2>1, <2>2
<1>17. Linked(L2, R2)'
  <2>1. ASSUME NEW l \in 0 .. NHASH, l # c PROVE LinkedOn(L2, R2, l)'
    <3>1. SameList(L, R, L2, R2, l)
      BY <1>14, <2>1
    <3>2. \A z \in PtrLoc : L[z] = l =>
            (CutAt(p, z)' <=> CutAt(p, z)) /\ (CutAt(p, z) => d'[p].saveptr = d[p].saveptr)
      BY <1>15
    <3>3. Others(p) /\ \A x \in 0 .. NHASH : L2[x] = x
      BY <1>1, <1>7, <1>11, <1>13, ShapeFacts
    <3> QED BY <3>1, <3>2, <3>3, LinkedSame
  <2>2. LinkedOn(L2, R2, c)'
    <3> SUFFICES ASSUME NEW z \in PtrLoc, L2[z] = c
                 PROVE  Follows(L2, R2, z, Field(z))' /\ \A q \in Procs : ~CutAt(q, z)'
      BY <1>12 DEF LinkedOn
    <3>1. z = o \/ L[z] = c
      BY <1>8, <1>11
    <3>2. \A q \in Procs : ~CutAt(q, z)'
      BY <1>5, <1>15, <1>16, <3>1
    <3>3. CASE z = o
      <4>1. Field(o)' = h
        BY <1>5, <1>11, <1>12, RecField
      <4> QED BY <1>11, <1>13, <3>2, <3>3, <4>1
    <3>4. CASE z = c
      BY <1>11, <1>12, <1>13, <3>2, <3>4
    <3>5. CASE z # o /\ z # c
      <4>1. L[z] = c /\ L[z] = d[p].chainoff
        BY <1>2, <3>1, <3>5
      <4>2. Follows(L, R, z, Field(z))
        BY <1>1, <1>4, <4>1, NotCut
      <4>3. Follows(L2, R2, z, Field(z))
        BY <1>11, <3>5, <4>1, <4>2
      <4>4. Field(z)' = Field(z)
        BY <1>12, <3>5
      <4> QED BY <1>13, <3>2, <4>3, <4>4
    <3> QED BY <3>3, <3>4, <3>5
  <2>3. \A l \in 0 .. NHASH : LinkedOn(L2, R2, l)'
    BY <2>1, <2>2
  <2> QED BY <1>13, <2>3, LinkedAll
<1>18. Sorted(L2)'
  <2>1. Sorted(L)
    BY DEF Good
  <2>2. \A y \in RecOff : y # o => L2[y] = L[y]
    BY <1>8, <1>11
  <2>3. \A y \in RecOff : L[y] >= 1 /\ Rec(y).key = n => FALSE
    <3> SUFFICES ASSUME NEW y \in RecOff, L[y] >= 1, Rec(y).key = n PROVE FALSE
      OBVIOUS
    <3>1. y \in On(L, c)
      BY <1>4, <2>1 DEF Sorted, On
    <3> QED BY <1>2, <1>6, <3>1 DEF NotOn
  <2>4. \A y \in RecOff : L2[y] = 0 => Rec(y).key = Blank
    BY <1>7, <1>11, <2>1, <2>2 DEF Sorted
  <2>5. \A y \in RecOff : L2[y] >= 1 => Rec(y).key \in Keys /\ ChainOff(Rec(y).key) = L2[y]
    BY <1>4, <1>5, <1>11, <2>1, <2>2 DEF Sorted
  <2>6. \A y, z \in RecOff : L2[y] >= 1 /\ L2[z] >= 1 /\ Rec(y).key = Rec(z).key => y = z
    <3> SUFFICES ASSUME NEW y \in RecOff, NEW z \in RecOff, L2[y] >= 1, L2[z] >= 1, Rec(y).key = Rec(z).key
                 PROVE  y = z
      OBVIOUS
    <3>1. CASE y # o /\ z # o
      BY <2>1, <2>2, <3>1 DEF Sorted
    <3>2. CASE y = o \/ z = o
      BY <1>5, <2>2, <2>3, <3>2
    <3> QED BY <3>1, <3>2
  <2> QED BY <1>12, <2>4, <2>5, <2>6 DEF Sorted, ChainOff
<1>19. Apart'
  BY <1>1, <1>3, <1>12, ApartFrame
<1>20. Sized'
  <2>1. Sized
    BY DEF Good
  <2> QED BY <1>12, <2>1 DEF Sized
<1>21. \A q \in Procs : q # p /\ Owns(q) =>
          d[q].idxoff # o /\ d[q].idxoff \in RecOff /\ L[d[q].idxoff] = -1
  BY <1>2, <1>3 DEF Good, Knows, OwnOK, OwnApart
<1>22. \A q \in Procs : q # p /\ Owns(q) =>
          \A x : x = d[q].idxoff => x \in RecOff' /\ L2[x] = -1 /\ Rec(x)' = Rec(x)
  BY <1>8, <1>11, <1>12, <1>21
<1>23. OwnApart' /\ Kept(L2)'
  <2>1. \A y \in RecOff' : L2[y] = -1 /\ y <= PTR_MAX =>
            \/ Owns(p)' /\ d'[p].idxoff = y
            \/ y \in RecOff /\ L[y] = -1 /\ ~(Owns(p) /\ d[p].idxoff = y)
    BY <1>2, <1>7, <1>8, <1>11, <1>12
  <2> QED BY <1>1, <1>3, <2>1, OwnersFrame
<1>24. Knows(L2, R2, p)'
  BY <1>1, <1>3 DEF Knows, ChainOK, FreeOK, OwnOK, HitLabels, MissLabels, InsLabels, NewLabels, FfLabels
<1>25. Expects(p)'
  BY <1>1 DEF Expects, DelLabels, InsLabels, NewLabels, FfLabels
<1>26. (\A k \in Keys : k # n => map'[k] = map[k]) /\ map'[n] = arg[p].val
  BY <1>1, <1>2, <1>4 DEF TypeOK
<1>27. Agrees(L2)'
  <2>1. ASSUME NEW k \in Keys, k # n PROVE KeySame(L, L2, k)
    <3>1. PICK l : l = ChainOff(k)
      OBVIOUS
    <3>2. l \in 0 .. NHASH
      BY <3>1, ConstAssumption DEF ChainOff, HASH_OFF
    <3>3. CASE l # c
      BY <1>12, <1>14, <3>1, <3>2, <3>3, KeyOther
    <3>4. CASE l = c
      <4>1. \A y : y # o => (y \in On(L2, c)' <=> y \in On(L, c))
        BY <1>11, <1>13
      <4>2. \A y \in On(L, c) : Rec(y)' = Rec(y)
        BY <1>12 DEF On
      <4>3. Rec(o)'.key # k
        BY <1>5, <1>12, <2>1
      <4> QED BY <1>11, <1>12, <3>1, <3>4, <4>1, <4>2, <4>3, KeyOwn
    <3> QED BY <3>3, <3>4
  <2>2. map'[n] # NULL
    BY <1>4, <1>26, ConstAssumption
  <2>3. o \in On(L2, ChainOff(n))'
    BY <1>4, <1>11, <1>13
  <2>4. Rec(o)'.key = n /\ dat'[Rec(o)'.datoff].val = map'[n]
    BY <1>5, <1>12, <1>26
  <2> QED BY <1>1, <1>2, <1>4, <1>26, <2>1, <2>2, <2>3, <2>4, AgreesFrame
<1>28. Paired'
  <2>1. Scans(p)'
    BY <1>1 DEF Scans
  <2>2. arg'[p].op = "store" => arg'[p].val \in Data[arg'[p].key]
    BY <1>1 DEF Good, Paired
  <2>3. 0 \notin RecOff'
    BY <1>12, OffsetFacts
  <2>4. \A y \in RecOff' : y # 0 =>
            /\ y \in RecOff /\ Rec(y)'.key = Rec(y).key /\ Rec(y)'.datoff = Rec(y).datoff
            /\ dat'[Rec(y).datoff].val = dat[Rec(y).datoff].val
    BY <1>12
  <2>5. \A y \in RecOff : y \in RecOff' /\ Rec(y)'.key = Rec(y).key /\ Rec(y)'.datoff = Rec(y).datoff
    BY <1>12
  <2>6. pc[p] \notin {"del_free", "del_idx"}
    BY <1>1
  <2> QED BY <1>1, <2>1, <2>2, <2>3, <2>4, <2>5, <2>6, PairedFrame
<1>29. \A l \in 1 .. NHASH : l # d[p].chainoff => SameList(L, R, L2, R2, l)
  BY <1>2, <1>7, <1>14
<1>30. \A q \in Procs : q # p /\ pc[q] \in {"del_idx", "del_head"} => tbl'[0] = tbl[0]
  BY <1>7, <1>12
<1>31. \A k \in Keys : k # arg[p].key => map'[k] = map[k]
  BY <1>2, <1>26
<1>32. Good(L2, R2)'
  BY <1>1, <1>4, <1>12, <1>13, <1>17, <1>18, <1>19, <1>20, <1>22, <1>23, <1>24, <1>25, <1>27, <1>28,
     <1>29, <1>30, <1>31, IdxGood
<1> QED BY <1>32

LEMMA DelIdxGood ==
  ASSUME TypeOK, TypeOK', PcInv, LockInv, NEW L, NEW R, Good(L, R), Alone', NEW p \in Procs, DelIdx(p)
  PROVE  \E L2, R2 : Good(L2, R2)'
<1>1. /\ Others(p) /\ pc[p] = "del_idx" /\ pc'[p] = "del_head"
      /\ arg' = arg /\ map' = map /\ tbl' = tbl /\ dat' = dat
      /\ d'[p] = [d[p] EXCEPT !.ptrval = d[p].freeptr]
      /\ OverwriteIdx(p, Blank, KeyLen[d[p].idxbuf], d[p].freeptr)
  BY DEF DelIdx, At, Goto, SetDb, TypeOK, Others
<1>2. PICK o, c, x, w, n : /\ o = d[p].idxoff /\ c = d[p].chainoff /\ x = d[p].ptroff
                           /\ w = d[p].saveptr /\ n = arg[p].key
  OBVIOUS
<1>3. ~Owns(p) /\ Owns(p)' /\ ~Reusing(p)' /\ ~NewDat(p)'
  BY <1>1 DEF Owns, Reusing, NewDat
<1>4. /\ pc[p] \in HitLabels /\ pc[p] \in ChainLabels /\ pc[p] \in DelLabels /\ pc[p] \in FreeLabels
      /\ IsWrite(arg[p]) /\ d[p] \in DbType
  <2>1. pc[p] \in HitLabels /\ pc[p] \in DelLabels /\ pc[p] \in FreeLabels
    BY <1>1 DEF HitLabels, DelLabels, FreeLabels
  <2> QED BY <2>1, LabelFacts, Writes, OnChain
<1>5. /\ AtHit(L, R, p) /\ o \in On(L, c) /\ o \in RecOff /\ L[o] = c /\ c \in 1 .. NHASH
      /\ n \in Keys /\ ChainOff(n) = c /\ x \in PtrLoc
      /\ \A q \in Procs : Owns(q) => d[q].idxoff # o
  BY <1>2, <1>4, HitFacts
<1>6. /\ L[x] = c /\ Follows(L, R, x, o) /\ Rec(o).key = n
      /\ d[p].datoff = Rec(o).datoff /\ d[p].datlen = Rec(o).datlen /\ d[p].ptrval = Rec(o).ptr
  BY <1>2, <1>5 DEF AtHit
<1>7. w = Rec(o).ptr /\ d[p].freeptr = tbl[0]
  BY <1>1, <1>2, <1>6 DEF Good, Knows, ChainOK, FreeOK
<1>8. /\ d'[p].idxoff = o /\ d'[p].chainoff = c /\ d'[p].ptroff = x /\ d'[p].saveptr = w
  BY <1>1, <1>2, <1>4 DEF DbType
<1>9. Shape(L, R) /\ NHASH \in Nat /\ c \in 0 .. NHASH /\ c # 0 /\ c # -1
  BY <1>5, ConstAssumption DEF Good
<1>10. RecOff \subseteq Nat /\ PtrLoc \subseteq Nat /\ \A l \in 0 .. NHASH : L[l] = l
  BY <1>9, ShapeFacts
<1>11. Follows(L, R, o, w) /\ o \in PtrLoc
  <2>1. Field(o) = w /\ o \in PtrLoc
    BY <1>5, <1>7, RecField
  <2>2. Follows(L, R, o, Field(o))
    BY <1>1, <1>2, <1>4, <1>5, <2>1, NotCut
  <2> QED BY <2>1, <2>2
<1>12. PICK L2 : Without(L, o, L2)
  BY <1>5, <1>9, WithoutIs
<1>13. /\ Shape(L2, R)
       /\ On(L2, c) = On(L, c) \ {o} /\ \A m \in 0 .. NHASH : m # c => On(L2, m) = On(L, m)
       /\ x # o /\ L2[x] = c /\ L2[o] = -1 /\ \A y \in Nat : y # o => L2[y] = L[y]
       /\ \A u : Follows(L, R, o, u) => Follows(L2, R, x, u)
       /\ \A z \in PtrLoc : \A u : L[z] = c /\ z # x /\ z # o /\ Follows(L, R, z, u) => Follows(L2, R, z, u)
  BY <1>5, <1>6, <1>9, <1>12, TakeOff
<1>14. /\ Len(idx') = Len(idx) /\ RecOff' = RecOff /\ PtrLoc' = PtrLoc
       /\ \A y \in RecOff : y # o => Rec(y)' = Rec(y)
       /\ Rec(o)' = [ptr |-> d[p].freeptr, key |-> Blank, klen |-> KeyLen[d[p].idxbuf],
                     datoff |-> d[p].datoff, datlen |-> d[p].datlen]
       /\ \A z \in PtrLoc : z # o => Field(z)' = Field(z)
  BY <1>1, <1>2, <1>5, WriteIdx
<1>15. /\ Rec(o)'.ptr = tbl[0] /\ Rec(o)'.key = Blank
       /\ Rec(o)'.datoff = Rec(o).datoff /\ Rec(o)'.datlen = Rec(o).datlen
  BY <1>6, <1>7, <1>14
<1>16. /\ \A a, b : Follows(L2, R, a, b)' <=> Follows(L2, R, a, b)
       /\ \A l : On(L2, l)' = On(L2, l)
       /\ Shape(L2, R)'
  BY <1>13, <1>14, SameOff
<1>17. ASSUME NEW l \in 0 .. NHASH, l # c PROVE SameList(L, R, L2, R, l)
  <2>1. On(L2, l)' = On(L, l)
    BY <1>13, <1>16, <1>17
  <2>2. l \in Nat /\ l # o
    <3>1. o > NHASH
      BY <1>5, <1>9, LenNat DEF RecOff, FirstRec
    <3> QED BY <1>9, <3>1
  <2>3. \A y \in On(L, l) \cup {l} : y \in Nat /\ L[y] = l /\ y # o
    BY <1>5, <1>10, <1>17, <2>2 DEF On
  <2>4. \A y \in On(L, l) \cup {l} : L2[y] = l
    BY <1>13, <2>3
  <2>5. \A y \in On(L, l) : y \in RecOff
    BY DEF On
  <2>6. tbl'[l] = tbl[l]
    BY <1>1
  <2> QED BY <1>14, <2>1, <2>3, <2>4, <2>5, <2>6 DEF SameList
<1>18. \A z : /\ ~CutAt(p, z) /\ (CutAt(p, z)' <=> z = x)
              /\ \A q \in Procs : q # p => (CutAt(q, z)' <=> CutAt(q, z))
  BY <1>1, <1>8 DEF CutAt, Others
<1>19. \A q \in Procs : \A z : CutAt(q, z) => L[z] # c
  <2> SUFFICES ASSUME NEW q \in Procs, NEW z, CutAt(q, z) PROVE L[z] # c
    OBVIOUS
  <2>1. L[z] = d[q].chainoff /\ pc[q] \in ChainLabels /\ q # p
    BY <1>18, CutsOwn, LabelFacts DEF CutAt, DelLabels
  <2>2. d[q].chainoff # c
    BY <1>2, <1>4, <2>1, OtherChain
  <2> QED BY <2>1, <2>2
<1>20. Linked(L2, R)'
  <2>1. ASSUME NEW l \in 0 .. NHASH, l # c PROVE LinkedOn(L2, R, l)'
    <3>1. SameList(L, R, L2, R, l)
      BY <1>17, <2>1
    <3>2. \A z \in PtrLoc : L[z] = l =>
            (CutAt(p, z)' <=> CutAt(p, z)) /\ (CutAt(p, z) => d'[p].saveptr = d[p].saveptr)
      BY <1>6, <1>18, <2>1
    <3>3. Others(p) /\ \A h \in 0 .. NHASH : L2[h] = h
      BY <1>1, <1>13, ShapeFacts
    <3> QED BY <3>1, <3>2, <3>3, LinkedSame
  <2>2. LinkedOn(L2, R, c)'
    <3> SUFFICES ASSUME NEW z \in PtrLoc, L2[z] = c
                 PROVE  /\ (\A q \in Procs : ~CutAt(q, z)') => Follows(L2, R, z, Field(z))'
                        /\ \A q \in Procs : CutAt(q, z)' => Follows(L2, R, z, d[q].saveptr)'
      BY <1>14 DEF LinkedOn
    <3>1. z # o /\ L[z] = c
      BY <1>9, <1>10, <1>13
    <3>2. \A q \in Procs : CutAt(q, z)' => q = p /\ z = x
      BY <1>18, <1>19, <3>1
    <3>3. CASE z = x
      <4>1. Follows(L2, R, x, w)
        BY <1>11, <1>13
      <4>2. Follows(L2, R, x, w)'
        BY <1>16, <4>1
      <4>3. Follows(L2, R, z, d[p].saveptr)'
        BY <1>8, <3>3, <4>2
      <4> QED BY <1>18, <3>2, <3>3, <4>3
    <3>4. CASE z # x
      <4>1. Follows(L, R, z, Field(z))
        BY <1>1, <1>2, <1>4, <3>1, NotCut
      <4>2. Follows(L2, R, z, Field(z))
        BY <1>13, <3>1, <3>4, <4>1
      <4>3. Field(z)' = Field(z)
        BY <1>14, <3>1
      <4>4. Follows(L2, R, z, Field(z))'
        BY <1>16, <4>2, <4>3
      <4> QED BY <3>2, <3>4, <4>4
    <3> QED BY <3>3, <3>4
  <2>3. \A l \in 0 .. NHASH : LinkedOn(L2, R, l)'
    BY <2>1, <2>2
  <2> QED BY <1>16, <2>3, LinkedAll
<1>21. Sorted(L)
  BY DEF Good
<1>22. Sorted(L2)'
  <2>1. \A y \in RecOff : L2[y] # -1 => y # o /\ L2[y] = L[y] /\ Rec(y)' = Rec(y)
    BY <1>10, <1>13, <1>14
  <2>2. \A y \in RecOff : L2[y] \in -1 .. NHASH
    BY <1>10, <1>13 DEF Shape
  <2>3. \A y \in RecOff : (L2[y] = 0 \/ L2[y] >= 1) => L2[y] = L[y] /\ Rec(y)' = Rec(y)
    BY <1>9, <2>1, <2>2
  <2> QED BY <1>14, <1>21, <2>3 DEF Sorted, ChainOff
<1>23. Apart'
  <2>1. \A y \in RecOff : Rec(y)'.datoff = Rec(y).datoff
    BY <1>14, <1>15
  <2> QED BY <1>1, <1>3, <1>14, <2>1, ApartFrame
<1>24. Sized'
  <2>1. Sized /\ Blank \notin Keys
    BY ConstAssumption DEF Good
  <2> QED BY <1>1, <1>14, <1>15, <2>1, SizedFrame
<1>25. \A q \in Procs : q # p /\ Owns(q) =>
          \A y : y = d[q].idxoff => y \in RecOff' /\ L2[y] = -1 /\ Rec(y)' = Rec(y)
  <2>1. \A q \in Procs : Owns(q) => d[q].idxoff \in RecOff /\ L[d[q].idxoff] = -1
    BY DEF Good, Knows, OwnOK
  <2> QED BY <1>5, <1>10, <1>13, <1>14, <2>1
<1>26. OwnApart' /\ Kept(L2)'
  <2>1. \A y \in RecOff' : L2[y] = -1 /\ y <= PTR_MAX =>
            \/ Owns(p)' /\ d'[p].idxoff = y
            \/ y \in RecOff /\ L[y] = -1 /\ ~(Owns(p) /\ d[p].idxoff = y)
    BY <1>3, <1>8, <1>10, <1>13, <1>14
  <2>2. \A q \in Procs : q # p /\ Owns(q) /\ Owns(p)' => d[q].idxoff # d'[p].idxoff
    BY <1>5, <1>8
  <2> QED BY <1>1, <2>1, <2>2, OwnersFrame
<1>27. Knows(L2, R, p)'
  <2>1. \A y \in On(L2, c) : y # o /\ y \in On(L, c) /\ y \in RecOff /\ Rec(y)' = Rec(y)
    BY <1>13, <1>14 DEF On
  <2>2. \A y \in On(L, c) : Rec(y).key = n => y = o
    <3> SUFFICES ASSUME NEW y \in On(L, c), Rec(y).key = n PROVE y = o
      OBVIOUS
    <3>1. y \in RecOff /\ L[y] >= 1 /\ L[o] >= 1
      BY <1>5, <1>9 DEF On
    <3> QED BY <1>5, <1>6, <1>21, <3>1 DEF Sorted
  <2>3. \A y \in On(L2, c)' : Rec(y)'.key # n
    BY <1>16, <2>1, <2>2
  <2>4. NotOn(L2, p)'
    BY <1>1, <1>2, <1>8, <2>3 DEF NotOn
  <2>5. ChainOK(L2, R, p)'
    BY <1>1, <1>8, <1>13, <2>4 DEF ChainOK, HitLabels, InsLabels, NewLabels, FfLabels
  <2>6. FreeOK(L2, R, p)'
    BY <1>1, <1>8, <1>15 DEF FreeOK, FfLabels
  <2>7. OwnOK(L2, p)'
    BY <1>1, <1>3, <1>5, <1>8, <1>13, <1>14, <1>15 DEF OwnOK
  <2> QED BY <2>5, <2>6, <2>7 DEF Knows
<1>28. Expects(p)'
  <2>1. Expects(p)
    BY DEF Good
  <2> QED BY <1>1, <2>1 DEF Expects, DelLabels, InsLabels, NewLabels, FfLabels
<1>29. Agrees(L2)'
  <2>1. ASSUME NEW k \in Keys, k # n PROVE KeySame(L, L2, k)
    <3>1. PICK l : l = ChainOff(k)
      OBVIOUS
    <3>2. l \in 0 .. NHASH
      BY <3>1, ConstAssumption DEF ChainOff, HASH_OFF
    <3>3. CASE l # c
      BY <1>1, <1>17, <3>1, <3>2, <3>3, KeyOther
    <3>4. CASE l = c
      <4>1. \A y : y # o => (y \in On(L2, c)' <=> y \in On(L, c))
        BY <1>13, <1>16
      <4>2. \A y \in On(L, c) : y # o => Rec(y)'.key = Rec(y).key /\ Rec(y)'.datoff = Rec(y).datoff
        BY <1>14 DEF On
      <4>3. o \notin On(L2, c)' /\ Rec(o).key # k
        BY <1>6, <1>13, <1>16, <2>1
      <4>4. dat' = dat /\ c = ChainOff(k)
        BY <1>1, <3>1, <3>4
      <4> QED BY <4>1, <4>2, <4>3, <4>4, KeyOwn
    <3> QED BY <3>3, <3>4
  <2>2. InFlux(p)' /\ arg'[p].key = n
    BY <1>1, <1>2 DEF InFlux
  <2> QED BY <1>1, <1>2, <1>5, <2>1, <2>2, AgreesFrame
<1>30. Paired'
  <2>1. Scans(p)'
    BY <1>1 DEF Scans
  <2>2. arg'[p].op = "store" => arg'[p].val \in Data[arg'[p].key]
    BY <1>1 DEF Good, Paired
  <2>3. \A y \in RecOff' : y # o =>
            /\ y \in RecOff /\ Rec(y)'.key = Rec(y).key /\ Rec(y)'.datoff = Rec(y).datoff
            /\ dat'[Rec(y).datoff].val = dat[Rec(y).datoff].val
    BY <1>1, <1>14
  <2>4. d[p].idxoff = o /\ Rec(o)'.key = Blank
    BY <1>2, <1>15
  <2> QED BY <1>1, <1>4, <2>1, <2>2, <2>3, <2>4, PairedFrame
<1>31. \A l \in 1 .. NHASH : l # d[p].chainoff => SameList(L, R, L2, R, l)
  BY <1>2, <1>9, <1>17
<1>32. Good(L2, R)'
  BY <1>1, <1>4, <1>16, <1>20, <1>22, <1>23, <1>24, <1>25, <1>26, <1>27, <1>28, <1>29, <1>30, <1>31, IdxGood
<1> QED BY <1>32

LEMMA DelHeadGood ==
  ASSUME TypeOK, TypeOK', PcInv, LockInv, NEW L, NEW R, Good(L, R), Alone', NEW p \in Procs, DelHead(p)
  PROVE  \E L2, R2 : Good(L2, R2)'
<1>1. /\ Others(p) /\ pc[p] = "del_head" /\ pc'[p] = "del_unlink"
      /\ arg' = arg /\ d' = d /\ map' = map
      /\ _db_writeptr(p, 0, d[p].idxoff)
  BY DEF DelHead, At, Goto, TypeOK, Others, FREE_OFF
<1>2. PICK o, c, h, x : o = d[p].idxoff /\ c = d[p].chainoff /\ h = tbl[0] /\ x = d[p].ptroff
  OBVIOUS
<1>3. Owns(p) /\ ~Owns(p)' /\ ~Reusing(p)' /\ ~NewDat(p)' /\ ~NewDat(p)
  BY <1>1 DEF Owns, Reusing, NewDat
<1>4. /\ pc[p] \in ChainLabels /\ pc[p] \in FreeLabels /\ IsWrite(arg[p])
      /\ c \in 1 .. NHASH /\ arg[p].key \in Keys /\ d[p] \in DbType /\ o <= PTR_MAX
  <2>1. pc[p] \in DelLabels /\ pc[p] \in FreeLabels
    BY <1>1 DEF DelLabels, FreeLabels
  <2>2. pc[p] \in ChainLabels /\ IsWrite(arg[p])
    BY <2>1, LabelFacts, Writes
  <2> QED BY <1>2, <2>1, <2>2, OnChain DEF PcInv, PcOK
<1>5. o \in RecOff /\ L[o] = -1 /\ Rec(o).key = Blank
  BY <1>1, <1>2, <1>3 DEF Good, Knows, OwnOK
<1>6. NotOn(L, p) /\ L[x] = c /\ Rec(o).ptr = h
  BY <1>1, <1>2 DEF Good, Knows, ChainOK, FreeOK, MissLabels
<1>7. Shape(L, R) /\ NHASH \in Nat /\ 0 \in 0 .. NHASH /\ c \in 0 .. NHASH /\ c # 0 /\ c # -1
  BY <1>4, ConstAssumption DEF Good
<1>8. /\ RecOff \subseteq Nat /\ PtrLoc \subseteq Nat /\ (\A l \in 0 .. NHASH : L[l] = l)
      /\ 0 \in PtrLoc /\ 0 < FirstRec /\ 0 \notin RecOff /\ x \in PtrLoc /\ x \in Nat
  <2>1. RecOff \subseteq Nat /\ PtrLoc \subseteq Nat /\ \A l \in 0 .. NHASH : L[l] = l
    BY <1>7, ShapeFacts
  <2>2. 0 \in PtrLoc /\ 0 < FirstRec /\ 0 \notin RecOff
    BY <1>7, LenNat DEF PtrLoc, FirstRec, RecOff
  <2>3. x \in PtrLoc
    BY <1>2, <1>4 DEF DbType
  <2> QED BY <2>1, <2>2, <2>3
<1>9. Follows(L, R, 0, h)
  <2>1. L[0] = 0 /\ Field(0) = h
    BY <1>2, <1>7, <1>8 DEF Field
  <2>2. Follows(L, R, 0, Field(0))
    BY <1>8, <2>1, NotCut
  <2> QED BY <2>1, <2>2
<1>10. PICK L2, R2 : WithHead(L, R, 0, o, L2, R2)
  BY <1>5, <1>7, WithHeadIs
<1>11. /\ Shape(L2, R2)
       /\ On(L2, 0) = On(L, 0) \cup {o} /\ o \notin On(L, 0)
       /\ \A m \in 0 .. NHASH : m # 0 => On(L2, m) = On(L, m)
       /\ L2[o] = 0 /\ o # 0 /\ \A y \in Nat : y # o => L2[y] = L[y]
       /\ \A y \in Nat : y # o /\ y # 0 => R2[y] = R[y]
       /\ Follows(L2, R2, 0, o) /\ Follows(L2, R2, o, h)
       /\ \A z \in PtrLoc : \A u : L[z] = 0 /\ z # 0 /\ Follows(L, R, z, u) => Follows(L2, R2, z, u)
  <2>1. PICK l \in 0 .. NHASH : l = 0
    BY <1>7
  <2>2. Follows(L, R, l, h) /\ WithHead(L, R, l, o, L2, R2)
    BY <1>9, <1>10, <2>1
  <2>3. /\ Shape(L2, R2)
        /\ On(L2, l) = On(L, l) \cup {o} /\ o \notin On(L, l)
        /\ \A m \in 0 .. NHASH : m # l => On(L2, m) = On(L, m)
        /\ L2[o] = l /\ o # l /\ \A y \in Nat : y # o => L2[y] = L[y]
        /\ \A y \in Nat : y # o /\ y # l => R2[y] = R[y]
        /\ Follows(L2, R2, l, o) /\ Follows(L2, R2, o, h)
        /\ \A z \in PtrLoc : \A u : L[z] = l /\ z # l /\ Follows(L, R, z, u) => Follows(L2, R2, z, u)
    BY <1>4, <1>5, <1>7, <2>2, PutAtHead
  <2> QED BY <2>1, <2>3
<1>12. /\ dat' = dat /\ Len(idx') = Len(idx) /\ RecOff' = RecOff /\ PtrLoc' = PtrLoc
       /\ \A l \in 0 .. NHASH : l # 0 => tbl'[l] = tbl[l]
       /\ \A y \in RecOff : Rec(y)' = Rec(y)
       /\ Field(0)' = o /\ \A z \in PtrLoc : z # 0 => Field(z)' = Field(z)
  BY <1>1, <1>2, <1>8, WritePtr
<1>13. /\ \A a, b : Follows(L2, R2, a, b)' <=> Follows(L2, R2, a, b)
       /\ \A l : On(L2, l)' = On(L2, l)
       /\ Shape(L2, R2)'
  BY <1>11, <1>12, SameOff
<1>14. ASSUME NEW l \in 0 .. NHASH, l # 0 PROVE SameList(L, R, L2, R2, l)
  <2>1. On(L2, l)' = On(L, l)
    BY <1>11, <1>13, <1>14
  <2>2. l \in Nat /\ l # -1 /\ l # o
    <3>1. o > NHASH
      BY <1>5, <1>7, LenNat DEF RecOff, FirstRec
    <3> QED BY <1>7, <3>1
  <2>3. \A y \in On(L, l) \cup {l} : y \in Nat /\ L[y] = l /\ y # o /\ y # 0
    BY <1>5, <1>8, <1>14, <2>2 DEF On
  <2>4. \A y \in On(L, l) \cup {l} : L2[y] = l /\ R2[y] = R[y]
    BY <1>11, <2>3
  <2>5. \A y \in On(L, l) : y \in RecOff
    BY DEF On
  <2> QED BY <1>12, <1>14, <2>1, <2>4, <2>5 DEF SameList
<1>15. \A q \in Procs : \A z : (CutAt(q, z)' <=> CutAt(q, z))
  BY <1>1 DEF CutAt, Others
<1>16. \A q \in Procs : \A z : CutAt(q, z) => L[z] # 0 /\ L[z] # -1
  <2> SUFFICES ASSUME NEW q \in Procs, NEW z, CutAt(q, z) PROVE L[z] # 0 /\ L[z] # -1
    OBVIOUS
  <2>1. L[z] = d[q].chainoff /\ pc[q] \in ChainLabels
    BY CutsOwn, LabelFacts DEF CutAt, DelLabels
  <2>2. d[q].chainoff \in 1 .. NHASH
    BY <2>1, OnChain
  <2> QED BY <1>7, <2>1, <2>2
<1>17. Linked(L2, R2)'
  <2>1. ASSUME NEW l \in 0 .. NHASH, l # 0 PROVE LinkedOn(L2, R2, l)'
    <3>1. SameList(L, R, L2, R2, l)
      BY <1>14, <2>1
    <3>2. \A z \in PtrLoc : L[z] = l =>
            (CutAt(p, z)' <=> CutAt(p, z)) /\ (CutAt(p, z) => d'[p].saveptr = d[p].saveptr)
      BY <1>1, <1>15
    <3>3. Others(p) /\ \A y \in 0 .. NHASH : L2[y] = y
      BY <1>1, <1>11, ShapeFacts
    <3> QED BY <3>1, <3>2, <3>3, LinkedSame
  <2>2. LinkedOn(L2, R2, 0)'
    <3> SUFFICES ASSUME NEW z \in PtrLoc, L2[z] = 0
                 PROVE  Follows(L2, R2, z, Field(z))' /\ \A q \in Procs : ~CutAt(q, z)'
      BY <1>12 DEF LinkedOn
    <3>1. z = o \/ L[z] = 0
      BY <1>8, <1>11
    <3>2. \A q \in Procs : ~CutAt(q, z)'
      BY <1>5, <1>15, <1>16, <3>1
    <3>3. CASE z = o
      <4>1. Field(o)' = h
        BY <1>5, <1>6, <1>11, <1>12, RecField
      <4> QED BY <1>11, <1>13, <3>2, <3>3, <4>1
    <3>4. CASE z = 0
      BY <1>11, <1>12, <1>13, <3>2, <3>4
    <3>5. CASE z # o /\ z # 0
      <4>1. L[z] = 0
        BY <3>1, <3>5
      <4>2. Follows(L, R, z, Field(z))
        BY <4>1, NotCut
      <4>3. Follows(L2, R2, z, Field(z))
        BY <1>11, <3>5, <4>1, <4>2
      <4>4. Field(z)' = Field(z)
        BY <1>12, <3>5
      <4> QED BY <1>13, <3>2, <4>3, <4>4
    <3> QED BY <3>3, <3>4, <3>5
  <2>3. \A l \in 0 .. NHASH : LinkedOn(L2, R2, l)'
    BY <2>1, <2>2
  <2> QED BY <1>13, <2>3, LinkedAll
<1>18. Sorted(L2)'
  <2>1. Sorted(L)
    BY DEF Good
  <2>2. \A y \in RecOff : y # o => L2[y] = L[y]
    BY <1>8, <1>11
  <2>3. \A y \in RecOff : L2[y] = 0 => Rec(y).key = Blank
    BY <1>5, <2>1, <2>2 DEF Sorted
  <2>4. \A y \in RecOff : L2[y] >= 1 => y # o /\ L2[y] = L[y]
    BY <1>11, <2>2
  <2> QED BY <1>12, <2>1, <2>3, <2>4 DEF Sorted, ChainOff
<1>19. Apart'
  BY <1>1, <1>3, <1>12, ApartFrame
<1>20. Sized'
  <2>1. Sized
    BY DEF Good
  <2> QED BY <1>12, <2>1 DEF Sized
<1>21. \A q \in Procs : q # p /\ Owns(q) =>
          d[q].idxoff # o /\ d[q].idxoff \in RecOff /\ L[d[q].idxoff] = -1
  BY <1>2, <1>3 DEF Good, Knows, OwnOK, OwnApart
<1>22. \A q \in Procs : q # p /\ Owns(q) =>
          \A y : y = d[q].idxoff => y \in RecOff' /\ L2[y] = -1 /\ Rec(y)' = Rec(y)
  BY <1>8, <1>11, <1>12, <1>21, ZenonT(30)
<1>23. OwnApart' /\ Kept(L2)'
  <2>1. \A y \in RecOff' : L2[y] = -1 /\ y <= PTR_MAX =>
            \/ Owns(p)' /\ d'[p].idxoff = y
            \/ y \in RecOff /\ L[y] = -1 /\ ~(Owns(p) /\ d[p].idxoff = y)
    <3>1. L2[o] = 0 /\ (\A y \in Nat : y # o => L2[y] = L[y]) /\ RecOff' = RecOff /\ RecOff \subseteq Nat
      BY <1>8, <1>11, <1>12
    <3>2. ASSUME NEW y \in RecOff, L2[y] = -1 PROVE L[y] = -1 /\ d[p].idxoff # y
      <4>1. y # o
        BY <3>1, <3>2
      <4> QED BY <1>2, <3>1, <3>2, <4>1
    <3> QED BY <3>1, <3>2
  <2> QED BY <1>1, <1>3, <2>1, OwnersFrame
<1>24. Knows(L2, R2, p)'
  <2>1. L2[x] = c
    BY <1>5, <1>6, <1>7, <1>8, <1>11
  <2>2. On(L2, c)' = On(L, c) /\ \A y \in On(L, c) : Rec(y)' = Rec(y)
    BY <1>7, <1>14 DEF SameList
  <2>3. NotOn(L2, p)'
    BY <1>1, <1>2, <1>6, <2>2 DEF NotOn
  <2>4. ChainOK(L2, R2, p)'
    BY <1>1, <1>2, <2>1, <2>3 DEF ChainOK, HitLabels, InsLabels, NewLabels, FfLabels
  <2>5. FreeOK(L2, R2, p)' /\ OwnOK(L2, p)'
    BY <1>1, <1>3 DEF FreeOK, OwnOK, FfLabels
  <2> QED BY <2>4, <2>5 DEF Knows
<1>25. Expects(p)'
  <2>1. Expects(p)
    BY DEF Good
  <2> QED BY <1>1, <2>1 DEF Expects, DelLabels, InsLabels, NewLabels, FfLabels
<1>26. Agrees(L2)'
  <2>1. ASSUME NEW k \in Keys PROVE KeySame(L, L2, k)
    <3>1. PICK l : l = ChainOff(k)
      OBVIOUS
    <3>2. l \in 0 .. NHASH /\ l # 0
      BY <3>1, ConstAssumption DEF ChainOff, HASH_OFF
    <3> QED BY <1>12, <1>14, <3>1, <3>2, KeyOther
  <2>2. InFlux(p)' /\ arg'[p].key = arg[p].key
    BY <1>1 DEF InFlux
  <2>3. PICK n : n = arg[p].key
    OBVIOUS
  <2> QED BY <1>1, <1>4, <2>1, <2>2, <2>3, AgreesFrame
<1>27. Paired'
  <2>1. Scans(p)'
    BY <1>1 DEF Scans
  <2>2. arg'[p].op = "store" => arg'[p].val \in Data[arg'[p].key]
    BY <1>1 DEF Good, Paired
  <2>3. 0 \notin RecOff'
    BY <1>8, <1>12
  <2>4. \A y \in RecOff' : y # 0 =>
            /\ y \in RecOff /\ Rec(y)'.key = Rec(y).key /\ Rec(y)'.datoff = Rec(y).datoff
            /\ dat'[Rec(y).datoff].val = dat[Rec(y).datoff].val
    BY <1>12
  <2>5. pc[p] \notin {"del_free", "del_idx"}
    BY <1>1
  <2> QED BY <1>1, <1>4, <2>1, <2>2, <2>3, <2>4, <2>5, PairedFrame
<1>28. \A l \in 1 .. NHASH : l # d[p].chainoff => SameList(L, R, L2, R2, l)
  BY <1>7, <1>14
<1>29. \A q \in Procs : q # p /\ pc[q] \in {"del_idx", "del_head"} => tbl'[0] = tbl[0]
  BY <1>4, OneDeleter DEF FreeLabels, DelLabels
<1>30. \A k \in Keys : k # arg[p].key => map'[k] = map[k]
  BY <1>1
<1>31. Good(L2, R2)'
  BY <1>1, <1>4, <1>12, <1>13, <1>17, <1>18, <1>19, <1>20, <1>22, <1>23, <1>24, <1>25, <1>26, <1>27,
     <1>28, <1>29, <1>30, IdxGood
<1> QED BY <1>31

LEMMA DelUnlinkGood ==
  ASSUME TypeOK, TypeOK', PcInv, LockInv, NEW L, NEW R, Good(L, R), Alone', NEW p \in Procs, DelUnlink(p)
  PROVE  Good(L, R)'
<1>1. /\ Others(p) /\ pc[p] = "del_unlink" /\ pc'[p] = "del_unlock"
      /\ arg' = arg /\ d' = d
      /\ map' = IF arg[p].op = "delete" THEN [map EXCEPT ![arg[p].key] = NULL] ELSE map
      /\ _db_writeptr(p, d[p].ptroff, d[p].saveptr)
  BY DEF DelUnlink, At, Goto, TypeOK, Others
<1>2. PICK c, x, w, n : c = d[p].chainoff /\ x = d[p].ptroff /\ w = d[p].saveptr /\ n = arg[p].key
  OBVIOUS
<1>3. ~Owns(p) /\ ~Owns(p)' /\ ~Reusing(p)' /\ ~NewDat(p)' /\ ~NewDat(p)
  BY <1>1 DEF Owns, Reusing, NewDat
<1>4. /\ pc[p] \in ChainLabels /\ pc[p] \in FreeLabels /\ IsWrite(arg[p])
      /\ c \in 1 .. NHASH /\ n \in Keys /\ c = ChainOff(n) /\ x \in PtrLoc
  <2>1. pc[p] \in DelLabels /\ pc[p] \in FreeLabels
    BY <1>1 DEF DelLabels, FreeLabels
  <2>2. pc[p] \in ChainLabels /\ IsWrite(arg[p])
    BY <2>1, LabelFacts, Writes
  <2> QED BY <1>2, <2>1, <2>2, OnChain DEF DbType
<1>5. NotOn(L, p) /\ L[x] = c
  BY <1>1, <1>2 DEF Good, Knows, ChainOK, MissLabels
<1>6. Shape(L, R) /\ Linked(L, R) /\ NHASH \in Nat /\ 0 \in 0 .. NHASH /\ c \in 0 .. NHASH /\ c # 0 /\ c # -1
  BY <1>4, ConstAssumption DEF Good
<1>7. RecOff \subseteq Nat /\ PtrLoc \subseteq Nat /\ \A l \in 0 .. NHASH : L[l] = l
  BY <1>6, ShapeFacts
<1>8. /\ dat' = dat /\ Len(idx') = Len(idx) /\ RecOff' = RecOff /\ PtrLoc' = PtrLoc
      /\ \A y \in RecOff : y # x => Rec(y)' = Rec(y)
      /\ \A y \in RecOff : /\ Rec(y)'.key = Rec(y).key /\ Rec(y)'.klen = Rec(y).klen
                           /\ Rec(y)'.datoff = Rec(y).datoff /\ Rec(y)'.datlen = Rec(y).datlen
      /\ \A l \in 0 .. NHASH : l # x => tbl'[l] = tbl[l]
      /\ Field(x)' = w /\ \A z \in PtrLoc : z # x => Field(z)' = Field(z)
  BY <1>1, <1>2, <1>4, WritePtr
<1>9. /\ \A a, b : Follows(L, R, a, b)' <=> Follows(L, R, a, b)
      /\ \A l : On(L, l)' = On(L, l)
      /\ Shape(L, R)'
  BY <1>6, <1>8, SameOff
<1>10. ASSUME NEW l \in 0 .. NHASH, l # c PROVE SameList(L, R, L, R, l)
  <2>1. l # x
    BY <1>5, <1>7, <1>10
  <2>2. \A y \in On(L, l) : y \in RecOff /\ L[y] = l /\ y # x
    BY <1>5, <1>10 DEF On
  <2> QED BY <1>7, <1>8, <1>9, <2>1, <2>2 DEF SameList
<1>11. \A z : /\ ~CutAt(p, z)' /\ (CutAt(p, z) <=> z = x)
              /\ \A q \in Procs : q # p => (CutAt(q, z)' <=> CutAt(q, z))
  BY <1>1, <1>2 DEF CutAt, Others
<1>12. \A q \in Procs : \A z : q # p /\ CutAt(q, z) => L[z] # c
  <2> SUFFICES ASSUME NEW q \in Procs, NEW z, q # p, CutAt(q, z) PROVE L[z] # c
    OBVIOUS
  <2>1. L[z] = d[q].chainoff /\ pc[q] \in ChainLabels
    BY CutsOwn, LabelFacts DEF CutAt, DelLabels
  <2>2. d[q].chainoff # c
    BY <1>2, <1>4, <2>1, OtherChain
  <2> QED BY <2>1, <2>2
<1>13. Linked(L, R)'
  <2>1. ASSUME NEW l \in 0 .. NHASH, l # c PROVE LinkedOn(L, R, l)'
    <3>1. SameList(L, R, L, R, l)
      BY <1>10, <2>1
    <3>2. \A z \in PtrLoc : L[z] = l =>
            (CutAt(p, z)' <=> CutAt(p, z)) /\ (CutAt(p, z) => d'[p].saveptr = d[p].saveptr)
      BY <1>5, <1>11, <2>1
    <3>3. Others(p) /\ \A y \in 0 .. NHASH : L[y] = y
      BY <1>1, <1>7
    <3> QED BY <3>1, <3>2, <3>3, LinkedSame
  <2>2. LinkedOn(L, R, c)'
    <3> SUFFICES ASSUME NEW z \in PtrLoc, L[z] = c
                 PROVE  Follows(L, R, z, Field(z))' /\ \A q \in Procs : ~CutAt(q, z)'
      BY <1>8 DEF LinkedOn
    <3>1. \A q \in Procs : ~CutAt(q, z)' /\ (q # p => ~CutAt(q, z))
      BY <1>11, <1>12
    <3>2. CASE z = x
      <4>1. CutAt(p, x)
        BY <1>11
      <4>2. Follows(L, R, x, w)
        BY <1>2, <1>4, <1>5, <1>6, <4>1 DEF Linked
      <4> QED BY <1>8, <1>9, <3>1, <3>2, <4>2
    <3>3. CASE z # x
      <4>1. \A q \in Procs : ~CutAt(q, z)
        BY <1>11, <3>1, <3>3
      <4>2. Follows(L, R, z, Field(z))
        BY <1>6, <4>1 DEF Linked
      <4>3. Field(z)' = Field(z)
        BY <1>8, <3>3
      <4> QED BY <1>9, <3>1, <4>2, <4>3
    <3> QED BY <3>2, <3>3
  <2>3. \A l \in 0 .. NHASH : LinkedOn(L, R, l)'
    BY <2>1, <2>2
  <2> QED BY <1>9, <2>3, LinkedAll
<1>14. Sorted(L)'
  <2>1. Sorted(L)
    BY DEF Good
  <2> QED BY <1>8, <2>1 DEF Sorted, ChainOff
<1>15. Apart'
  BY <1>1, <1>3, <1>8, ApartFrame
<1>16. Sized'
  <2>1. Sized
    BY DEF Good
  <2> QED BY <1>8, <2>1 DEF Sized
<1>17. \A q \in Procs : q # p /\ Owns(q) =>
          \A y : y = d[q].idxoff => y \in RecOff' /\ L[y] = -1 /\ Rec(y)' = Rec(y)
  <2>1. \A q \in Procs : Owns(q) => d[q].idxoff \in RecOff /\ L[d[q].idxoff] = -1
    BY DEF Good, Knows, OwnOK
  <2> QED BY <1>5, <1>6, <1>8, <2>1
<1>18. OwnApart' /\ Kept(L)'
  <2>1. \A y \in RecOff' : L[y] = -1 /\ y <= PTR_MAX =>
            \/ Owns(p)' /\ d'[p].idxoff = y
            \/ y \in RecOff /\ L[y] = -1 /\ ~(Owns(p) /\ d[p].idxoff = y)
    BY <1>3, <1>8
  <2> QED BY <1>1, <1>3, <2>1, OwnersFrame
<1>19. \A y \in On(L, c)' : Rec(y)'.key # n
  <2>1. \A y \in On(L, c) : y \in RecOff /\ Rec(y).key # n
    BY <1>2, <1>5 DEF NotOn, On
  <2> QED BY <1>8, <1>9, <2>1
<1>20. Knows(L, R, p)'
  <2>1. NotOn(L, p)'
    BY <1>1, <1>2, <1>19 DEF NotOn
  <2>2. ChainOK(L, R, p)'
    BY <1>1, <2>1 DEF ChainOK, HitLabels, InsLabels, NewLabels, FfLabels
  <2>3. FreeOK(L, R, p)' /\ OwnOK(L, p)'
    BY <1>1, <1>3 DEF FreeOK, OwnOK, FfLabels
  <2> QED BY <2>2, <2>3 DEF Knows
<1>21. /\ arg[p].op = "delete" => map'[n] = NULL
       /\ arg[p].op # "delete" => map'[n] = map[n]
       /\ \A k \in Keys : k # n => map'[k] = map[k]
  BY <1>1, <1>2, <1>4 DEF TypeOK
<1>22. Expects(p)'
  <2>1. Expects(p)
    BY DEF Good
  <2> QED BY <1>1, <1>2, <1>21, <2>1 DEF Expects, DelLabels, InsLabels, NewLabels, FfLabels
<1>23. Agrees(L)'
  <2>1. ASSUME NEW k \in Keys PROVE KeySame(L, L, k)
    <3>1. PICK l : l = ChainOff(k)
      OBVIOUS
    <3>2. 0 \notin On(L, l) /\ 0 \notin On(L, l)'
      BY <1>9, OffsetFacts DEF On
    <3>3. \A y : y # 0 => (y \in On(L, l)' <=> y \in On(L, l))
      BY <1>9
    <3>4. \A y \in On(L, l) : y # 0 => Rec(y)'.key = Rec(y).key /\ Rec(y)'.datoff = Rec(y).datoff
      BY <1>8 DEF On
    <3>5. dat' = dat
      BY <1>8
    <3> QED BY <3>1, <3>2, <3>3, <3>4, <3>5, KeyOwn
  <2>2. \/ InFlux(p)' /\ arg'[p].key = n
        \/ map'[n] = NULL /\ \A y \in On(L, ChainOff(n))' : Rec(y)'.key # n
    <3>1. CASE arg[p].op = "delete"
      BY <1>4, <1>19, <1>21, <3>1
    <3>2. CASE arg[p].op # "delete"
      BY <1>1, <1>2, <1>4, <3>2 DEF InFlux, IsWrite
    <3> QED BY <3>1, <3>2
  <2> QED BY <1>1, <1>2, <1>4, <1>21, <2>1, <2>2, AgreesFrame
<1>24. Paired'
  <2>1. Scans(p)'
    BY <1>1 DEF Scans
  <2>2. arg'[p].op = "store" => arg'[p].val \in Data[arg'[p].key]
    BY <1>1 DEF Good, Paired
  <2>3. 0 \notin RecOff'
    BY <1>8, OffsetFacts
  <2>4. \A y \in RecOff' : y # 0 =>
            /\ y \in RecOff /\ Rec(y)'.key = Rec(y).key /\ Rec(y)'.datoff = Rec(y).datoff
            /\ dat'[Rec(y).datoff].val = dat[Rec(y).datoff].val
    BY <1>8
  <2>5. pc[p] \notin {"del_free", "del_idx"}
    BY <1>1
  <2> QED BY <1>1, <1>4, <2>1, <2>2, <2>3, <2>4, <2>5, PairedFrame
<1>25. \A l \in 1 .. NHASH : l # d[p].chainoff => SameList(L, R, L, R, l)
  BY <1>2, <1>6, <1>10
<1>26. tbl'[0] = tbl[0]
  BY <1>5, <1>6, <1>7, <1>8
<1>27. \A k \in Keys : k # arg[p].key => map'[k] = map[k]
  BY <1>2, <1>21
<1> QED
  BY <1>1, <1>4, <1>8, <1>9, <1>13, <1>14, <1>15, <1>16, <1>17, <1>18, <1>20, <1>22, <1>23, <1>24,
     <1>25, <1>26, <1>27, IdxGood

LEMMA LinkFailsGood ==
  ASSUME TypeOK, TypeOK', PcInv, LockInv, NEW L, NEW R, Good(L, R), Alone', NEW p \in Procs, LinkFails(p)
  PROVE  Good(L, R)'
<1>1. /\ Others(p) /\ pc[p] = "link" /\ pc'[p] = "dead" /\ d[p].idxoff > PTR_MAX
      /\ arg'[p] = NoArg /\ tbl' = tbl /\ idx' = idx /\ dat' = dat
      /\ map' = [map EXCEPT ![arg[p].key] = NULL]
  BY DEF LinkFails, Dies, At, SetDb, TypeOK, Others, files
<1>2. PICK n : n = arg[p].key
  OBVIOUS
<1>3. Owns(p) /\ ~Owns(p)' /\ ~Reusing(p)' /\ ~NewDat(p)' /\ ~NewDat(p)
  BY <1>1 DEF Owns, Reusing, NewDat
<1>4. pc[p] \in ChainLabels /\ IsWrite(arg[p]) /\ n \in Keys /\ d[p].chainoff = ChainOff(n)
  <2>1. pc[p] \in StoreLabels
    BY <1>1 DEF StoreLabels
  <2>2. pc[p] \in ChainLabels /\ IsWrite(arg[p])
    BY <2>1, LabelFacts, Writes
  <2> QED BY <1>2, <2>2, OnChain
<1>5. NotOn(L, p)
  BY <1>1 DEF Good, Knows, ChainOK, MissLabels, InsLabels, NewLabels
<1>6. Shape(L, R) /\ NHASH \in Nat /\ 0 \in 0 .. NHASH
  BY ConstAssumption DEF Good
<1>7. /\ RecOff' = RecOff /\ PtrLoc' = PtrLoc
      /\ \A x : Rec(x)' = Rec(x)
      /\ \A l : On(L, l)' = On(L, l)
      /\ Shape(L, R)'
      /\ Sorted(L)' <=> Sorted(L)
      /\ \A l \in 0 .. NHASH : SameList(L, R, L, R, l)
  BY <1>1, <1>6, SameIdx
<1>8. Linked(L, R)'
  <2>1. ASSUME NEW l \in 0 .. NHASH PROVE LinkedOn(L, R, l)'
    <3>1. SameList(L, R, L, R, l)
      BY <1>7
    <3>2. \A z \in PtrLoc : L[z] = l =>
            (CutAt(p, z)' <=> CutAt(p, z)) /\ (CutAt(p, z) => d'[p].saveptr = d[p].saveptr)
      BY <1>1 DEF CutAt
    <3>3. Others(p) /\ \A y \in 0 .. NHASH : L[y] = y
      BY <1>1, <1>6, ShapeFacts
    <3> QED BY <3>1, <3>2, <3>3, LinkedSame
  <2> QED BY <1>7, <2>1, LinkedAll
<1>9. Sorted(L)'
  BY <1>7 DEF Good
<1>10. Apart'
  BY <1>1, <1>3, <1>7, ApartFrame
<1>11. Sized'
  <2>1. Sized
    BY DEF Good
  <2> QED BY <1>1, <1>7, <2>1 DEF Sized
<1>12. \A q \in Procs : q # p /\ Owns(q) =>
          \A y : y = d[q].idxoff => y \in RecOff' /\ L[y] = -1 /\ Rec(y)' = Rec(y)
  <2>1. \A q \in Procs : Owns(q) => d[q].idxoff \in RecOff /\ L[d[q].idxoff] = -1
    BY DEF Good, Knows, OwnOK
  <2> QED BY <1>7, <2>1
<1>13. OwnApart' /\ Kept(L)'
  <2>1. RecOff \subseteq Nat /\ PTR_MAX \in Nat
    BY <1>6, ShapeFacts, ConstAssumption
  <2>2. \A y \in RecOff' : L[y] = -1 /\ y <= PTR_MAX =>
            \/ Owns(p)' /\ d'[p].idxoff = y
            \/ y \in RecOff /\ L[y] = -1 /\ ~(Owns(p) /\ d[p].idxoff = y)
    BY <1>1, <1>7, <2>1
  <2> QED BY <1>1, <1>3, <2>2, OwnersFrame
<1>14. Knows(L, R, p)'
  BY <1>1, <1>3 DEF Knows, ChainOK, FreeOK, OwnOK, HitLabels, MissLabels, InsLabels, NewLabels, FfLabels
<1>15. Expects(p)'
  BY <1>1 DEF Expects, DelLabels, InsLabels, NewLabels, FfLabels
<1>16. map'[n] = NULL /\ \A k \in Keys : k # n => map'[k] = map[k]
  BY <1>1, <1>2, <1>4 DEF TypeOK
<1>17. Agrees(L)'
  <2>1. ASSUME NEW k \in Keys PROVE KeySame(L, L, k)
    <3>1. ChainOff(k) \in 0 .. NHASH
      BY ConstAssumption DEF ChainOff, HASH_OFF
    <3> QED BY <1>1, <1>7, <3>1, KeyOther
  <2>2. \A y \in On(L, ChainOff(n))' : Rec(y)'.key # n
    BY <1>2, <1>4, <1>5, <1>7 DEF NotOn
  <2> QED BY <1>1, <1>2, <1>4, <1>16, <2>1, <2>2, AgreesFrame
<1>18. Paired'
  <2>1. Scans(p)'
    BY <1>1 DEF Scans
  <2>2. arg'[p].op # "store"
    BY <1>1 DEF NoArg
  <2>3. 0 \notin RecOff'
    BY <1>7, OffsetFacts
  <2>4. \A y \in RecOff' : y # 0 =>
            /\ y \in RecOff /\ Rec(y)'.key = Rec(y).key /\ Rec(y)'.datoff = Rec(y).datoff
            /\ dat'[Rec(y).datoff].val = dat[Rec(y).datoff].val
    BY <1>1, <1>7
  <2>5. \A y \in RecOff : y \in RecOff' /\ Rec(y)'.key = Rec(y).key /\ Rec(y)'.datoff = Rec(y).datoff
    BY <1>7
  <2>6. pc[p] \notin {"del_free", "del_idx"}
    BY <1>1
  <2> QED BY <1>1, <2>1, <2>2, <2>3, <2>4, <2>5, <2>6, PairedFrame
<1>19. \A l \in 1 .. NHASH : l # d[p].chainoff => SameList(L, R, L, R, l)
  BY <1>6, <1>7
<1>20. \A k \in Keys : k # arg[p].key => map'[k] = map[k]
  BY <1>2, <1>16
<1> QED
  BY <1>1, <1>4, <1>7, <1>8, <1>9, <1>10, <1>11, <1>12, <1>13, <1>14, <1>15, <1>17, <1>18, <1>19, <1>20, IdxGood

-----------------------------------------------------------------------------
(***************************************************************************)
(* The invariant is inductive.                                             *)
(***************************************************************************)
AllGood == \E L, R : Good(L, R)
ListInv == TypeOK /\ PcInv /\ LockInv /\ AllGood

LEMMA GoodInit == Init => AllGood
<1> SUFFICES ASSUME Init PROVE AllGood
  OBVIOUS
<1> DEFINE L0 == [x \in Nat |-> IF x <= NHASH THEN x ELSE -1]
           R0 == [x \in Nat |-> 1]
<1>1. TypeOK /\ PcInv /\ NHASH \in Nat
  BY InitOK, ConstAssumption
<1>2. Len(idx) = 0 /\ RecOff = {} /\ PtrLoc = 0 .. NHASH
  BY <1>1 DEF Init, RecOff, PtrLoc, FirstRec
<1>3. \A x \in PtrLoc : Field(x) = 0
  BY <1>1, <1>2 DEF Init, Field, FirstRec
<1>4. PICK L, R : L = L0 /\ R = R0
  OBVIOUS
<1>5. L \in [Nat -> -1 .. NHASH] /\ R \in [Nat -> Nat]
  BY <1>1, <1>4
<1>6. \A x \in Nat : (x <= NHASH => L[x] = x) /\ (x > NHASH => L[x] = -1)
  BY <1>1, <1>4
<1> HIDE DEF L0, R0
<1>7. Shape(L, R)
  <2>1. \A l \in 0 .. NHASH : L[l] = l
    BY <1>1, <1>6
  <2>2. \A x \in Nat : x > NHASH + Len(idx) => L[x] = -1
    BY <1>1, <1>2, <1>6
  <2> QED BY <1>2, <1>5, <2>1, <2>2 DEF Shape
<1>8. \A p \in Procs : pc[p] = "idle" /\ arg[p] = NoArg /\ rc[p] = NULL
  BY DEF Init
<1>9. \A p \in Procs : ~Owns(p) /\ ~Reusing(p) /\ ~NewDat(p) /\ ~InFlux(p) /\ \A x : ~CutAt(p, x)
  BY <1>8 DEF Owns, Reusing, NewDat, InFlux, InsLabels, NewLabels, FfLabels, CutAt
<1>10. Linked(L, R)
  <2>1. \A x \in PtrLoc : Follows(L, R, x, Field(x))
    BY <1>2, <1>3 DEF Follows
  <2> QED BY <1>9, <2>1 DEF Linked
<1>11. Sorted(L) /\ Apart /\ Sized /\ OwnApart /\ Kept(L)
  BY <1>2, <1>9 DEF Sorted, Apart, Sized, OwnApart, Kept
<1>12. Alone
  BY <1>8 DEF Alone, NoArg, IsWrite
<1>13. \A p \in Procs : Knows(L, R, p)
  BY <1>8, <1>9 DEF Knows, ChainOK, FreeOK, OwnOK, HitLabels, MissLabels, InsLabels, NewLabels, FfLabels
<1>14. \A p \in Procs : Expects(p)
  BY <1>8 DEF Expects, DelLabels, InsLabels, NewLabels, FfLabels
<1>15. Agrees(L)
  <2>1. \A k \in Keys : map[k] = NULL
    BY DEF Init
  <2>2. \A l : On(L, l) = {}
    BY <1>2 DEF On
  <2> QED BY <2>1, <2>2 DEF Agrees
<1>16. Paired
  BY <1>2, <1>8 DEF Paired, Scans, NoArg
<1>17. Good(L, R)
  BY <1>7, <1>10, <1>11, <1>12, <1>13, <1>14, <1>15, <1>16 DEF Good
<1> QED BY <1>17 DEF AllGood

LEMMA GoodStutter ==
  ASSUME NEW L, NEW R, Good(L, R), UNCHANGED vars, Alone'
  PROVE  Good(L, R)'
<1>1. /\ tbl' = tbl /\ idx' = idx /\ dat' = dat /\ pc' = pc /\ arg' = arg /\ d' = d /\ rc' = rc /\ map' = map
  BY DEF vars
<1>2. /\ Shape(L, R)' /\ Sorted(L)' /\ Sized'
      /\ \A x, v : Follows(L, R, x, v)' <=> Follows(L, R, x, v)
      /\ \A l : On(L, l)' = On(L, l)
  BY <1>1, StillList DEF Good
<1>3. /\ RecOff' = RecOff /\ PtrLoc' = PtrLoc
      /\ \A x : Rec(x)' = Rec(x)
      /\ \A x : Field(x)' = Field(x)
  BY <1>1, StillFiles
<1>4. \A q \in Procs : Knows(L, R, q)'
  BY <1>1, StillKnows DEF Good
<1>5. \A q \in Procs : /\ Owns(q)' <=> Owns(q)
                       /\ NewDat(q)' <=> NewDat(q)
                       /\ InFlux(q)' <=> InFlux(q)
                       /\ \A x : CutAt(q, x)' <=> CutAt(q, x)
  BY <1>1 DEF Owns, Reusing, NewDat, InFlux, CutAt
<1>6. Linked(L, R)'
  BY <1>1, <1>2, <1>3, <1>5 DEF Good, Linked
<1>7. Apart' /\ OwnApart' /\ Kept(L)'
  BY <1>1, <1>3, <1>5 DEF Good, Apart, OwnApart, Kept
<1>8. Agrees(L)'
  <2>1. Agrees(L)
    BY DEF Good
  <2> QED BY <1>1, <1>2, <1>3, <1>5, <2>1 DEF Agrees, ChainOff
<1>9. \A q \in Procs : Expects(q)'
  BY <1>1 DEF Good, Expects
<1>10. Paired'
  BY <1>1, <1>3 DEF Good, Paired, Scans
<1> QED BY <1>2, <1>4, <1>6, <1>7, <1>8, <1>9, <1>10 DEF Good

LEMMA GoodNext ==
  ASSUME SerialInserts, Killable = {}, ListInv, [Next]_vars
  PROVE  AllGood'
<1>1. TypeOK /\ PcInv /\ LockInv /\ TypeOK'
  BY NextOK DEF ListInv
<1>2. PICK L, R : Good(L, R)
  BY DEF ListInv, AllGood
<1>3. Alone'
  BY <1>1, <1>2, AloneStep DEF Good
<1>4. ASSUME NEW p \in Procs, Calls(p) PROVE AllGood'
  <2>1. Good(L, R)'
    BY <1>1, <1>2, <1>3, <1>4, CallsGood
  <2> QED BY <2>1 DEF AllGood
<1>5. ASSUME NEW p \in Procs, Step(p) PROVE AllGood'
  <2> USE <1>1, <1>2, <1>3
  <2>1. CASE FindLock(p) \/ FindHead(p) \/ FindNext(p) \/ InsHead(p) \/ RepHead(p) \/ FreeHead(p) \/ FreeNext(p)
    <3>1. Good(L, R)'
      BY <2>1, FindLockGood, FindHeadGood, FindNextGood, HeadGood, FreeHeadGood, FreeNextGood
    <3> QED BY <3>1 DEF AllGood
  <2>2. CASE \/ FetchDat(p) \/ FreeUnlock(p) \/ AppDatLock(p) \/ AppDatUnlock(p) \/ AppIdxLock(p)
             \/ AppIdxUnlock(p) \/ DelLock(p) \/ DelUnlock(p) \/ NextLock(p)
    <3>1. Good(L, R)'
      BY <2>2, LockStepsGood
    <3> QED BY <3>1 DEF AllGood
  <2>3. CASE Unlock(p) \/ NextUnlock(p) \/ NextIdxFails(p) \/ NextIdx(p) \/ NextDat(p) \/ DelFree(p)
    <3>1. Good(L, R)'
      BY <2>3, ReturnGood, NextIdxGood, NextDatGood, DelFreeGood
    <3> QED BY <3>1 DEF AllGood
  <2>4. CASE DelDat(p) \/ RepDat(p) \/ ReuseDat(p) \/ AppDat(p)
    <3>1. Good(L, R)'
      BY <2>4, DelDatGood, RepDatGood, ReuseDatGood, AppDatGood
    <3> QED BY <3>1 DEF AllGood
  <2>5. CASE ReuseIdx(p) \/ AppIdx(p) \/ DelUnlink(p) \/ LinkFails(p)
    <3>1. Good(L, R)'
      BY <2>5, ReuseIdxGood, AppIdxGood, DelUnlinkGood, LinkFailsGood
    <3> QED BY <3>1 DEF AllGood
  <2>6. CASE FreeUnlink(p) \/ Link(p) \/ DelIdx(p) \/ DelHead(p)
    <3>1. \E L2, R2 : Good(L2, R2)'
      BY <2>6, FreeUnlinkGood, LinkGood, DelIdxGood, DelHeadGood
    <3> QED BY <3>1 DEF AllGood
  <2> QED BY <1>5, <2>1, <2>2, <2>3, <2>4, <2>5, <2>6 DEF Step
<1>6. CASE UNCHANGED vars
  <2>1. Good(L, R)'
    BY <1>2, <1>3, <1>6, GoodStutter
  <2> QED BY <2>1 DEF AllGood
<1>7. \A p \in Procs : ~Killed(p)
  BY DEF Killed
<1> QED BY <1>4, <1>5, <1>6, <1>7 DEF Next, Done

LEMMA ListsInvariant ==
  ASSUME SerialInserts, Killable = {}
  PROVE  Spec => []ListInv
<1>1. Init => ListInv
  BY InitOK, LocksInit, GoodInit DEF ListInv
<1>2. ListInv /\ [Next]_vars => ListInv'
  BY NextOK, LocksNext, GoodNext DEF ListInv
<1> QED BY <1>1, <1>2, PTL DEF Spec

-----------------------------------------------------------------------------
(***************************************************************************)
(* What it says about the lists that a reader walks.                       *)
(***************************************************************************)

(* A list that no deletion has cut is the one that L describes.            *)
LEMMA ListIs ==
  ASSUME TypeOK, NEW L, NEW R, Good(L, R), NEW l \in 0 .. NHASH,
         \A q \in Procs : pc[q] \in {"del_head", "del_unlink"} => d[q].chainoff # l
  PROVE  OnList(l) = On(L, l) /\ Ends(l)
<1>1. Shape(L, R) /\ Linked(L, R) /\ l # -1
  BY ConstAssumption DEF Good
<1>2. ASSUME NEW x \in PtrLoc, L[x] = l PROVE Follows(L, R, x, Field(x))
  <2>1. \A q \in Procs : ~CutAt(q, x)
    <3> SUFFICES ASSUME NEW q \in Procs, CutAt(q, x) PROVE FALSE
      OBVIOUS
    <3>1. L[x] = d[q].chainoff
      BY CutsOwn
    <3> QED BY <1>2, <3>1 DEF CutAt
  <2> QED BY <1>1, <1>2, <2>1 DEF Linked
<1> QED BY <1>1, <1>2, WalkOn

(* Deletions cut the chain that they have locked.                          *)
LEMMA CutsLocked ==
  ASSUME TypeOK, PcInv, LockInv, NEW q \in Procs, pc[q] \in {"del_head", "del_unlink"}
  PROVE  d[q].chainoff \in wr[q] /\ d[q].chainoff \in 1 .. NHASH
<1>1. pc[q] \in DelLabels /\ pc[q] \in ChainLabels
  BY LabelFacts DEF DelLabels
<1>2. IsWrite(arg[q])
  BY <1>1, Writes
<1> QED BY <1>1, <1>2, OnChain DEF LockInv, HeldOK

LEMMA FreeListIs ==
  ASSUME TypeOK, PcInv, LockInv, NEW L, NEW R, Good(L, R)
  PROVE  OnList(0) = On(L, 0) /\ Ends(0)
<1>1. \A q \in Procs : pc[q] \in {"del_head", "del_unlink"} => d[q].chainoff # 0
  BY CutsLocked
<1>2. PICK l \in 0 .. NHASH : l = 0
  BY ConstAssumption
<1>3. OnList(l) = On(L, l) /\ Ends(l)
  BY <1>1, <1>2, ListIs
<1> QED BY <1>2, <1>3

(* With inserts that no other write overlaps and no process killed, the    *)
(* record that _db_findfree hands to db_store is off the free list and no  *)
(* other process's, although _db_findfree takes no lock on the free list.  *)
THEOREM ReuseAlone ==
  ASSUME SerialInserts, Killable = {}
  PROVE  Spec => []ReuseExclusive
<1>1. ListInv => ReuseExclusive
  <2> SUFFICES ASSUME ListInv, NEW p \in Procs, Reusing(p)
               PROVE  /\ d[p].idxoff \notin OnList(0)
                      /\ \A q \in Procs \ {p} : Reusing(q) => d[q].idxoff # d[p].idxoff
    BY DEF ReuseExclusive, FREE_OFF
  <2>1. TypeOK /\ PcInv /\ LockInv
    BY DEF ListInv
  <2>2. PICK L, R : Good(L, R)
    BY DEF ListInv, AllGood
  <2>3. L[d[p].idxoff] = -1
    BY <2>2 DEF Good, Knows, OwnOK, Owns
  <2>4. d[p].idxoff \notin OnList(0)
    BY <2>1, <2>2, <2>3, FreeListIs DEF On
  <2>5. \A q \in Procs \ {p} : Reusing(q) => d[q].idxoff # d[p].idxoff
    BY <2>2 DEF Good, OwnApart, Owns
  <2> QED BY <2>4, <2>5
<1> QED BY <1>1, ListsInvariant, PTL

(* With such inserts, whenever no process holds the write lock of a hash   *)
(* chain the chain ends, no key is on it twice, and a key is on it with    *)
(* the datum last stored under it, or not at all: for any number of        *)
(* processes, keys, chains and calls.                                      *)
THEOREM ChainsRight ==
  ASSUME SerialInserts, Killable = {}
  PROVE  Spec => []ChainsAgree
<1>1. ListInv => ChainsAgree
  <2> SUFFICES ASSUME ListInv, NEW c \in 1 .. NHASH, Unlocked(c)
               PROVE  /\ Ends(c)
                      /\ \A k \in Keys : ChainOff(k) = c =>
                           {dat[Rec(o).datoff].val : o \in {x \in OnList(c) : Rec(x).key = k}}
                             = {map[k]} \ {NULL}
                      /\ \A x, y \in OnList(c) : Rec(x).key = Rec(y).key => x = y
    BY DEF ChainsAgree, Chains, HASH_OFF
  <2>1. TypeOK /\ PcInv /\ LockInv /\ NHASH \in Nat
    BY ConstAssumption DEF ListInv
  <2>2. PICK L, R : Good(L, R)
    BY DEF ListInv, AllGood
  <2>3. OnList(c) = On(L, c) /\ Ends(c)
    <3>1. \A q \in Procs : pc[q] \in {"del_head", "del_unlink"} => d[q].chainoff # c
      BY <2>1, CutsLocked DEF Unlocked
    <3>2. c \in 0 .. NHASH
      BY <2>1
    <3> QED BY <2>1, <2>2, <3>1, <3>2, ListIs
  <2>4. \A x, y \in On(L, c) : Rec(x).key = Rec(y).key => x = y
    <3>1. \A x \in On(L, c) : x \in RecOff /\ L[x] >= 1
      BY <2>1 DEF On
    <3> QED BY <2>2, <3>1 DEF Good, Sorted
  <2>5. ASSUME NEW k \in Keys, ChainOff(k) = c
        PROVE  {dat[Rec(o).datoff].val : o \in {x \in OnList(c) : Rec(x).key = k}} = {map[k]} \ {NULL}
    <3>1. \A p \in Procs : InFlux(p) => arg[p].key # k
      <4> SUFFICES ASSUME NEW p \in Procs, InFlux(p), arg[p].key = k PROVE FALSE
        OBVIOUS
      <4>1. pc[p] \in DelLabels \cup StoreLabels
        BY DEF InFlux, InsLabels, NewLabels, FfLabels, DelLabels, StoreLabels
      <4>2. IsWrite(arg[p]) /\ pc[p] \in ChainLabels
        BY <2>1, <4>1, Writes, LabelFacts
      <4>3. c \in wr[p]
        BY <2>1, <2>5, <4>2 DEF LockInv, HeldOK
      <4> QED BY <4>3 DEF Unlocked
    <3>2. \/ map[k] = NULL /\ \A y \in On(L, c) : Rec(y).key # k
          \/ map[k] # NULL /\ \E y \in On(L, c) : Rec(y).key = k /\ dat[Rec(y).datoff].val = map[k]
      BY <2>2, <2>5, <3>1 DEF Good, Agrees
    <3>3. CASE map[k] = NULL /\ \A y \in On(L, c) : Rec(y).key # k
      BY <2>3, <3>3
    <3>4. CASE map[k] # NULL /\ \E y \in On(L, c) : Rec(y).key = k /\ dat[Rec(y).datoff].val = map[k]
      <4>1. PICK y \in On(L, c) : Rec(y).key = k /\ dat[Rec(y).datoff].val = map[k]
        BY <3>4
      <4>2. \A x \in On(L, c) : Rec(x).key = k => x = y
        BY <2>4, <4>1
      <4>3. {x \in OnList(c) : Rec(x).key = k} = {y}
        BY <2>3, <4>1, <4>2
      <4>4. {dat[Rec(o).datoff].val : o \in {y}} = {map[k]}
        BY <4>1
      <4>5. {map[k]} = {map[k]} \ {NULL}
        BY <3>4
      <4> QED BY <4>3, <4>4, <4>5
    <3> QED BY <3>2, <3>3, <3>4
  <2> QED BY <2>3, <2>4, <2>5
<1> QED BY <1>1, ListsInvariant, PTL

(* With such inserts db_nextrec returns a key with a datum stored under    *)
(* that key, although it locks the free list only and the chains change    *)
(* under it.                                                               *)
THEOREM ScansPair ==
  ASSUME SerialInserts, Killable = {}
  PROVE  Spec => []NextrecPair
<1>1. ListInv => NextrecPair
  BY DEF ListInv, AllGood, Good, Paired, Scans, NextrecPair
<1> QED BY <1>1, ListsInvariant, PTL

(* With such inserts, as long as every index record is at an offset that a *)
(* pointer field can hold, nothing is lost: while no store or delete is in *)
(* progress every index record is on exactly one list, the free list holds *)
(* the blank records and the chains the others.                            *)
THEOREM NothingLost ==
  ASSUME SerialInserts, Killable = {}
  PROVE  Spec => [](NHASH + Len(idx) <= PTR_MAX => NoLeak)
<1>1. ListInv => (NHASH + Len(idx) <= PTR_MAX => NoLeak)
  <2> SUFFICES ASSUME ListInv, NHASH + Len(idx) <= PTR_MAX,
                      \A p \in Procs : ~IsWrite(arg[p]), NEW o \in RecOff
               PROVE  /\ Cardinality({l \in 0 .. NHASH : o \in OnList(l)}) = 1
                      /\ (o \in OnList(0)) <=> (Rec(o).key = Blank)
    BY DEF NoLeak, FREE_OFF
  <2>1. TypeOK /\ PcInv /\ LockInv /\ NHASH \in Nat /\ PTR_MAX \in Nat /\ Len(idx) \in Nat
    BY ConstAssumption, LenNat DEF ListInv
  <2>2. PICK L, R : Good(L, R)
    BY DEF ListInv, AllGood
  <2>3. \A p \in Procs : pc[p] \notin DelLabels \cup StoreLabels
    BY <2>1, Writes
  <2>4. \A l \in 0 .. NHASH : OnList(l) = On(L, l)
    <3>1. \A q \in Procs : pc[q] \notin {"del_head", "del_unlink"}
      BY <2>3 DEF DelLabels
    <3> QED BY <2>1, <2>2, <3>1, ListIs
  <2>5. \A p \in Procs : ~Owns(p)
    BY <2>3 DEF Owns, Reusing, DelLabels, StoreLabels
  <2>6. o <= PTR_MAX /\ o \in Nat
    BY <2>1 DEF RecOff, FirstRec
  <2>7. L[o] # -1
    BY <2>2, <2>5, <2>6 DEF Good, Kept
  <2>8. L[o] \in 0 .. NHASH
    <3>1. L[o] \in -1 .. NHASH
      BY <2>2, <2>6 DEF Good, Shape
    <3> QED BY <2>1, <2>7, <3>1
  <2>9. {l \in 0 .. NHASH : o \in OnList(l)} = {L[o]}
    BY <2>4, <2>8 DEF On
  <2>10. (o \in OnList(0)) <=> L[o] = 0
    BY <2>1, <2>4 DEF On
  <2>11. L[o] = 0 <=> Rec(o).key = Blank
    <3>1. L[o] = 0 \/ L[o] >= 1
      BY <2>1, <2>8
    <3>2. L[o] = 0 => Rec(o).key = Blank
      BY <2>2 DEF Good, Sorted
    <3>3. L[o] >= 1 => Rec(o).key \in Keys
      BY <2>2 DEF Good, Sorted
    <3> QED BY <3>1, <3>2, <3>3, ConstAssumption
  <2> QED BY <2>9, <2>10, <2>11, FS_Singleton
<1> QED BY <1>1, ListsInvariant, PTL

(* A step keeps the lengths of the records there are.                      *)
DatKept == \A i \in DatPos : dat'[i].len = dat[i].len
IdxKept == \A y \in RecOff : /\ Rec(y)'.klen = Rec(y).klen /\ Rec(y)'.datoff = Rec(y).datoff
                             /\ Rec(y)'.datlen = Rec(y).datlen

LEMMA DatOverKept ==
  ASSUME TypeOK, NEW o \in DatPos, NEW v, NEW len, OverwriteDat(o, v, len), len = dat[o].len
  PROVE  DatKept
<1>1. dat \in Seq(DatType) /\ DatPos = DOMAIN dat
  BY LenNat DEF TypeOK, DatPos
<1> QED BY <1>1 DEF OverwriteDat, DatKept

LEMMA IdxOverKept ==
  ASSUME TypeOK, NEW p \in Procs, NEW o \in RecOff, o = d[p].idxoff, NEW k, NEW klen, NEW ptr,
         OverwriteIdx(p, k, klen, ptr), tbl' = tbl, klen = Rec(o).klen,
         d[p].datoff = Rec(o).datoff, d[p].datlen = Rec(o).datlen
  PROVE  IdxKept
<1>1. /\ \A y \in RecOff : y # o => Rec(y)' = Rec(y)
      /\ Rec(o)' = [ptr |-> ptr, key |-> k, klen |-> klen, datoff |-> d[p].datoff, datlen |-> d[p].datlen]
  BY WriteIdx
<1>2. Rec(o)'.klen = klen /\ Rec(o)'.datoff = d[p].datoff /\ Rec(o)'.datlen = d[p].datlen
  BY <1>1
<1> QED BY <1>1, <1>2 DEF IdxKept

LEMMA PtrKept ==
  ASSUME TypeOK, NEW p \in Procs, NEW x \in PtrLoc, NEW v, _db_writeptr(p, x, v)
  PROVE  DatKept /\ IdxKept
  BY WritePtr DEF DatKept, IdxKept

LEMMA StepKept ==
  ASSUME TypeOK, PcInv, LockInv, NEW L, NEW R, Good(L, R), NEW p \in Procs, Step(p)
  PROVE  DatKept /\ IdxKept
<1>1. Sized /\ Knows(L, R, p) /\ PcOK(p) /\ d[p] \in DbType
  BY DEF Good, PcInv, TypeOK
<1>2. idx' = idx => IdxKept
  BY DEF IdxKept, Rec
<1>3. dat' = dat => DatKept
  BY DEF DatKept
<1>4. CASE DelDat(p) \/ RepDat(p)
  <2>1. pc[p] \in HitLabels
    BY <1>4 DEF DelDat, RepDat, At, HitLabels
  <2>2. d[p].datoff \in DatPos /\ d[p].datlen = dat[d[p].datoff].len
    BY <2>1, HitFacts
  <2>3. CASE DelDat(p)
    BY <1>2, <2>2, <2>3, DatOverKept DEF DelDat
  <2>4. CASE RepDat(p)
    <3>1. DatLen[arg[p].val] = d[p].datlen
      BY <1>1, <2>4 DEF RepDat, At, Knows, ChainOK
    <3> QED BY <1>2, <2>2, <2>4, <3>1, DatOverKept DEF RepDat
  <2> QED BY <1>4, <2>3, <2>4
<1>5. CASE ReuseDat(p) \/ ReuseIdx(p)
  <2>1. Owns(p) /\ Reusing(p)
    BY <1>5 DEF ReuseDat, ReuseIdx, At, Owns, Reusing
  <2>2. PICK o : o = d[p].idxoff
    OBVIOUS
  <2>3. o \in RecOff /\ Free(p)
    BY <1>1, <2>1, <2>2 DEF Knows, OwnOK
  <2>4. /\ Rec(o).klen = KeyLen[arg[p].key] /\ Rec(o).datlen = DatLen[arg[p].val]
        /\ d[p].datoff = Rec(o).datoff /\ d[p].datlen = Rec(o).datlen
    BY <2>2, <2>3 DEF Free, Fits
  <2>5. CASE ReuseDat(p)
    <3>1. Rec(o).datlen = dat[Rec(o).datoff].len /\ Rec(o).datoff \in DatPos
      BY <1>1, <2>3, RecTyped DEF Sized, IdxType
    <3> QED BY <1>2, <2>4, <2>5, <3>1, DatOverKept DEF ReuseDat
  <2>6. CASE ReuseIdx(p)
    <3>1. OverwriteIdx(p, arg[p].key, KeyLen[arg[p].key], d[p].head) /\ tbl' = tbl /\ dat' = dat
      BY <2>6 DEF ReuseIdx
    <3> QED BY <1>3, <2>2, <2>3, <2>4, <3>1, IdxOverKept
  <2> QED BY <1>5, <2>5, <2>6
<1>6. CASE DelIdx(p)
  <2>1. pc[p] \in HitLabels
    BY <1>6 DEF DelIdx, At, HitLabels
  <2>2. PICK o : o = d[p].idxoff
    OBVIOUS
  <2>3. AtHit(L, R, p) /\ o \in RecOff /\ arg[p].key \in Keys
    BY <2>1, <2>2, HitFacts
  <2>4. /\ Rec(o).klen = KeyLen[d[p].idxbuf]
        /\ d[p].datoff = Rec(o).datoff /\ d[p].datlen = Rec(o).datlen
    BY <1>1, <2>2, <2>3 DEF AtHit, Sized
  <2>5. OverwriteIdx(p, Blank, KeyLen[d[p].idxbuf], d[p].freeptr) /\ tbl' = tbl /\ dat' = dat
    BY <1>6 DEF DelIdx
  <2> QED BY <1>3, <2>2, <2>3, <2>4, <2>5, IdxOverKept
<1>7. CASE AppDat(p)
  <2>1. dat \in Seq(DatType) /\ DatPos = 1 .. Len(dat) /\ Len(dat) \in Nat
    BY LenNat DEF TypeOK, DatPos
  <2>2. dat' = Append(dat, [val |-> arg[p].val, len |-> DatLen[arg[p].val]]) /\ idx' = idx
    BY <1>7 DEF AppDat
  <2>3. \A i \in 1 .. Len(dat) : dat'[i] = dat[i]
    BY <2>1, <2>2
  <2> QED BY <1>2, <2>1, <2>2, <2>3 DEF DatKept
<1>8. CASE AppIdx(p)
  <2>1. idx \in Seq(IdxType) /\ Len(idx) \in Nat /\ NHASH \in Nat
    BY LenNat, ConstAssumption DEF TypeOK
  <2>2. PICK r : idx' = Append(idx, r)
    BY <1>8 DEF AppIdx
  <2>3. dat' = dat
    BY <1>8 DEF AppIdx
  <2>4. \A y \in RecOff : y - NHASH \in 1 .. Len(idx)
    BY <2>1 DEF RecOff, FirstRec
  <2>5. \A y \in RecOff : Rec(y)' = Rec(y)
    BY <2>1, <2>2, <2>4 DEF Rec
  <2> QED BY <1>3, <2>3, <2>5 DEF IdxKept
<1>9. CASE FreeUnlink(p) \/ Link(p) \/ DelHead(p) \/ DelUnlink(p)
  <2>1. d[p].saveoff \in PtrLoc /\ d[p].ptroff \in PtrLoc /\ d[p].chainoff \in PtrLoc /\ 0 \in PtrLoc
    BY <1>1, OffsetFacts DEF DbType
  <2> QED BY <1>9, <2>1, PtrKept DEF FreeUnlink, Link, DelHead, DelUnlink, FREE_OFF
<1>10. CASE \/ FindLock(p) \/ FindHead(p) \/ FindNext(p) \/ FetchDat(p) \/ Unlock(p)
            \/ InsHead(p) \/ FreeHead(p) \/ FreeNext(p) \/ FreeUnlock(p)
            \/ AppDatLock(p) \/ AppDatUnlock(p) \/ AppIdxLock(p) \/ AppIdxUnlock(p)
            \/ LinkFails(p) \/ RepHead(p) \/ DelLock(p) \/ DelFree(p) \/ DelUnlock(p)
            \/ NextLock(p) \/ NextIdx(p) \/ NextIdxFails(p) \/ NextDat(p) \/ NextUnlock(p)
  <2>1. idx' = idx /\ dat' = dat
    BY <1>10 DEF FindLock, FindHead, FindNext, FetchDat, Unlock, InsHead, FreeHead, FreeNext, FreeUnlock,
       AppDatLock, AppDatUnlock, AppIdxLock, AppIdxUnlock, LinkFails, RepHead, DelLock, DelFree, DelUnlock,
       NextLock, NextIdx, NextIdxFails, NextDat, NextUnlock, Dies, files
  <2> QED BY <1>2, <1>3, <2>1
<1> QED BY <1>4, <1>5, <1>6, <1>7, <1>8, <1>9, <1>10 DEF Step

(* With such inserts a write over an existing record, index or data, has   *)
(* that record's sizes, so that reused and replaced records never run into *)
(* their neighbours in the file.                                           *)
THEOREM SizesFit ==
  ASSUME SerialInserts, Killable = {}
  PROVE  Spec => OverwriteFits
<1> DEFINE A == /\ \A i \in DOMAIN dat : dat'[i].len = dat[i].len
                /\ \A i \in DOMAIN idx : /\ idx'[i].klen = idx[i].klen
                                         /\ idx'[i].datoff = idx[i].datoff
                                         /\ idx'[i].datlen = idx[i].datlen
<1>1. ListInv /\ [Next]_vars => [A]_<<idx, dat>>
  <2> SUFFICES ASSUME ListInv, [Next]_vars, ~UNCHANGED <<idx, dat>> PROVE A
    OBVIOUS
  <2>1. TypeOK /\ PcInv /\ LockInv
    BY DEF ListInv
  <2>2. PICK L, R : Good(L, R)
    BY DEF ListInv, AllGood
  <2>3. ~UNCHANGED vars /\ ~Done
    BY DEF vars, Done
  <2>4. PICK p \in Procs : Step(p)
    BY <2>3 DEF Next, Killed, Calls, db_fetch, db_delete, db_store, db_nextrec, db_rewind, Call, files
  <2>5. DatKept /\ IdxKept
    BY <2>1, <2>2, <2>4, StepKept
  <2>6. \A i \in DOMAIN dat : i \in DatPos
    BY <2>1, LenNat DEF TypeOK, DatPos
  <2>7. ASSUME NEW i \in DOMAIN idx
        PROVE  /\ idx'[i].klen = idx[i].klen
               /\ idx'[i].datoff = idx[i].datoff
               /\ idx'[i].datlen = idx[i].datlen
    <3>1. i \in 1 .. Len(idx) /\ NHASH \in Nat /\ Len(idx) \in Nat
      BY <2>1, <2>7, LenNat, ConstAssumption DEF TypeOK
    <3>2. PICK y : y = NHASH + i
      OBVIOUS
    <3>3. y \in RecOff /\ y - NHASH = i
      BY <3>1, <3>2 DEF RecOff, FirstRec
    <3>4. Rec(y)' = idx'[i] /\ Rec(y) = idx[i]
      BY <3>3 DEF Rec
    <3> QED BY <2>5, <3>3, <3>4 DEF IdxKept
  <2> QED BY <2>5, <2>6, <2>7 DEF DatKept
<1> HIDE DEF A
<1>2. Spec => [][A]_<<idx, dat>>
  BY <1>1, ListsInvariant, PTL DEF Spec
<1> QED BY <1>2 DEF OverwriteFits, A

-----------------------------------------------------------------------------
(***************************************************************************)
(* The library implements DbMap: how a step of process p looks there.      *)
(***************************************************************************)

(* A step of p leaves the other processes' part of the map's state alone.  *)
LEMMA AbsOthers ==
  ASSUME TypeOK, NEW p \in Procs, Others(p)
  PROVE  /\ \A q \in Procs : q # p => absSt'[q] = absSt[q] /\ absReq'[q] = absReq[q] /\ absRes'[q] = absRes[q]
         /\ absSt' = [absSt EXCEPT ![p] = absSt'[p]]
         /\ absReq' = [absReq EXCEPT ![p] = absReq'[p]]
         /\ absRes' = [absRes EXCEPT ![p] = absRes'[p]]
<1>1. \A q \in Procs : q # p => absSt'[q] = absSt[q] /\ absReq'[q] = absReq[q] /\ absRes'[q] = absRes[q]
  BY DEF Others, absSt, absReq, absRes, Visible, Took
<1>2. /\ absSt' = [q \in Procs |-> absSt'[q]] /\ absSt = [q \in Procs |-> absSt[q]]
      /\ absReq' = [q \in Procs |-> absReq'[q]] /\ absReq = [q \in Procs |-> absReq[q]]
      /\ absRes' = [q \in Procs |-> absRes'[q]] /\ absRes = [q \in Procs |-> absRes[q]]
  BY DEF absSt, absReq, absRes
<1> QED BY <1>1, <1>2

LEMMA MapSilent ==
  ASSUME TypeOK, NEW p \in Procs, Others(p), map' = map, arg'[p] = arg[p],
         pc[p] # "dead", pc'[p] # "dead",
         Visible(p) => (Took(p)' <=> Took(p)) /\ (Took(p) => rc'[p] = rc[p])
  PROVE  UNCHANGED Map!vars
<1>1. absSt'[p] = absSt[p] /\ absReq'[p] = absReq[p] /\ absRes'[p] = absRes[p]
  BY DEF absSt, absReq, absRes, Visible
<1>2. /\ absSt' = [absSt EXCEPT ![p] = absSt'[p]]
      /\ absReq' = [absReq EXCEPT ![p] = absReq'[p]]
      /\ absRes' = [absRes EXCEPT ![p] = absRes'[p]]
  BY AbsOthers
<1>3. /\ absSt = [q \in Procs |-> absSt[q]] /\ absReq = [q \in Procs |-> absReq[q]]
      /\ absRes = [q \in Procs |-> absRes[q]]
  BY DEF absSt, absReq, absRes
<1>4. absSt' = absSt /\ absReq' = absReq /\ absRes' = absRes
  BY <1>1, <1>2, <1>3
<1> QED BY <1>4 DEF Map!vars

(* A call takes effect.                                                    *)
LEMMA MapDo ==
  ASSUME TypeOK, NEW p \in Procs, Others(p), Visible(p), arg'[p] = arg[p],
         pc[p] # "dead", ~Took(p), pc'[p] # "dead", Took(p)',
         rc'[p] = Map!Result(arg[p]), map' = Map!Effect(arg[p])
  PROVE  Map!Next
<1>1. /\ absSt[p] = "called" /\ absSt'[p] = "done" /\ absReq[p] = arg[p] /\ absReq'[p] = arg[p]
      /\ absRes'[p] = rc'[p]
  BY DEF absSt, absReq, absRes, Visible
<1>2. /\ absSt' = [absSt EXCEPT ![p] = "done"]
      /\ absReq' = [absReq EXCEPT ![p] = absReq[p]]
      /\ absRes' = [absRes EXCEPT ![p] = rc'[p]]
  BY <1>1, AbsOthers
<1>3. absReq' = absReq
  BY <1>2 DEF absReq
<1>4. Map!Result(absReq[p]) = rc'[p] /\ Map!Effect(absReq[p]) = map'
  BY <1>1
<1>5. Map!Do(p)
  BY <1>1, <1>2, <1>3, <1>4 DEF Map!Do
<1> QED BY <1>5 DEF Map!Next

(* A process ends.                                                         *)
LEMMA MapDies ==
  ASSUME TypeOK, NEW p \in Procs, Others(p), pc[p] # "dead", pc'[p] = "dead", arg'[p] = NoArg,
         \/ map' = map
         \/ /\ Visible(p) /\ ~Took(p) /\ arg[p].op = "store"
            /\ map' = [map EXCEPT ![arg[p].key] = NULL]
  PROVE  Map!Next
<1>1. /\ absSt[p] # "dead" /\ absSt'[p] = "dead" /\ absReq'[p] = NoArg /\ absRes'[p] = NULL
      /\ Visible(p) /\ ~Took(p) => absSt[p] = "called" /\ absReq[p] = arg[p]
  BY DEF absSt, absReq, absRes, Visible, NoArg
<1>2. /\ absSt' = [absSt EXCEPT ![p] = "dead"]
      /\ absReq' = [absReq EXCEPT ![p] = NoArg]
      /\ absRes' = [absRes EXCEPT ![p] = NULL]
  BY <1>1, AbsOthers
<1>3. NoArg = Map!NoReq
  BY DEF NoArg, Map!NoReq
<1>4. Map!Die(p)
  BY <1>1, <1>2, <1>3 DEF Map!Die
<1> QED BY <1>4 DEF Map!Next

(* What the map makes of each request.                                     *)
LEMMA MapResult ==
  ASSUME NEW r, r.op \in {"fetch", "store", "delete"}
  PROVE  /\ r.op = "fetch" => Map!Result(r) = map[r.key] /\ Map!Effect(r) = map
         /\ r.op = "delete" /\ map[r.key] = NULL => Map!Result(r) = -1
         /\ r.op = "delete" /\ map[r.key] # NULL => Map!Result(r) = 0
         /\ r.op = "delete" => Map!Effect(r) = [map EXCEPT ![r.key] = NULL]
         /\ r.op = "store" /\ map[r.key] # NULL /\ "INSERT" \in r.flag =>
              Map!Result(r) = 1 /\ Map!Effect(r) = map
         /\ r.op = "store" /\ map[r.key] = NULL /\ "REPLACE" \in r.flag =>
              Map!Result(r) = -1 /\ Map!Effect(r) = map
         /\ r.op = "store" /\ (map[r.key] # NULL => "INSERT" \notin r.flag)
              /\ (map[r.key] = NULL => "REPLACE" \notin r.flag) =>
              Map!Result(r) = 0 /\ Map!Effect(r) = [map EXCEPT ![r.key] = r.val]
  BY DEF Map!Result, Map!Effect

LEMMA MapHidden ==
  ASSUME TypeOK, NEW p \in Procs, Others(p), map' = map, ~Visible(p), ~Visible(p)',
         pc[p] # "dead", pc'[p] # "dead"
  PROVE  UNCHANGED Map!vars
<1>1. absSt'[p] = absSt[p] /\ absReq'[p] = absReq[p] /\ absRes'[p] = absRes[p]
  BY DEF absSt, absReq, absRes
<1>2. /\ absSt' = [absSt EXCEPT ![p] = absSt'[p]]
      /\ absReq' = [absReq EXCEPT ![p] = absReq'[p]]
      /\ absRes' = [absRes EXCEPT ![p] = absRes'[p]]
  BY AbsOthers
<1>3. /\ absSt = [q \in Procs |-> absSt[q]] /\ absReq = [q \in Procs |-> absReq[q]]
      /\ absRes = [q \in Procs |-> absRes[q]]
  BY DEF absSt, absReq, absRes
<1>4. absSt' = absSt /\ absReq' = absReq /\ absRes' = absRes
  BY <1>1, <1>2, <1>3
<1> QED BY <1>4 DEF Map!vars

(* A call returns.                                                         *)
LEMMA MapReturns ==
  ASSUME TypeOK, NEW p \in Procs, Others(p), Visible(p), Took(p), pc[p] # "dead", pc'[p] = "idle",
         arg'[p] = NoArg, map' = map
  PROVE  Map!Next
<1>1. absSt[p] = "done" /\ absSt'[p] = "idle" /\ absReq'[p] = NoArg /\ absRes'[p] = NULL
  BY DEF absSt, absReq, absRes, Visible, NoArg
<1>2. /\ absSt' = [absSt EXCEPT ![p] = "idle"]
      /\ absReq' = [absReq EXCEPT ![p] = NoArg]
      /\ absRes' = [absRes EXCEPT ![p] = NULL]
  BY <1>1, AbsOthers
<1>3. NoArg = Map!NoReq
  BY DEF NoArg, Map!NoReq
<1>4. Map!Return(p)
  BY <1>1, <1>2, <1>3 DEF Map!Return
<1> QED BY <1>4 DEF Map!Next

(* A call is made.                                                         *)
LEMMA MapInvokes ==
  ASSUME TypeOK, NEW p \in Procs, Others(p), pc[p] = "idle", arg[p] = NoArg, pc'[p] = "find_lock",
         arg'[p] \in Map!Requests, map' = map
  PROVE  Map!Next
<1>1. arg'[p].op \in {"fetch", "store", "delete"}
  BY DEF Map!Requests
<1>2. /\ absSt[p] = "idle" /\ absSt'[p] = "called" /\ absReq'[p] = arg'[p]
      /\ absRes[p] = NULL /\ absRes'[p] = NULL
  BY <1>1 DEF absSt, absReq, absRes, Visible, Took, NoArg
<1>3. /\ absSt' = [absSt EXCEPT ![p] = "called"]
      /\ absReq' = [absReq EXCEPT ![p] = arg'[p]]
      /\ absRes' = [absRes EXCEPT ![p] = absRes[p]]
  BY <1>2, AbsOthers
<1>4. absRes' = absRes
  BY <1>3 DEF absRes
<1>5. Map!Invoke(p)
  BY <1>2, <1>3, <1>4 DEF Map!Invoke
<1> QED BY <1>5 DEF Map!Next

(* Scans are not calls of the map, and only a fetch reads a found datum.   *)
OpOK(p) == /\ pc[p] \in ScanLabels => ~Visible(p)
           /\ pc[p] = "fetch_dat" => arg[p].op = "fetch"
ScansOnly == \A p \in Procs : OpOK(p)

LEMMA ScansOnlyNext ==
  ASSUME TypeOK, PcInv, ScansOnly, [Next]_vars
  PROVE  ScansOnly'
<1>1. ASSUME NEW p \in Procs, Others(p), OpOK(p)' PROVE ScansOnly'
  <2>1. \A q \in Procs : q # p => pc'[q] = pc[q] /\ arg'[q] = arg[q]
    BY <1>1 DEF Others
  <2> QED BY <1>1, <2>1 DEF ScansOnly, OpOK, Visible
<1>2. ASSUME NEW p \in Procs, Step(p) \/ Killed(p) PROVE ScansOnly'
  <2>1. InCall(p)
    BY <1>2, InCallStep
  <2>2. /\ pc'[p] \in ScanLabels => pc[p] \in ScanLabels
        /\ pc'[p] = "fetch_dat" => arg[p].op = "fetch" /\ arg'[p] = arg[p]
    <3> USE DEF ScanLabels, Goto, At, TypeOK
    <3>1. CASE FindNext(p)
      <4>1. arg[p].op \in {"fetch", "store", "delete"}
        BY <3>1 DEF FindNext, PcInv, PcOK, KeyLabels, Labels
      <4> QED BY <3>1, <4>1 DEF FindNext, Hit, HitPc, Miss, MissPc
    <3>2. CASE FindHead(p)
      BY <3>2 DEF FindHead, Miss, MissPc
    <3>3. CASE Unlock(p) \/ NextUnlock(p) \/ LinkFails(p) \/ NextIdxFails(p) \/ Killed(p)
      BY <3>3 DEF Unlock, NextUnlock, LinkFails, NextIdxFails, Killed, Dies
    <3>4. CASE FreeHead(p) \/ FreeNext(p) \/ FreeUnlink(p) \/ FreeUnlock(p) \/ InsHead(p)
      BY <3>4 DEF FreeHead, FreeNext, FreeUnlink, FreeUnlock, InsHead
    <3>5. CASE FindLock(p) \/ FetchDat(p) \/ ReuseDat(p) \/ ReuseIdx(p)
      BY <3>5 DEF FindLock, FetchDat, ReuseDat, ReuseIdx
    <3>6. CASE AppDatLock(p) \/ AppDat(p) \/ AppDatUnlock(p) \/ AppIdxLock(p) \/ AppIdx(p) \/ AppIdxUnlock(p)
      BY <3>6 DEF AppDatLock, AppDat, AppDatUnlock, AppIdxLock, AppIdx, AppIdxUnlock
    <3>7. CASE Link(p) \/ RepDat(p) \/ RepHead(p) \/ DelLock(p) \/ DelDat(p) \/ DelFree(p) \/ DelIdx(p)
      BY <3>7 DEF Link, RepDat, RepHead, DelLock, DelDat, DelFree, DelIdx
    <3>8. CASE DelHead(p) \/ DelUnlink(p) \/ DelUnlock(p)
      BY <3>8 DEF DelHead, DelUnlink, DelUnlock
    <3>9. CASE NextLock(p) \/ NextIdx(p) \/ NextDat(p)
      BY <3>9 DEF NextLock, NextIdx, NextDat
    <3> QED BY <1>2, <3>1, <3>2, <3>3, <3>4, <3>5, <3>6, <3>7, <3>8, <3>9 DEF Step
  <2>3. OpOK(p)'
    BY <2>1, <2>2 DEF InCall, ScansOnly, OpOK, Visible, NoArg
  <2>4. Others(p)
    BY <2>1 DEF InCall
  <2> QED BY <1>1, <2>3, <2>4
<1>3. ASSUME NEW p \in Procs, NEW a, NEW label, Call(p, a, label),
             label = "next_lock" => a.op = "nextrec", label \in {"find_lock", "next_lock"}
      PROVE  ScansOnly'
  <2>1. Others(p) /\ pc'[p] = label /\ arg'[p] = a
    BY <1>3 DEF Call, Goto, TypeOK, Others
  <2>2. OpOK(p)'
    BY <1>3, <2>1 DEF ScanLabels, OpOK, Visible
  <2> QED BY <1>1, <2>1, <2>2
<1>4. ASSUME NEW p \in Procs, Calls(p) PROVE ScansOnly'
  <2>1. CASE db_rewind(p)
    BY <2>1 DEF db_rewind, ScansOnly, OpOK, Visible
  <2>2. CASE db_nextrec(p)
    BY <1>3, <2>2 DEF db_nextrec
  <2>3. ASSUME NEW a, Call(p, a, "find_lock") PROVE ScansOnly'
    BY <1>3, <2>3
  <2> QED BY <1>4, <2>1, <2>2, <2>3 DEF Calls, db_fetch, db_delete, db_store
<1>5. CASE UNCHANGED vars
  BY <1>5 DEF vars, ScansOnly, OpOK, Visible
<1> QED BY <1>2, <1>4, <1>5 DEF Next, Done

LEMMA MapCalls ==
  ASSUME TypeOK, Alone, NEW p \in Procs, Calls(p)
  PROVE  Map!Next \/ UNCHANGED Map!vars
<1>1. pc[p] = "idle" /\ arg[p] = NoArg
  <2>1. pc[p] = "idle"
    BY DEF Calls, db_fetch, db_delete, db_store, db_nextrec, db_rewind, Call, At
  <2> QED BY <2>1 DEF Alone
<1>2. ~Visible(p)
  BY <1>1 DEF Visible, NoArg
<1>3. ASSUME NEW a, Call(p, a, "find_lock"), a \in Map!Requests PROVE Map!Next
  <2>1. Others(p) /\ pc'[p] = "find_lock" /\ arg'[p] = a /\ map' = map
    BY <1>3 DEF Call, Goto, TypeOK, Others
  <2> QED BY <1>1, <1>3, <2>1, MapInvokes
<1>4. CASE db_rewind(p)
  <2>1. Others(p) /\ map' = map /\ pc' = pc /\ arg' = arg
    BY <1>4 DEF db_rewind, Others
  <2>2. ~Visible(p)'
    BY <1>2, <2>1 DEF Visible
  <2> QED BY <1>1, <1>2, <2>1, <2>2, MapHidden
<1>5. CASE db_nextrec(p)
  <2>1. Others(p) /\ map' = map /\ pc'[p] = "next_lock" /\ arg'[p].op = "nextrec"
    BY <1>5 DEF db_nextrec, Call, Goto, TypeOK, Others
  <2>2. ~Visible(p)'
    BY <2>1 DEF Visible
  <2> QED BY <1>1, <1>2, <2>1, <2>2, MapHidden
<1>6. ASSUME NEW k \in Keys, db_fetch(p, k) \/ db_delete(p, k) PROVE Map!Next
  <2>1. \A o \in {"fetch", "delete"} : [op |-> o, key |-> k, val |-> NULL, flag |-> {}] \in Map!Requests
    BY DEF Map!Requests
  <2> QED BY <1>3, <1>6, <2>1 DEF db_fetch, db_delete
<1>7. ASSUME NEW k \in Keys, NEW f \in Flags[p], NEW v \in Data[k], db_store(p, k, v, f) PROVE Map!Next
  <2>1. v \in Vals /\ f \in SUBSET {"INSERT", "REPLACE"}
    BY ConstAssumption
  <2>2. [op |-> "store", key |-> k, val |-> v, flag |-> f] \in Map!Requests
    BY <2>1 DEF Map!Requests
  <2> QED BY <1>3, <1>7, <2>2 DEF db_store
<1> QED BY <1>4, <1>5, <1>6, <1>7 DEF Calls

(* The datum of a record that the process has found is the key's.          *)
LEMMA HitDatum ==
  ASSUME TypeOK, PcInv, LockInv, NEW L, NEW R, Good(L, R), NEW p \in Procs,
         pc[p] \in {"fetch_dat", "rep_dat"}
  PROVE  map[arg[p].key] # NULL /\ dat[d[p].datoff].val = map[arg[p].key]
<1>1. pc[p] \in HitLabels /\ ~InFlux(p)
  BY DEF HitLabels, InFlux, InsLabels, NewLabels, FfLabels
<1>2. PICK o, c, k : o = d[p].idxoff /\ c = d[p].chainoff /\ k = arg[p].key
  OBVIOUS
<1>3. /\ pc[p] \in ChainLabels /\ o \in On(L, c) /\ o \in RecOff /\ L[o] >= 1 /\ L[o] = c
      /\ Rec(o).key = k /\ d[p].datoff = Rec(o).datoff
  BY <1>1, <1>2, HitFacts DEF AtHit
<1>4. \/ map[k] = NULL /\ \A y \in On(L, c) : Rec(y).key # k
      \/ map[k] # NULL /\ \E y \in On(L, c) : Rec(y).key = k /\ dat[Rec(y).datoff].val = map[k]
  BY <1>1, <1>2, <1>3, KeyAgrees
<1>5. map[k] # NULL
  BY <1>3, <1>4
<1>6. PICK y \in On(L, c) : Rec(y).key = k /\ dat[Rec(y).datoff].val = map[k]
  BY <1>4, <1>5
<1>7. y = o
  BY <1>3, <1>6 DEF Good, Sorted, On
<1> QED BY <1>2, <1>3, <1>5, <1>6, <1>7

(* _db_find: a miss is the effect of a fetch, a delete or a replacement, a *)
(* hit that of an insertion.                                               *)
LEMMA MapMiss ==
  ASSUME TypeOK, PcInv, NEW p \in Procs, Others(p), pc[p] \in {"find_head", "find_next"},
         arg'[p] = arg[p], map' = map, map[arg[p].key] = NULL, Miss(p)
  PROVE  Map!Next \/ UNCHANGED Map!vars
<1>1. PICK a : a = arg[p]
  OBVIOUS
<1>2. a.op \in {"fetch", "store", "delete"} /\ a.key \in Keys
  BY <1>1 DEF PcInv, PcOK, KeyLabels, ScanLabels, Labels
<1>3. Visible(p) /\ ~Took(p) /\ pc[p] # "dead"
  BY <1>1, <1>2 DEF Visible, Took
<1>4. pc'[p] = MissPc(a) /\ (~MayInsert(a) => rc'[p] = MissRc(a))
  BY <1>1 DEF Miss, Goto, TypeOK
<1>5. CASE MayInsert(a)
  <2>1. pc'[p] = "ins_head"
    BY <1>4, <1>5 DEF MissPc
  <2>2. ~Took(p)'
    BY <2>1 DEF Took
  <2> QED BY <1>3, <2>1, <2>2, MapSilent
<1>6. CASE ~MayInsert(a)
  <2>1. pc'[p] = "unlock" /\ rc'[p] = MissRc(a)
    BY <1>4, <1>6 DEF MissPc
  <2>2. Took(p)'
    BY <2>1 DEF Took
  <2>3. map[a.key] = NULL /\ [map EXCEPT ![a.key] = NULL] = map
    BY <1>1, <1>2 DEF TypeOK
  <2>4. Map!Result(a) = MissRc(a) /\ Map!Effect(a) = map
    <3>1. CASE a.op = "fetch"
      BY <1>2, <2>3, <3>1, MapResult DEF MissRc
    <3>2. CASE a.op = "delete"
      BY <1>2, <2>3, <3>2, MapResult DEF MissRc
    <3>3. CASE a.op = "store"
      BY <1>2, <1>6, <2>3, <3>3, MapResult DEF MissRc, MayInsert
    <3> QED BY <1>2, <3>1, <3>2, <3>3
  <2>5. rc'[p] = Map!Result(arg[p]) /\ map' = Map!Effect(arg[p]) /\ pc'[p] # "dead"
    BY <1>1, <2>1, <2>4
  <2> QED BY <1>3, <2>2, <2>5, MapDo
<1> QED BY <1>5, <1>6

LEMMA MapFind ==
  ASSUME TypeOK, PcInv, LockInv, NEW L, NEW R, Good(L, R), NEW p \in Procs, Others(p),
         FindHead(p) \/ FindNext(p)
  PROVE  Map!Next \/ UNCHANGED Map!vars
<1>1. /\ pc[p] \in {"find_head", "find_next"} /\ arg'[p] = arg[p] /\ map' = map
      /\ Visible(p) /\ ~Took(p) /\ pc[p] # "dead"
  BY DEF FindHead, FindNext, At, Visible, Took, PcInv, PcOK, KeyLabels, ScanLabels, Labels
<1>2. ASSUME pc'[p] \notin {"unlock", "del_unlock", "dead"} PROVE UNCHANGED Map!vars
  <2>1. ~Took(p)'
    BY <1>2 DEF Took
  <2> QED BY <1>1, <1>2, <2>1, MapSilent
<1>3. CASE FindHead(p)
  <2>1. CASE Field(d[p].ptroff) = 0
    <3>1. Miss(p) /\ pc[p] = "find_head"
      BY <1>3, <2>1 DEF FindHead, At
    <3> QED BY <1>1, <2>1, <3>1, HeadMisses, MapMiss
  <2>2. CASE Field(d[p].ptroff) # 0
    <3>1. pc'[p] = "find_next"
      BY <1>3, <2>2 DEF FindHead, Goto, TypeOK
    <3> QED BY <1>2, <3>1
  <2> QED BY <2>1, <2>2
<1>4. CASE FindNext(p)
  <2>1. pc[p] = "find_next"
    BY <1>4 DEF FindNext, At
  <2>2. PICK o, a : o = d[p].offset /\ a = arg[p]
    OBVIOUS
  <2>3. CASE Rec(o).key # a.key /\ Rec(o).ptr = 0
    <3>1. Miss(p)
      BY <1>4, <2>2, <2>3 DEF FindNext
    <3> QED BY <1>1, <2>1, <2>2, <2>3, <3>1, NextMisses, MapMiss
  <2>4. CASE Rec(o).key # a.key /\ Rec(o).ptr # 0
    <3>1. pc'[p] = "find_next"
      BY <1>4, <2>1, <2>2, <2>4 DEF FindNext
    <3> QED BY <1>2, <3>1
  <2>5. CASE Rec(o).key = a.key
    <3>1. /\ pc'[p] = HitPc(a, Rec(o).datlen)
          /\ pc'[p] = "unlock" => rc'[p] = 1
      BY <1>4, <2>2, <2>5 DEF FindNext, Hit, Goto, TypeOK
    <3>2. a.op \in {"fetch", "store", "delete"}
      BY <1>1, <2>2 DEF Visible
    <3>3. /\ pc'[p] \in {"fetch_dat", "del_lock", "rep_dat", "unlock"}
          /\ pc'[p] = "unlock" => a.op = "store" /\ "INSERT" \in a.flag
      BY <3>1, <3>2 DEF HitPc
    <3>4. CASE pc'[p] = "unlock"
      <4>1. map[a.key] # NULL
        <5>1. /\ pc[p] \in ChainLabels /\ ~InFlux(p) /\ o \in On(L, d[p].chainoff)
          BY <2>1, <2>2, NextFacts
        <5> QED BY <2>2, <2>5, <5>1, KeyAgrees
      <4>2. Map!Result(a) = 1 /\ Map!Effect(a) = map
        BY <3>2, <3>3, <3>4, <4>1, MapResult
      <4>3. rc'[p] = Map!Result(arg[p]) /\ map' = Map!Effect(arg[p]) /\ pc'[p] # "dead"
        BY <1>1, <2>2, <3>1, <3>4, <4>2
      <4>4. Took(p)'
        BY <3>4 DEF Took
      <4> QED BY <1>1, <4>3, <4>4, MapDo
    <3>5. CASE pc'[p] # "unlock"
      BY <1>2, <3>3, <3>5
    <3> QED BY <3>4, <3>5
  <2> QED BY <2>3, <2>4, <2>5
<1> QED BY <1>3, <1>4

(* The other steps at which a call takes effect.                           *)
LEMMA MapEffects ==
  ASSUME TypeOK, PcInv, LockInv, ScansOnly, NEW L, NEW R, Good(L, R), NEW p \in Procs, Others(p),
         FetchDat(p) \/ Link(p) \/ RepDat(p) \/ DelUnlink(p)
  PROVE  Map!Next \/ UNCHANGED Map!vars
<1>1. PICK a : a = arg[p]
  OBVIOUS
<1>2. /\ pc[p] \in {"fetch_dat", "link", "rep_dat", "del_unlink"} /\ arg'[p] = a
  BY <1>1 DEF FetchDat, Link, RepDat, DelUnlink, At
<1>3. a.op \in {"fetch", "store", "delete"} /\ Visible(p) /\ ~Took(p) /\ pc[p] # "dead"
  BY <1>1, <1>2 DEF Visible, Took, PcInv, PcOK, KeyLabels, ScanLabels, Labels
<1>4. Expects(p)
  BY DEF Good
<1>5. ASSUME rc'[p] = Map!Result(a), map' = Map!Effect(a), pc'[p] = "unlock"
             \/ (pc'[p] = "del_unlock" /\ a.op = "delete")
      PROVE  Map!Next
  <2>1. Took(p)' /\ pc'[p] # "dead"
    BY <1>1, <1>2, <1>5 DEF Took
  <2> QED BY <1>1, <1>2, <1>3, <1>5, <2>1, MapDo
<1>6. CASE FetchDat(p)
  <2>1. pc[p] = "fetch_dat" /\ pc'[p] = "unlock" /\ rc'[p] = dat[d[p].datoff].val /\ map' = map
    BY <1>6 DEF FetchDat, At, Goto, TypeOK, _db_readdat
  <2>2. a.op = "fetch"
    <3>1. pc[p] = "fetch_dat" => arg[p].op = "fetch"
      BY DEF ScansOnly, OpOK
    <3> QED BY <1>1, <2>1, <3>1
  <2>3. Map!Result(a) = map[a.key] /\ Map!Effect(a) = map
    BY <1>3, <2>2, MapResult
  <2>4. rc'[p] = map[a.key]
    BY <1>1, <2>1, HitDatum
  <2> QED BY <1>5, <2>1, <2>3, <2>4
<1>7. CASE Link(p) \/ RepDat(p)
  <2>1. /\ pc[p] \in {"link", "rep_dat"} /\ pc'[p] = "unlock" /\ rc'[p] = 0
        /\ map' = [map EXCEPT ![a.key] = a.val]
    BY <1>1, <1>7 DEF Link, RepDat, At, Goto, TypeOK
  <2>2. a.op = "store"
    BY <1>1, <2>1 DEF PcInv, PcOK, StoreLabels
  <2>3. /\ map[a.key] # NULL => "INSERT" \notin a.flag
        /\ map[a.key] = NULL => "REPLACE" \notin a.flag
    <3>1. CASE pc[p] = "link"
      BY <1>1, <1>4, <3>1 DEF Expects, InsLabels, NewLabels
    <3>2. CASE pc[p] = "rep_dat"
      <4>1. map[a.key] # NULL
        BY <1>1, <3>2, HitDatum
      <4>2. "INSERT" \notin a.flag
        BY <1>1, <1>4, <2>2, <3>2 DEF Expects
      <4> QED BY <4>1, <4>2
    <3> QED BY <2>1, <3>1, <3>2
  <2>4. Map!Result(a) = 0 /\ Map!Effect(a) = [map EXCEPT ![a.key] = a.val]
    BY <1>3, <2>2, <2>3, MapResult
  <2> QED BY <1>5, <2>1, <2>4
<1>8. CASE DelUnlink(p)
  <2>1. pc[p] = "del_unlink" /\ pc'[p] = "del_unlock"
    BY <1>8 DEF DelUnlink, At, Goto, TypeOK
  <2>2. CASE a.op = "delete"
    <3>1. rc'[p] = 0 /\ map' = [map EXCEPT ![a.key] = NULL]
      BY <1>1, <1>8, <2>2 DEF DelUnlink, TypeOK
    <3>2. map[a.key] # NULL
      BY <1>1, <1>4, <2>1 DEF Expects
    <3>3. Map!Result(a) = 0 /\ Map!Effect(a) = [map EXCEPT ![a.key] = NULL]
      BY <1>3, <2>2, <3>2, MapResult
    <3> QED BY <1>5, <2>1, <2>2, <3>1, <3>3
  <2>3. CASE a.op # "delete"
    <3>1. map' = map
      BY <1>1, <1>8, <2>3 DEF DelUnlink
    <3>2. ~Took(p)' /\ pc'[p] # "dead"
      BY <1>2, <2>1, <2>3 DEF Took
    <3> QED BY <1>1, <1>2, <1>3, <3>1, <3>2, MapSilent
  <2> QED BY <2>2, <2>3
<1> QED BY <1>6, <1>7, <1>8

(* Every step of a call in progress.                                       *)
LEMMA MapQuiet ==
  ASSUME TypeOK, NEW p \in Procs, Others(p), map' = map, arg'[p] = arg[p],
         pc[p] \notin {"unlock", "del_unlock", "dead"}, pc'[p] \notin {"unlock", "del_unlock", "dead"}
  PROVE  UNCHANGED Map!vars
<1>1. ~Took(p) /\ ~Took(p)'
  BY DEF Took
<1> QED BY <1>1, MapSilent

LEMMA MapStep ==
  ASSUME TypeOK, PcInv, LockInv, ScansOnly, NEW L, NEW R, Good(L, R), NEW p \in Procs, Step(p)
  PROVE  Map!Next \/ UNCHANGED Map!vars
<1>1. Others(p)
  BY InCallStep DEF InCall
<1>2. CASE FindHead(p) \/ FindNext(p)
  BY <1>1, <1>2, MapFind
<1>3. CASE FetchDat(p) \/ Link(p) \/ RepDat(p) \/ DelUnlink(p)
  BY <1>1, <1>3, MapEffects
<1>4. CASE Unlock(p)
  <2>1. pc[p] = "unlock" /\ pc'[p] = "idle" /\ arg'[p] = NoArg /\ map' = map
    BY <1>4 DEF Unlock, At, Goto, TypeOK
  <2>2. Visible(p) /\ Took(p) /\ pc[p] # "dead"
    BY <2>1 DEF Visible, Took, PcInv, PcOK, KeyLabels, ScanLabels, Labels
  <2> QED BY <1>1, <2>1, <2>2, MapReturns
<1>5. CASE LinkFails(p)
  <2>1. /\ pc[p] = "link" /\ pc'[p] = "dead" /\ arg'[p] = NoArg
        /\ map' = [map EXCEPT ![arg[p].key] = NULL]
    BY <1>5 DEF LinkFails, Dies, At, TypeOK
  <2>2. Visible(p) /\ ~Took(p) /\ arg[p].op = "store" /\ pc[p] # "dead"
    BY <2>1 DEF Visible, Took, PcInv, PcOK, StoreLabels
  <2> QED BY <1>1, <2>1, <2>2, MapDies
<1>6. CASE NextIdxFails(p)
  <2>1. pc[p] # "dead" /\ pc'[p] = "dead" /\ arg'[p] = NoArg /\ map' = map
    BY <1>6 DEF NextIdxFails, Dies, At, TypeOK
  <2> QED BY <1>1, <2>1, MapDies
<1>7. CASE NextLock(p) \/ NextIdx(p) \/ NextDat(p) \/ NextUnlock(p)
  <2>1. /\ pc[p] \in ScanLabels /\ pc'[p] # "dead" /\ map' = map
        /\ arg'[p] = arg[p] \/ arg'[p] = NoArg
    BY <1>7 DEF NextLock, NextIdx, NextDat, NextUnlock, At, Goto, TypeOK, ScanLabels
  <2>2. pc[p] # "dead" /\ ~Visible(p)
    BY <2>1 DEF ScanLabels, ScansOnly, OpOK
  <2>3. ~Visible(p)'
    BY <2>1, <2>2 DEF Visible, NoArg
  <2> QED BY <1>1, <2>1, <2>2, <2>3, MapHidden
<1>8. CASE DelUnlock(p)
  <2>1. /\ pc[p] = "del_unlock" /\ pc'[p] = (IF arg[p].op = "delete" THEN "unlock" ELSE "rep_head")
        /\ arg'[p] = arg[p] /\ rc'[p] = rc[p] /\ map' = map
    BY <1>8 DEF DelUnlock, At, Goto, TypeOK
  <2>2. (Took(p)' <=> Took(p)) /\ pc[p] # "dead" /\ pc'[p] # "dead"
    BY <2>1 DEF Took
  <2> QED BY <1>1, <2>1, <2>2, MapSilent
<1>9. CASE \/ FindLock(p) \/ InsHead(p) \/ FreeHead(p) \/ FreeNext(p) \/ FreeUnlink(p) \/ FreeUnlock(p)
           \/ ReuseDat(p) \/ ReuseIdx(p) \/ RepHead(p)
  <2>1. /\ map' = map /\ arg'[p] = arg[p] /\ pc[p] \notin {"unlock", "del_unlock", "dead"}
        /\ pc'[p] \notin {"unlock", "del_unlock", "dead"}
    BY <1>9 DEF FindLock, InsHead, FreeHead, FreeNext, FreeUnlink, FreeUnlock, ReuseDat, ReuseIdx, RepHead,
                At, Goto, TypeOK
  <2> QED BY <1>1, <2>1, MapQuiet
<1>10. CASE \/ AppDatLock(p) \/ AppDat(p) \/ AppDatUnlock(p) \/ AppIdxLock(p) \/ AppIdx(p) \/ AppIdxUnlock(p)
            \/ DelLock(p) \/ DelDat(p) \/ DelFree(p) \/ DelIdx(p) \/ DelHead(p)
  <2>1. /\ map' = map /\ arg'[p] = arg[p] /\ pc[p] \notin {"unlock", "del_unlock", "dead"}
        /\ pc'[p] \notin {"unlock", "del_unlock", "dead"}
    BY <1>10 DEF AppDatLock, AppDat, AppDatUnlock, AppIdxLock, AppIdx, AppIdxUnlock, DelLock, DelDat,
                 DelFree, DelIdx, DelHead, At, Goto, TypeOK
  <2> QED BY <1>1, <2>1, MapQuiet
<1> QED BY <1>2, <1>3, <1>4, <1>5, <1>6, <1>7, <1>8, <1>9, <1>10 DEF Step

LEMMA MapNext ==
  ASSUME Killable = {}, ListInv, ScansOnly, [Next]_vars
  PROVE  [Map!Next]_(Map!vars)
<1>1. TypeOK /\ PcInv /\ LockInv
  BY DEF ListInv
<1>2. PICK L, R : Good(L, R)
  BY DEF ListInv, AllGood
<1>3. Alone
  BY <1>2 DEF Good
<1>4. ASSUME NEW p \in Procs, Calls(p) PROVE Map!Next \/ UNCHANGED Map!vars
  BY <1>1, <1>3, <1>4, MapCalls
<1>5. ASSUME NEW p \in Procs, Step(p) PROVE Map!Next \/ UNCHANGED Map!vars
  BY <1>1, <1>2, <1>5, MapStep
<1>6. CASE UNCHANGED vars
  BY <1>6 DEF vars, Map!vars, absSt, absReq, absRes, Visible, Took
<1>7. \A p \in Procs : ~Killed(p)
  BY DEF Killed
<1> QED BY <1>4, <1>5, <1>6, <1>7 DEF Next, Done

(* db_fetch, db_store and db_delete are atomic operations on a map, as     *)
(* long as nobody is killed in a call and insertions are not overlapped    *)
(* with other writes: every step of the library is a step of DbMap or      *)
(* leaves its state unchanged.                                             *)
THEOREM Implements ==
  ASSUME SerialInserts, Killable = {}
  PROVE  Spec => ImplementsMap
<1>1. Init => ScansOnly /\ Map!Init
  BY DEF Init, ScansOnly, OpOK, ScanLabels, Map!Init, absSt, absReq, absRes, Visible, Took, NoArg, Map!NoReq
<1>2. ListInv /\ ScansOnly /\ [Next]_vars => ScansOnly'
  BY ScansOnlyNext DEF ListInv
<1>3. ListInv /\ ScansOnly /\ [Next]_vars => [Map!Next]_(Map!vars)
  BY MapNext
<1> QED BY <1>1, <1>2, <1>3, ListsInvariant, PTL DEF Spec, ImplementsMap, Map!Spec

-----------------------------------------------------------------------------
(***************************************************************************)
(* Changes under the lock.  Here lists matter that a deletion has cut: the *)
(* walk of such a chain goes on into the free list.                        *)
(***************************************************************************)
WalksRight == \A l \in PtrLoc : WalkTo(l, Len(idx), Walk(l))

LEMMA WalksAre == TypeOK => WalksRight
  BY WalkIs DEF WalksRight

(* A step that spares the fields of such a set spares the list.            *)
LEMMA WalkSame ==
  ASSUME TypeOK, TypeOK', NEW l \in 0 .. NHASH, NEW S \in SUBSET RecOff, NEW N, \A y \in S : N[y] \in Nat,
         Field(l) = 0 \/ Field(l) \in S,
         \A y \in S : Field(y) = 0 \/ (Field(y) \in S /\ N[Field(y)] < N[y]),
         Len(idx) <= Len(idx'), Field(l)' = Field(l), \A y \in S : Field(y)' = Field(y)
  PROVE  OnList(l)' = OnList(l) /\ OnList(l) \subseteq S
<1>1. PICK w, v, M, K : w = Walk(l) /\ v = Walk(l)' /\ M = Len(idx) /\ K = Len(idx')
  OBVIOUS
<1>2. M \in Nat /\ K \in Nat /\ M <= K /\ l \in PtrLoc /\ l \in PtrLoc'
  <2>1. Len(idx) \in Nat /\ Len(idx') \in Nat /\ NHASH \in Nat
    BY LenNat, ConstAssumption DEF TypeOK
  <2> QED BY <1>1, <2>1 DEF PtrLoc
<1>3. WalksRight /\ WalksRight'
  <2>1. WalksRight
    BY WalksAre
  <2>2. TypeOK' => WalksRight'
    BY WalksAre, PTL
  <2> QED BY <2>1, <2>2
<1>4. /\ w[0] = Field(l)
      /\ \A n \in 1 .. M : w[n] = IF w[n - 1] = 0 THEN 0 ELSE Field(w[n - 1])
  BY <1>1, <1>2, <1>3 DEF WalksRight, WalkTo
<1>5. /\ v[0] = Field(l)'
      /\ \A n \in 1 .. K : v[n] = IF v[n - 1] = 0 THEN 0 ELSE Field(v[n - 1])'
  BY <1>1, <1>2, <1>3 DEF WalksRight, WalkTo
<1>6. (\A n \in 0 .. M : w[n] # 0 => w[n] \in S) /\ w[M] = 0
  BY <1>1, WalkIn
<1>7. \A n \in 0 .. M : v[n] = w[n]
  <2> DEFINE T == {n \in Nat : n \in 0 .. M /\ v[n] # w[n]}
  <2> SUFFICES ASSUME T # {} PROVE FALSE
    BY <1>2
  <2>1. PICK n \in T : \A i \in T : n <= i
    <3> HIDE DEF T
    <3>1. T \in SUBSET Nat BY DEF T
    <3> QED BY <3>1, Least
  <2>2. n \in Nat /\ n <= M /\ v[n] # w[n]
    OBVIOUS
  <2>3. n # 0
    BY <1>4, <1>5, <2>2
  <2>4. n - 1 \in 0 .. M /\ n \in 1 .. M /\ n \in 1 .. K /\ n - 1 \notin T
    BY <1>2, <2>1, <2>2, <2>3
  <2>5. v[n - 1] = w[n - 1]
    BY <1>2, <2>4
  <2>6. CASE w[n - 1] = 0
    <3>1. w[n] = 0 /\ v[n] = 0
      BY <1>4, <1>5, <2>4, <2>5, <2>6
    <3> QED BY <2>2, <3>1
  <2>7. CASE w[n - 1] # 0
    <3>1. PICK y \in S : y = w[n - 1]
      BY <1>6, <2>4, <2>7
    <3>2. w[n] = Field(y) /\ v[n] = Field(y)'
      BY <1>4, <1>5, <2>4, <2>5, <2>7, <3>1
    <3> QED BY <2>2, <3>2
  <2> QED BY <2>6, <2>7
<1>8. \A n \in M .. K : v[n] = 0
  <2> DEFINE T == {n \in Nat : n \in M .. K /\ v[n] # 0}
  <2> SUFFICES ASSUME T # {} PROVE FALSE
    BY <1>2
  <2>1. PICK n \in T : \A i \in T : n <= i
    <3> HIDE DEF T
    <3>1. T \in SUBSET Nat BY DEF T
    <3> QED BY <3>1, Least
  <2>2. n \in Nat /\ M <= n /\ n <= K /\ v[n] # 0
    BY <1>2
  <2>3. n # M
    BY <1>2, <1>6, <1>7, <2>2
  <2>4. n - 1 \in M .. K /\ n \in 1 .. K /\ n - 1 \notin T
    BY <1>2, <2>1, <2>2, <2>3
  <2>5. v[n - 1] = 0
    BY <1>2, <2>4
  <2> QED BY <1>5, <2>2, <2>4, <2>5
<1>9. OnList(l) = {w[n] : n \in 0 .. M} \ {0} /\ OnList(l)' = {v[n] : n \in 0 .. K} \ {0}
  BY <1>1 DEF OnList
<1>10. {v[n] : n \in 0 .. K} \ {0} = {w[n] : n \in 0 .. M} \ {0}
  <2>1. ASSUME NEW n \in 0 .. K PROVE v[n] = 0 \/ \E m \in 0 .. M : v[n] = w[m]
    <3>1. n \in 0 .. M \/ n \in M .. K
      BY <1>2
    <3> QED BY <1>7, <1>8, <3>1
  <2>2. ASSUME NEW n \in 0 .. M PROVE \E m \in 0 .. K : w[n] = v[m]
    <3>1. n \in 0 .. K
      BY <1>2
    <3> QED BY <1>7, <3>1
  <2> QED BY <2>1, <2>2
<1> QED BY <1>6, <1>9, <1>10

(* A step of p changes at most pointer field t, or the record or the datum *)
(* it belongs to: one of p's chain, or one that a deletion or an insertion *)
(* has to do with.                                                         *)
Touches(L, p, t) ==
  /\ t \in PtrLoc /\ L[t] \in {-1, 0, d[p].chainoff}
  /\ L[t] # d[p].chainoff => MayInsert(arg[p]) \/ pc[p] \in FreeLabels
  /\ \A x \in PtrLoc : x # t => Field(x)' = Field(x)
  /\ \A y \in RecOff : y # t => Rec(y)' = Rec(y) /\ dat'[Rec(y).datoff] = dat[Rec(y).datoff]
  /\ Len(idx) <= Len(idx')

(* A step that changes the files is a writer's inside its chain's section, *)
(* and changes one such place.                                             *)
LEMMA StepTouches ==
  ASSUME TypeOK, PcInv, LockInv, NEW L, NEW R, Good(L, R), NEW p \in Procs, Step(p), ~UNCHANGED files
  PROVE  /\ pc[p] \in ChainLabels /\ IsWrite(arg[p]) /\ pc'[p] # pc[p]
         /\ \E t : Touches(L, p, t)
<1>1. Knows(L, R, p) /\ PcOK(p) /\ d[p] \in DbType /\ Shape(L, R) /\ NHASH \in Nat /\ Len(idx) \in Nat
  BY LenNat, ConstAssumption DEF Good, PcInv, TypeOK
<1>2. PICK o, c, s, x : o = d[p].idxoff /\ c = d[p].chainoff /\ s = d[p].saveoff /\ x = d[p].ptroff
  OBVIOUS
<1>3. /\ s \in PtrLoc /\ x \in PtrLoc /\ 0 \in PtrLoc /\ RecOff \subseteq PtrLoc /\ L[0] = 0
      /\ \A y \in RecOff : Rec(y).datoff \in DatPos
  <2>1. s \in PtrLoc /\ x \in PtrLoc /\ 0 \in PtrLoc /\ RecOff \subseteq PtrLoc
    BY <1>1, <1>2, OffsetFacts DEF DbType
  <2>2. L[0] = 0
    BY <1>1 DEF Shape
  <2> QED BY <2>1, <2>2, RecTyped DEF IdxType
<1>4. CASE FreeUnlink(p) \/ ReuseDat(p) \/ ReuseIdx(p)
  <2>1. /\ pc[p] \in FfLabels /\ pc[p] \in StoreLabels /\ pc[p] \in {"ff_unlink", "reuse_dat", "reuse_idx"}
        /\ pc'[p] # pc[p]
    BY <1>4 DEF FreeUnlink, ReuseDat, ReuseIdx, At, Goto, TypeOK, FfLabels, StoreLabels
  <2>2. pc[p] \in ChainLabels /\ IsWrite(arg[p]) /\ MayInsert(arg[p])
    BY <1>1, <2>1, LabelFacts, Writes DEF Knows, FreeOK
  <2>3. CASE FreeUnlink(p)
    <3>1. L[s] = 0 /\ _db_writeptr(p, s, d[p].ptrval)
      BY <1>1, <1>2, <2>3 DEF FreeUnlink, At, Knows, FreeOK
    <3>2. /\ dat' = dat /\ Len(idx') = Len(idx) /\ (\A y \in RecOff : y # s => Rec(y)' = Rec(y))
          /\ \A z \in PtrLoc : z # s => Field(z)' = Field(z)
      BY <1>3, <3>1, WritePtr
    <3>3. Touches(L, p, s)
      BY <1>1, <1>3, <2>2, <3>1, <3>2 DEF Touches
    <3> QED BY <2>1, <2>2, <3>3
  <2>4. (o \in RecOff /\ Free(p) /\ L[o] = -1) \/ FreeUnlink(p)
    BY <1>1, <1>2, <1>4 DEF Knows, OwnOK, Owns, Reusing, ReuseDat, ReuseIdx, At
  <2>5. CASE ReuseDat(p) /\ o \in RecOff /\ Free(p) /\ L[o] = -1
    <3>1. tbl' = tbl /\ idx' = idx /\ OverwriteDat(Rec(o).datoff, arg[p].val, DatLen[arg[p].val])
      BY <1>2, <2>5 DEF ReuseDat, Free
    <3>2. \A y \in RecOff : y # o => dat'[Rec(y).datoff] = dat[Rec(y).datoff]
      BY <2>5, <3>1, OverwriteFacts
    <3>3. Touches(L, p, o)
      BY <1>1, <1>3, <2>2, <2>5, <3>1, <3>2 DEF Touches, Field, Rec
    <3> QED BY <2>1, <2>2, <3>3
  <2>6. CASE ReuseIdx(p) /\ o \in RecOff /\ L[o] = -1
    <3>1. tbl' = tbl /\ dat' = dat /\ OverwriteIdx(p, arg[p].key, KeyLen[arg[p].key], d[p].head)
      BY <2>6 DEF ReuseIdx
    <3>2. /\ Len(idx') = Len(idx) /\ (\A y \in RecOff : y # o => Rec(y)' = Rec(y))
          /\ \A z \in PtrLoc : z # o => Field(z)' = Field(z)
      BY <1>2, <2>6, <3>1, WriteIdx
    <3>3. Touches(L, p, o)
      BY <1>1, <1>3, <2>2, <2>6, <3>1, <3>2 DEF Touches
    <3> QED BY <2>1, <2>2, <3>3
  <2> QED BY <1>4, <2>3, <2>4, <2>5, <2>6
<1>5. ASSUME pc[p] \in ChainLabels PROVE c \in PtrLoc /\ L[c] = c /\ c \in 1 .. NHASH
  <2>1. c \in 1 .. NHASH /\ c \in PtrLoc
    BY <1>2, <1>5, OnChain
  <2> QED BY <1>1, <2>1 DEF Shape
<1>6. CASE AppDat(p) \/ AppIdx(p) \/ Link(p)
  <2>1. pc[p] \in StoreLabels /\ pc'[p] # pc[p]
    BY <1>6 DEF AppDat, AppIdx, Link, At, Goto, TypeOK, StoreLabels
  <2>2. pc[p] \in ChainLabels /\ IsWrite(arg[p])
    BY <2>1, LabelFacts, Writes
  <2>3. c \in PtrLoc /\ L[c] = c
    BY <1>5, <2>2
  <2>4. CASE AppDat(p)
    <3>1. tbl' = tbl /\ idx' = idx /\ dat' = Append(dat, [val |-> arg[p].val, len |-> DatLen[arg[p].val]])
      BY <2>4 DEF AppDat
    <3>2. dat \in Seq(DatType) /\ DatPos = 1 .. Len(dat) /\ Len(dat) \in Nat
      BY LenNat DEF TypeOK, DatPos
    <3>3. \A i \in DatPos : dat'[i] = dat[i]
      BY <3>1, <3>2
    <3>4. (\A z \in PtrLoc : Field(z)' = Field(z)) /\ (\A y \in RecOff : Rec(y)' = Rec(y)) /\ Len(idx) <= Len(idx')
      BY <1>1, <3>1 DEF Field, Rec
    <3>5. Touches(L, p, c)
      BY <1>2, <1>3, <2>3, <3>3, <3>4 DEF Touches
    <3> QED BY <2>1, <2>2, <3>5
  <2>5. CASE AppIdx(p)
    <3>1. PICK r : idx' = Append(idx, r)
      BY <2>5 DEF AppIdx
    <3>2. dat' = dat /\ tbl' = tbl /\ idx \in Seq(IdxType)
      BY <2>5 DEF AppIdx, TypeOK
    <3>3. \A y \in RecOff : y - NHASH \in 1 .. Len(idx)
      BY <1>1 DEF RecOff, FirstRec
    <3>4. Len(idx') = Len(idx) + 1 /\ \A y \in RecOff : Rec(y)' = Rec(y)
      BY <1>1, <3>1, <3>2, <3>3 DEF Rec
    <3>5. \A z \in PtrLoc : ~(z < FirstRec) => z \in RecOff
      BY <1>1 DEF PtrLoc, FirstRec, RecOff
    <3>6. \A z \in PtrLoc : Field(z)' = Field(z)
      BY <3>2, <3>4, <3>5 DEF Field
    <3>7. Touches(L, p, c)
      BY <1>1, <1>2, <1>3, <2>3, <3>2, <3>4, <3>6 DEF Touches
    <3> QED BY <2>1, <2>2, <3>7
  <2>6. CASE Link(p)
    <3>1. _db_writeptr(p, c, o)
      BY <1>2, <2>6 DEF Link
    <3>2. /\ dat' = dat /\ Len(idx') = Len(idx) /\ (\A y \in RecOff : y # c => Rec(y)' = Rec(y))
          /\ \A z \in PtrLoc : z # c => Field(z)' = Field(z)
      BY <2>3, <3>1, WritePtr
    <3>3. Touches(L, p, c)
      BY <1>1, <1>2, <2>3, <3>2 DEF Touches
    <3> QED BY <2>1, <2>2, <3>3
  <2> QED BY <1>6, <2>4, <2>5, <2>6
<1>7. CASE RepDat(p) \/ DelDat(p) \/ DelIdx(p)
  <2>1. /\ pc[p] \in HitLabels /\ pc[p] \in DelLabels \cup StoreLabels /\ pc'[p] # pc[p]
    BY <1>7 DEF RepDat, DelDat, DelIdx, At, Goto, TypeOK, StoreLabels, DelLabels, HitLabels
  <2>2. pc[p] \in ChainLabels /\ IsWrite(arg[p])
    BY <2>1, LabelFacts, Writes
  <2>3. o \in RecOff /\ L[o] = c /\ d[p].datoff = Rec(o).datoff
    BY <1>2, <2>1, HitFacts DEF AtHit
  <2>4. CASE RepDat(p) \/ DelDat(p)
    <3>1. PICK v, len : OverwriteDat(Rec(o).datoff, v, len)
      BY <2>3, <2>4 DEF RepDat, DelDat
    <3>2. tbl' = tbl /\ idx' = idx
      BY <2>4 DEF RepDat, DelDat
    <3>3. \A y \in RecOff : y # o => dat'[Rec(y).datoff] = dat[Rec(y).datoff]
      BY <2>3, <3>1, OverwriteFacts
    <3>4. Touches(L, p, o)
      BY <1>1, <1>2, <1>3, <2>3, <3>2, <3>3 DEF Touches, Field, Rec
    <3> QED BY <2>1, <2>2, <3>4
  <2>5. CASE DelIdx(p)
    <3>1. tbl' = tbl /\ dat' = dat /\ OverwriteIdx(p, Blank, KeyLen[d[p].idxbuf], d[p].freeptr)
      BY <2>5 DEF DelIdx
    <3>2. /\ Len(idx') = Len(idx) /\ (\A y \in RecOff : y # o => Rec(y)' = Rec(y))
          /\ \A z \in PtrLoc : z # o => Field(z)' = Field(z)
      BY <1>2, <2>3, <3>1, WriteIdx
    <3>3. Touches(L, p, o)
      BY <1>1, <1>2, <1>3, <2>3, <3>1, <3>2 DEF Touches
    <3> QED BY <2>1, <2>2, <3>3
  <2> QED BY <1>7, <2>4, <2>5
<1>8. CASE DelHead(p) \/ DelUnlink(p)
  <2>1. pc[p] \in DelLabels /\ pc[p] \in FreeLabels /\ pc'[p] # pc[p]
    BY <1>8 DEF DelHead, DelUnlink, At, Goto, TypeOK, DelLabels, FreeLabels
  <2>2. pc[p] \in ChainLabels /\ IsWrite(arg[p])
    BY <2>1, LabelFacts, Writes
  <2>3. PICK t, v : /\ t \in PtrLoc /\ L[t] \in {0, c} /\ _db_writeptr(p, t, v)
    <3>1. CASE DelHead(p)
      BY <1>3, <3>1 DEF DelHead, FREE_OFF
    <3>2. CASE DelUnlink(p)
      BY <1>1, <1>2, <1>3, <3>2 DEF DelUnlink, At, Knows, ChainOK
    <3> QED BY <1>8, <3>1, <3>2
  <2>4. /\ dat' = dat /\ Len(idx') = Len(idx) /\ (\A y \in RecOff : y # t => Rec(y)' = Rec(y))
        /\ \A z \in PtrLoc : z # t => Field(z)' = Field(z)
    BY <2>3, WritePtr
  <2>5. Touches(L, p, t)
    BY <1>1, <1>2, <2>1, <2>3, <2>4 DEF Touches
  <2> QED BY <2>1, <2>2, <2>5
<1>9. CASE \/ FindLock(p) \/ FindHead(p) \/ FindNext(p) \/ FetchDat(p) \/ Unlock(p)
           \/ InsHead(p) \/ FreeHead(p) \/ FreeNext(p) \/ FreeUnlock(p)
           \/ AppDatLock(p) \/ AppDatUnlock(p) \/ AppIdxLock(p) \/ AppIdxUnlock(p)
           \/ LinkFails(p) \/ RepHead(p) \/ DelLock(p) \/ DelFree(p) \/ DelUnlock(p)
           \/ NextLock(p) \/ NextIdx(p) \/ NextIdxFails(p) \/ NextDat(p) \/ NextUnlock(p)
  <2>1. UNCHANGED files
    BY <1>9 DEF FindLock, FindHead, FindNext, FetchDat, Unlock, InsHead, FreeHead, FreeNext, FreeUnlock,
       AppDatLock, AppDatUnlock, AppIdxLock, AppIdxUnlock, LinkFails, RepHead, DelLock, DelFree, DelUnlock,
       NextLock, NextIdx, NextIdxFails, NextDat, NextUnlock, Dies
  <2> QED BY <2>1
<1> QED BY <1>4, <1>6, <1>7, <1>8, <1>9 DEF Step

(* Between the rewriting of a deleted record and its removal from the      *)
(* chain, the chain still leads to it, and then the free list does too.    *)
Cuts(q) == pc[q] \in {"del_head", "del_unlink"}
CutInv ==
  \A q \in Procs : /\ Cuts(q) => Field(d[q].ptroff) = d[q].idxoff
                   /\ pc[q] = "del_unlink" => tbl[0] = d[q].idxoff

LEMMA HeadField == Field(0) = tbl[0]
  BY ConstAssumption DEF Field, FirstRec

(* What is known of a deletion that has cut its chain: the deleted record  *)
(* is on its way to the free list or at its head.                          *)
LEMMA CutFacts ==
  ASSUME TypeOK, PcInv, LockInv, CutInv, NEW L, NEW R, Good(L, R), NEW q \in Procs, Cuts(q)
  PROVE  /\ d[q].idxoff \in RecOff /\ L[d[q].idxoff] \in {-1, 0}
         /\ L[d[q].idxoff] = -1 => Field(d[q].idxoff) = tbl[0]
         /\ d[q].chainoff \in 1 .. NHASH /\ d[q].chainoff \in wr[q]
         /\ L[d[q].ptroff] = d[q].chainoff /\ d[q].ptroff \in PtrLoc
         /\ Field(d[q].ptroff) = d[q].idxoff
         /\ IsWrite(arg[q]) /\ pc[q] \in ChainLabels /\ pc[q] \in FreeLabels
<1>1. PICK o : o = d[q].idxoff
  OBVIOUS
<1>2. /\ pc[q] \in DelLabels /\ pc[q] \in FreeLabels /\ pc[q] \in ChainLabels /\ IsWrite(arg[q])
  <2>1. pc[q] \in DelLabels /\ pc[q] \in FreeLabels
    BY DEF Cuts, DelLabels, FreeLabels
  <2> QED BY <2>1, LabelFacts, Writes
<1>3. d[q].chainoff \in 1 .. NHASH /\ d[q].chainoff \in wr[q]
  BY CutsLocked DEF Cuts
<1>4. /\ L[d[q].ptroff] = d[q].chainoff /\ d[q].ptroff \in PtrLoc /\ Field(d[q].ptroff) = o
  BY <1>1 DEF Good, Knows, ChainOK, Cuts, CutInv, TypeOK, DbType
<1>5. o \in RecOff
  BY <1>1, <1>2 DEF PcInv, PcOK, NeedsRec, TypeOK, DbType
<1>6. CASE pc[q] = "del_head"
  <2>1. L[o] = -1 /\ Rec(o).ptr = tbl[0]
    BY <1>1, <1>6 DEF Good, Knows, OwnOK, FreeOK, Owns
  <2>2. Field(o) = Rec(o).ptr
    BY <1>5, RecField
  <2> QED BY <1>1, <1>2, <1>3, <1>4, <1>5, <2>1, <2>2
<1>7. CASE pc[q] = "del_unlink"
  <2>1. tbl[0] = o /\ Field(0) = tbl[0] /\ L[0] = 0 /\ 0 \in PtrLoc /\ o # 0
    <3>1. tbl[0] = o
      BY <1>1, <1>7 DEF CutInv
    <3>2. Field(0) = tbl[0]
      BY HeadField
    <3>3. Shape(L, R) /\ 0 \in 0 .. NHASH
      BY ConstAssumption DEF Good
    <3>4. L[0] = 0
      BY <3>3, ShapeFacts
    <3> QED BY <1>5, <3>1, <3>2, <3>4, OffsetFacts
  <2>2. Follows(L, R, 0, Field(0))
    BY <2>1, NotCut
  <2>3. L[o] = 0
    BY <2>1, <2>2 DEF Follows
  <2> QED BY <1>1, <1>2, <1>3, <1>4, <1>5, <2>3
<1> QED BY <1>6, <1>7 DEF Cuts

(* What a walk of chain c may visit: the chain and, while a deletion has   *)
(* cut it, the free list and the deleted record.                           *)
Within(c, S, N) ==
  /\ S \in SUBSET RecOff /\ \A y \in S : N[y] \in Nat
  /\ Field(c) = 0 \/ Field(c) \in S
  /\ \A y \in S : Field(y) = 0 \/ (Field(y) \in S /\ N[Field(y)] < N[y])

LEMMA ChainWithin ==
  ASSUME TypeOK, PcInv, LockInv, CutInv, NEW L, NEW R, Good(L, R), NEW c \in Chains
  PROVE  \E S, N : /\ Within(c, S, N)
                   /\ \A y \in S : \/ L[y] = c
                                   \/ L[y] \in {-1, 0} /\ \E q \in Procs : Cuts(q) /\ d[q].chainoff = c
<1>1. Shape(L, R) /\ Linked(L, R) /\ c \in 1 .. NHASH /\ c \in 0 .. NHASH /\ NHASH \in Nat /\ 0 \in 0 .. NHASH
  BY ConstAssumption DEF Good, Chains, HASH_OFF
<1>2. /\ RecOff \subseteq Nat /\ PtrLoc \subseteq Nat /\ RecOff \subseteq PtrLoc /\ 0 \in PtrLoc /\ c \in PtrLoc
      /\ L[c] = c /\ L[0] = 0 /\ R \in [Nat -> Nat] /\ \A y \in RecOff : y # 0
  <2>1. RecOff \subseteq Nat /\ PtrLoc \subseteq Nat /\ L[c] = c /\ L[0] = 0
    BY <1>1, ShapeFacts
  <2> QED BY <1>1, <2>1, OffsetFacts DEF Shape
<1>3. ASSUME NEW x \in PtrLoc, L[x] = c, \A q \in Procs : ~CutAt(q, x)
      PROVE  Field(x) = 0 \/ (Field(x) \in On(L, c) /\ R[Field(x)] < R[x])
  <2>1. Follows(L, R, x, Field(x))
    BY <1>1, <1>3 DEF Linked
  <2> QED BY <1>3, <2>1 DEF Follows, On
<1>4. CASE \A q \in Procs : Cuts(q) => d[q].chainoff # c
  <2>1. ASSUME NEW x \in PtrLoc, L[x] = c PROVE \A q \in Procs : ~CutAt(q, x)
    BY <1>4, <2>1, CutsOwn DEF CutAt, Cuts
  <2>2. \A x \in PtrLoc : L[x] = c => Field(x) = 0 \/ (Field(x) \in On(L, c) /\ R[Field(x)] < R[x])
    BY <1>3, <2>1
  <2>3. Within(c, On(L, c), R)
    BY <1>2, <2>2 DEF Within, On
  <2> QED BY <2>3 DEF On
<1>5. ASSUME NEW q \in Procs, Cuts(q), d[q].chainoff = c
      PROVE  \E S, N : Within(c, S, N) /\ \A y \in S : L[y] \in {c, -1, 0}
  <2>1. PICK o, x : o = d[q].idxoff /\ x = d[q].ptroff
    OBVIOUS
  <2>2. /\ o \in RecOff /\ L[o] \in {-1, 0} /\ (L[o] = -1 => Field(o) = tbl[0])
        /\ L[x] = c /\ x \in PtrLoc /\ Field(x) = o /\ pc[q] \in ChainLabels /\ IsWrite(arg[q])
    BY <1>5, <2>1, CutFacts
  <2>3. PICK N : N = [y \in Nat |-> IF L[y] = c THEN R[y] + R[0] + 2 ELSE IF L[y] = 0 THEN R[y] ELSE R[0] + 1]
    OBVIOUS
  <2>4. /\ \A y \in Nat : N[y] \in Nat /\ R[y] \in Nat
        /\ \A y \in Nat : L[y] = c => N[y] = R[y] + R[0] + 2
        /\ \A y \in Nat : L[y] = 0 => N[y] = R[y]
        /\ \A y \in Nat : L[y] = -1 => N[y] = R[0] + 1
    BY <1>1, <1>2, <2>3
  <2>5. PICK S : S = On(L, c) \cup {o} \cup On(L, 0)
    OBVIOUS
  <2>6. \A y \in S : y \in RecOff /\ y \in Nat /\ y \in PtrLoc /\ L[y] \in {c, -1, 0} /\ (L[y] = -1 => y = o)
    BY <1>1, <1>2, <2>2, <2>5 DEF On
  <2>7. \A y \in On(L, 0) : R[y] < R[0]
    BY <1>1, Ranked
  <2>8. ASSUME NEW y \in PtrLoc, L[y] = 0 PROVE Field(y) = 0 \/ (Field(y) \in On(L, 0) /\ R[Field(y)] < R[y])
    <3>1. Follows(L, R, y, Field(y))
      BY <2>8, NotCut
    <3> QED BY <2>8, <3>1 DEF Follows, On
  <2>9. ASSUME NEW y \in PtrLoc, L[y] = c PROVE Field(y) = 0 \/ (Field(y) \in S /\ N[Field(y)] < N[y])
    <3>1. y \in Nat
      BY <1>2
    <3>2. CASE y = x
      <4>1. Field(y) = o /\ o \in S /\ o \in Nat /\ N[y] = R[y] + R[0] + 2
        BY <1>2, <2>2, <2>4, <2>5, <2>9, <3>1, <3>2
      <4>2. N[o] <= R[0] + 1
        <5>1. CASE L[o] = -1
          BY <2>4, <4>1, <5>1
        <5>2. CASE L[o] = 0
          <6>1. N[o] = R[o] /\ R[o] < R[0] /\ R[o] \in Nat /\ R[0] \in Nat
            BY <2>2, <2>4, <2>7, <4>1, <5>2 DEF On
          <6> QED BY <6>1
        <5> QED BY <2>2, <5>1, <5>2
      <4>3. R[y] \in Nat /\ R[0] \in Nat /\ N[o] \in Nat
        BY <2>4, <3>1, <4>1
      <4> QED BY <4>1, <4>2, <4>3
    <3>3. CASE y # x
      <4>1. ASSUME NEW r \in Procs, CutAt(r, y) PROVE FALSE
        <5>1. Cuts(r) /\ d[r].chainoff = c
          BY <2>9, <4>1, CutsOwn DEF CutAt, Cuts
        <5>2. pc[r] \in ChainLabels
          BY <5>1, CutFacts
        <5>3. r = q
          BY <1>5, <2>2, <5>1, <5>2, OtherChain
        <5> QED BY <2>1, <3>3, <4>1, <5>3 DEF CutAt
      <4>2. Field(y) = 0 \/ (Field(y) \in On(L, c) /\ R[Field(y)] < R[y])
        BY <1>3, <2>9, <4>1
      <4>3. CASE Field(y) \in On(L, c) /\ R[Field(y)] < R[y]
        <5>1. PICK z : z = Field(y)
          OBVIOUS
        <5>2. z \in S /\ z \in Nat /\ L[z] = c /\ R[z] < R[y]
          BY <1>2, <2>5, <4>3, <5>1 DEF On
        <5>3. N[z] = R[z] + R[0] + 2 /\ N[y] = R[y] + R[0] + 2 /\ R[z] \in Nat /\ R[y] \in Nat /\ R[0] \in Nat
          BY <2>4, <2>9, <3>1, <5>2
        <5>4. N[z] < N[y]
          BY <5>2, <5>3
        <5> QED BY <5>1, <5>2, <5>4
      <4> QED BY <4>2, <4>3
    <3> QED BY <3>2, <3>3
  <2>10. ASSUME NEW y \in S PROVE Field(y) = 0 \/ (Field(y) \in S /\ N[Field(y)] < N[y])
    <3>1. CASE L[y] = c
      BY <2>6, <2>9, <3>1
    <3>2. CASE L[y] = 0
      <4>1. Field(y) = 0 \/ (Field(y) \in On(L, 0) /\ R[Field(y)] < R[y])
        BY <2>6, <2>8, <3>2
      <4>2. ASSUME NEW z \in On(L, 0) PROVE z \in S /\ N[z] = R[z]
        BY <1>2, <2>4, <2>5 DEF On
      <4>3. N[y] = R[y]
        BY <2>4, <2>6, <3>2
      <4> QED BY <4>1, <4>2, <4>3
    <3>3. CASE L[y] = -1
      <4>1. y = o /\ y \in Nat /\ N[y] = R[0] + 1 /\ Field(y) = tbl[0] /\ Field(0) = tbl[0]
        BY <1>1, <2>2, <2>4, <2>6, <3>3 DEF Field, FirstRec
      <4>2. Field(y) = 0 \/ (Field(y) \in On(L, 0) /\ R[Field(y)] < R[0])
        BY <1>2, <2>8, <4>1
      <4>3. ASSUME NEW z \in On(L, 0), R[z] < R[0] PROVE z \in S /\ N[z] < R[0] + 1
        <5>1. z \in S /\ N[z] = R[z] /\ R[z] \in Nat /\ R[0] \in Nat
          BY <1>2, <2>4, <2>5 DEF On
        <5> QED BY <4>3, <5>1
      <4> QED BY <4>1, <4>2, <4>3
    <3> QED BY <2>6, <3>1, <3>2, <3>3
  <2>11. Within(c, S, N)
    <3>1. S \in SUBSET RecOff /\ \A y \in S : N[y] \in Nat
      BY <2>4, <2>6
    <3>2. Field(c) = 0 \/ Field(c) \in S
      BY <1>2, <2>9
    <3> QED BY <2>10, <3>1, <3>2 DEF Within
  <2> QED BY <2>6, <2>11
<1>6. CASE \E q \in Procs : Cuts(q) /\ d[q].chainoff = c
  <2>1. PICK S, N : Within(c, S, N) /\ \A y \in S : L[y] \in {c, -1, 0}
    BY <1>5, <1>6
  <2> QED BY <1>6, <2>1
<1> QED BY <1>4, <1>6

(* A step of p leaves what another process has cut as it is.               *)
LEMMA CutOther ==
  ASSUME TypeOK, PcInv, LockInv, CutInv, NEW L, NEW R, Good(L, R), NEW p \in Procs, Step(p),
         NEW q \in Procs, q # p, Cuts(q)
  PROVE  Field(d[q].ptroff)' = Field(d[q].ptroff) /\ tbl'[0] = tbl[0]
<1>1. d'[q] = d[q]
  BY InCallStep DEF InCall, Others
<1>2. PICK x : x = d[q].ptroff /\ x = d'[q].ptroff
  BY <1>1
<1>3. CASE UNCHANGED files
  <2>1. \A z : Field(z)' = Field(z)
    BY <1>3 DEF files, Field, Rec
  <2> QED BY <1>2, <1>3, <2>1 DEF files
<1>4. CASE ~UNCHANGED files
  <2>1. PICK t : Touches(L, p, t)
    BY <1>4, StepTouches
  <2>2. pc[p] \in ChainLabels /\ IsWrite(arg[p])
    BY <1>4, StepTouches
  <2>3. /\ d[q].chainoff \in 1 .. NHASH /\ L[x] = d[q].chainoff /\ x \in PtrLoc
        /\ IsWrite(arg[q]) /\ pc[q] \in ChainLabels /\ pc[q] \in FreeLabels
    BY <1>2, CutFacts
  <2>4. ~MayInsert(arg[p]) /\ pc[p] \notin FreeLabels
    BY <2>2, <2>3, OneDeleter DEF Good, Alone
  <2>5. L[t] = d[p].chainoff
    BY <2>1, <2>4 DEF Touches
  <2>6. d[p].chainoff # d[q].chainoff /\ d[p].chainoff \in 1 .. NHASH
    BY <2>2, <2>3, OtherChain, OnChain
  <2>7. L[0] = 0 /\ 0 \in PtrLoc
    BY ShapeFacts, OffsetFacts, ConstAssumption DEF Good
  <2>8. t # x /\ t # 0
    BY <2>3, <2>5, <2>6, <2>7, ConstAssumption
  <2>9. Field(x)' = Field(x) /\ Field(0)' = Field(0)
    BY <2>1, <2>3, <2>7, <2>8 DEF Touches
  <2>10. Field(0) = tbl[0] /\ Field(0)' = tbl'[0]
    BY ConstAssumption DEF Field, FirstRec
  <2> QED BY <1>2, <2>9, <2>10
<1> QED BY <1>3, <1>4

(* A chain is cut by the rewriting of the record that is deleted.          *)
LEMMA CutsFrom ==
  ASSUME TypeOK, PcInv, NEW p \in Procs, Step(p), Cuts(p)'
  PROVE  DelIdx(p) \/ DelHead(p)
<1> SUFFICES ASSUME ~DelIdx(p), ~DelHead(p) PROVE pc'[p] \notin {"del_head", "del_unlink"}
  BY DEF Cuts
<1> USE DEF TypeOK, Goto
<1>1. CASE FindNext(p)
  <2>1. arg[p].op \in {"fetch", "store", "delete"}
    BY <1>1 DEF FindNext, At, PcInv, PcOK, KeyLabels, ScanLabels, Labels
  <2> QED BY <1>1, <2>1 DEF FindNext, At, Hit, HitPc, Miss, MissPc
<1>2. CASE FindHead(p)
  BY <1>2 DEF FindHead, At, Miss, MissPc
<1>3. CASE Unlock(p) \/ NextUnlock(p)
  BY <1>3 DEF Unlock, NextUnlock
<1>4. CASE LinkFails(p) \/ NextIdxFails(p)
  BY <1>4 DEF LinkFails, NextIdxFails, Dies
<1>5. CASE FreeHead(p) \/ FreeNext(p) \/ FreeUnlink(p) \/ FreeUnlock(p) \/ InsHead(p)
  BY <1>5 DEF FreeHead, FreeNext, FreeUnlink, FreeUnlock, InsHead, At
<1>6. CASE FindLock(p) \/ FetchDat(p) \/ ReuseDat(p) \/ ReuseIdx(p)
  BY <1>6 DEF FindLock, FetchDat, ReuseDat, ReuseIdx
<1>7. CASE AppDatLock(p) \/ AppDat(p) \/ AppDatUnlock(p) \/ AppIdxLock(p) \/ AppIdx(p) \/ AppIdxUnlock(p)
  BY <1>7 DEF AppDatLock, AppDat, AppDatUnlock, AppIdxLock, AppIdx, AppIdxUnlock
<1>8. CASE Link(p) \/ RepDat(p) \/ RepHead(p) \/ DelLock(p) \/ DelDat(p) \/ DelFree(p)
  BY <1>8 DEF Link, RepDat, RepHead, DelLock, DelDat, DelFree
<1>9. CASE DelUnlink(p) \/ DelUnlock(p)
  BY <1>9 DEF DelUnlink, DelUnlock
<1>10. CASE NextLock(p) \/ NextIdx(p) \/ NextDat(p)
  BY <1>10 DEF NextLock, NextIdx, NextDat, At
<1> QED BY <1>1, <1>2, <1>3, <1>4, <1>5, <1>6, <1>7, <1>8, <1>9, <1>10 DEF Step

(* A deletion cuts its chain where it stands, and puts the record first on *)
(* the free list.                                                          *)
LEMMA CutSelf ==
  ASSUME TypeOK, PcInv, LockInv, CutInv, NEW L, NEW R, Good(L, R), NEW p \in Procs, Step(p)
  PROVE  /\ Cuts(p)' => Field(d[p].ptroff)' = d'[p].idxoff
         /\ pc'[p] = "del_unlink" => tbl'[0] = d'[p].idxoff
<1> SUFFICES ASSUME Cuts(p)'
             PROVE  /\ Field(d[p].ptroff)' = d'[p].idxoff
                    /\ pc'[p] = "del_unlink" => tbl'[0] = d'[p].idxoff
  BY DEF Cuts
<1>1. PICK o, x : o = d[p].idxoff /\ x = d[p].ptroff
  OBVIOUS
<1>2. Shape(L, R) /\ d[p] \in DbType /\ x \in PtrLoc
  BY <1>1 DEF Good, TypeOK, DbType
<1>3. CASE DelIdx(p)
  <2>1. /\ pc[p] = "del_idx" /\ pc'[p] = "del_head" /\ d'[p] = [d[p] EXCEPT !.ptrval = d[p].freeptr]
        /\ tbl' = tbl /\ OverwriteIdx(p, Blank, KeyLen[d[p].idxbuf], d[p].freeptr)
    BY <1>3 DEF DelIdx, At, Goto, SetDb, TypeOK
  <2>2. d'[p].idxoff = o /\ d'[p].ptroff = x
    BY <1>1, <1>2, <2>1 DEF DbType
  <2>3. pc[p] \in HitLabels
    BY <2>1 DEF HitLabels
  <2>4. /\ L[x] = d[p].chainoff /\ Follows(L, R, x, o) /\ pc[p] \in ChainLabels
        /\ o \in RecOff /\ L[o] = d[p].chainoff /\ d[p].chainoff \in 1 .. NHASH
    BY <1>1, <2>3, HitFacts DEF AtHit
  <2>5. Follows(L, R, x, Field(x))
    BY <1>2, <2>1, <2>4, NotCut
  <2>6. x \in Nat /\ o \in Nat /\ R \in [Nat -> Nat] /\ \A y \in RecOff : y \in Nat /\ y # 0
    BY <1>2, <2>4, ShapeFacts, OffsetFacts
  <2>7. R[o] < R[x] /\ R[o] \in Nat /\ R[x] \in Nat /\ o # 0
    BY <2>4, <2>6 DEF Follows
  <2>8. Field(x) = o
    <3>1. Field(x) # 0
      BY <2>4, <2>5, <2>6, <2>7 DEF Follows
    <3>2. PICK v : v = Field(x)
      OBVIOUS
    <3>3. /\ v \in RecOff /\ L[v] = L[x] /\ R[v] < R[x]
          /\ \A y \in RecOff : L[y] = L[x] /\ R[y] < R[x] => R[y] <= R[v]
      BY <2>5, <3>1, <3>2 DEF Follows
    <3>4. \A y \in RecOff : L[y] = L[x] /\ R[y] < R[x] => R[y] <= R[o]
      BY <2>4, <2>7 DEF Follows
    <3>5. R[o] <= R[v] /\ R[v] <= R[o] /\ R[v] \in Nat
      BY <2>4, <2>6, <2>7, <3>3, <3>4
    <3>6. R[o] = R[v] /\ L[o] = L[v] /\ L[o] # -1
      BY <2>4, <2>7, <3>3, <3>5, ConstAssumption
    <3> QED BY <1>2, <2>4, <3>2, <3>3, <3>6 DEF Shape
  <2>9. x # o
    BY <2>7
  <2>10. Field(x)' = Field(x)
    BY <1>1, <1>2, <2>1, <2>4, <2>9, WriteIdx
  <2> QED BY <1>1, <2>1, <2>2, <2>8, <2>10
<1>4. CASE DelHead(p)
  <2>1. /\ pc[p] = "del_head" /\ d' = d /\ _db_writeptr(p, 0, o)
    BY <1>1, <1>4 DEF DelHead, At, FREE_OFF
  <2>2. L[x] = d[p].chainoff /\ d[p].chainoff \in 1 .. NHASH /\ Field(x) = o /\ x \in PtrLoc
    BY <1>1, <2>1, CutFacts DEF Cuts
  <2>3. L[0] = 0 /\ 0 \in PtrLoc /\ 0 < FirstRec
    BY <1>2, ShapeFacts, OffsetFacts, ConstAssumption DEF FirstRec
  <2>4. x # 0
    BY <2>2, <2>3, ConstAssumption
  <2>5. Field(x)' = Field(x) /\ tbl'[0] = o
    BY <2>1, <2>2, <2>3, <2>4, WritePtr
  <2> QED BY <1>1, <2>1, <2>2, <2>5
<1> QED BY <1>3, <1>4, CutsFrom

LEMMA CutInvNext ==
  ASSUME Killable = {}, ListInv, CutInv, [Next]_vars
  PROVE  CutInv'
<1>1. TypeOK /\ PcInv /\ LockInv
  BY DEF ListInv
<1>2. PICK L, R : Good(L, R)
  BY DEF ListInv, AllGood
<1>3. ASSUME NEW p \in Procs, Step(p) PROVE CutInv'
  <2> SUFFICES ASSUME NEW q \in Procs
               PROVE  /\ Cuts(q)' => Field(d[q].ptroff)' = d'[q].idxoff
                      /\ pc'[q] = "del_unlink" => tbl'[0] = d'[q].idxoff
    BY DEF CutInv
  <2>1. CASE q = p
    BY <1>1, <1>2, <1>3, <2>1, CutSelf
  <2>2. CASE q # p
    <3>1. pc'[q] = pc[q] /\ d'[q] = d[q]
      BY <1>1, <1>3, <2>2, InCallStep DEF InCall, Others
    <3>2. CASE Cuts(q)
      <4>1. Field(d[q].ptroff)' = Field(d[q].ptroff) /\ tbl'[0] = tbl[0]
        BY <1>1, <1>2, <1>3, <2>2, <3>2, CutOther
      <4> QED BY <3>1, <3>2, <4>1 DEF CutInv
    <3>3. CASE ~Cuts(q)
      BY <3>1, <3>3 DEF Cuts
    <3> QED BY <3>2, <3>3
  <2> QED BY <2>1, <2>2
<1>4. ASSUME NEW p \in Procs, Calls(p) PROVE CutInv'
  <2>1. UNCHANGED files
    BY <1>4 DEF Calls, db_fetch, db_delete, db_store, db_nextrec, db_rewind, Call, files
  <2>2. \A z : Field(z)' = Field(z)
    BY <2>1 DEF files, Field, Rec
  <2>3. ASSUME NEW a, NEW label \in {"find_lock", "next_lock"}, Call(p, a, label) PROVE CutInv'
    <3>1. d' = d /\ \A q \in Procs : pc'[q] = pc[q] \/ pc'[q] \notin {"del_head", "del_unlink"}
      BY <1>1, <2>3 DEF Call, Goto, TypeOK
    <3> QED BY <2>1, <2>2, <3>1 DEF CutInv, Cuts, files
  <2>4. CASE db_rewind(p)
    <3>1. pc' = pc /\ d' = d
      BY <2>4 DEF db_rewind
    <3> QED BY <2>1, <2>2, <3>1 DEF CutInv, Cuts, files
  <2> QED BY <1>4, <2>3, <2>4 DEF Calls, db_fetch, db_delete, db_store, db_nextrec
<1>5. CASE UNCHANGED vars
  <2>1. UNCHANGED <<tbl, idx, pc, d>>
    BY <1>5 DEF vars, files
  <2>2. \A z : Field(z)' = Field(z)
    BY <2>1 DEF Field, Rec
  <2> QED BY <2>1, <2>2 DEF CutInv, Cuts
<1>6. \A p \in Procs : ~Killed(p)
  BY DEF Killed
<1> QED BY <1>3, <1>4, <1>5, <1>6 DEF Next, Done

(* A step that changes what a chain holds is a step of its only locker.    *)
LEMMA ChangeLocked ==
  ASSUME TypeOK, TypeOK', PcInv, LockInv, CutInv, NEW L, NEW R, Good(L, R), NEW p \in Procs, Step(p),
         ~UNCHANGED files, NEW c \in Chains, ChainContent(c)' # ChainContent(c)
  PROVE  c \in wr[p] /\ pc'[p] # pc[p] /\ \A q \in Procs \ {p} : c \notin rd[q] \cup wr[q]
<1>1. PICK t : Touches(L, p, t)
  BY StepTouches
<1>2. pc[p] \in ChainLabels /\ IsWrite(arg[p]) /\ pc'[p] # pc[p]
  BY StepTouches
<1>3. d[p].chainoff \in wr[p] /\ d[p].chainoff \in 1 .. NHASH
  BY <1>2, OnChain DEF LockInv, HeldOK
<1>4. c \in 1 .. NHASH /\ c \in 0 .. NHASH /\ c \in PtrLoc /\ L[c] = c /\ L[0] = 0
  BY ShapeFacts, OffsetFacts, ConstAssumption DEF Chains, HASH_OFF, Good
<1>5. ASSUME d[p].chainoff # c PROVE FALSE
  <2>1. PICK S, N : /\ Within(c, S, N)
                    /\ \A y \in S : \/ L[y] = c
                                    \/ L[y] \in {-1, 0} /\ \E q \in Procs : Cuts(q) /\ d[q].chainoff = c
    BY ChainWithin
  <2>2. L[t] # c
    BY <1>1, <1>4, <1>5, ConstAssumption DEF Touches
  <2>3. ASSUME t \in S PROVE FALSE
    <3>1. PICK q \in Procs : Cuts(q) /\ d[q].chainoff = c
      BY <2>1, <2>2, <2>3
    <3>2. L[t] \in {-1, 0}
      BY <2>1, <2>2, <2>3
    <3>3. L[t] # d[p].chainoff
      BY <1>3, <3>2, ConstAssumption
    <3>4. q # p
      BY <1>5, <3>1
    <3>5. IsWrite(arg[q]) /\ pc[q] \in FreeLabels
      BY <3>1, CutFacts
    <3>6. ~MayInsert(arg[p]) /\ pc[p] \notin FreeLabels
      BY <1>2, <3>4, <3>5, OneDeleter DEF Good, Alone
    <3> QED BY <1>1, <3>3, <3>6 DEF Touches
  <2>4. t # c /\ \A y \in S : y # t
    BY <1>4, <2>2, <2>3
  <2>5. /\ S \in SUBSET RecOff /\ (\A y \in S : N[y] \in Nat) /\ (Field(c) = 0 \/ Field(c) \in S)
        /\ \A y \in S : Field(y) = 0 \/ (Field(y) \in S /\ N[Field(y)] < N[y])
    BY <2>1 DEF Within
  <2>6. /\ Field(c)' = Field(c) /\ Len(idx) <= Len(idx') /\ \A y \in S : Field(y)' = Field(y)
        /\ \A y \in S : Rec(y)' = Rec(y) /\ dat'[Rec(y).datoff] = dat[Rec(y).datoff]
    BY <1>1, <1>4, <2>4, <2>5, OffsetFacts DEF Touches
  <2>7. OnList(c)' = OnList(c) /\ OnList(c) \subseteq S
    BY <1>4, <2>5, <2>6, WalkSame
  <2>8. tbl'[c] = tbl[c]
    <3>1. Field(c) = tbl[c] /\ Field(c)' = tbl'[c]
      BY <1>4, ConstAssumption DEF Field, FirstRec
    <3> QED BY <2>6, <3>1
  <2>9. \A y \in OnList(c) : Rec(y)' = Rec(y) /\ dat'[Rec(y)'.datoff] = dat[Rec(y).datoff]
    BY <2>6, <2>7
  <2>10. {<<o, Rec(o), dat[Rec(o).datoff]>> : o \in OnList(c)}'
           = {<<o, Rec(o), dat[Rec(o).datoff]>> : o \in OnList(c)}
    BY <2>7, <2>9
  <2> QED BY <2>8, <2>10 DEF ChainContent
<1>6. c \in wr[p]
  BY <1>3, <1>5
<1> QED BY <1>2, <1>6 DEF LockInv, Compatible

(* With such inserts a process changes a pointer of a chain, or a record   *)
(* or a datum on it, only while it holds that chain's write lock and       *)
(* nobody else holds a lock on the chain: not even the walk of a chain     *)
(* that a deletion has cut sees another process's change.                  *)
THEOREM LockedChanges ==
  ASSUME SerialInserts, Killable = {}
  PROVE  Spec => ChangesUnderLock
<1> DEFINE A == \A c \in Chains : ChainContent(c)' # ChainContent(c) =>
                  \E p \in Procs : /\ c \in wr[p] /\ pc'[p] # pc[p]
                                   /\ \A q \in Procs \ {p} : c \notin rd[q] \cup wr[q]
<1>1. Init => CutInv
  BY DEF Init, CutInv, Cuts
<1>2. ListInv /\ CutInv /\ [Next]_vars => CutInv'
  BY CutInvNext
<1>3. ListInv /\ ListInv' /\ CutInv /\ [Next]_vars => [A]_files
  <2> SUFFICES ASSUME ListInv, ListInv', CutInv, [Next]_vars, ~UNCHANGED files PROVE A
    OBVIOUS
  <2>1. TypeOK /\ PcInv /\ LockInv /\ TypeOK'
    BY DEF ListInv
  <2>2. PICK L, R : Good(L, R)
    BY DEF ListInv, AllGood
  <2>3. ~UNCHANGED vars /\ ~Done
    BY DEF vars, Done, files
  <2>4. PICK p \in Procs : Step(p)
    BY <2>3 DEF Next, Killed, Calls, db_fetch, db_delete, db_store, db_nextrec, db_rewind, Call, files
  <2> QED BY <2>1, <2>2, <2>4, ChangeLocked
<1> HIDE DEF A
<1>4. Spec => [][A]_files
  BY <1>1, <1>2, <1>3, ListsInvariant, PTL DEF Spec
<1> QED BY <1>4 DEF ChangesUnderLock, A
===============================================================================
