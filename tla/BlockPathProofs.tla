-------------------------- MODULE BlockPathProofs ---------------------------
(***************************************************************************)
(* Proofs about the blocks on their way from a source to the screen.       *)
(*                                                                         *)
(* Explorer: its window, cache and selection for every chain, every size of*)
(* the window, the cache and the context, and every filter: what is        *)
(* selected stays on view, and cache and order never drift apart.          *)
(* BlockFeed: the polling loop sends each block once, in order, and leaves *)
(* no gap of its own, for every chain, every catch-up limit and every      *)
(* number of retries; and when the chunk limit cannot cost a block         *)
(* transactions.                                                           *)
(***************************************************************************)
EXTENDS Explorer, BlockFeed, FiniteSetTheorems, SequenceTheorems, WellFoundedInduction, TLAPS

Row == [height : Nat, full : BOOLEAN]

\* A cache as the explorer keeps it: the order lists the cached heights, each
\* once, and a row is filed under its own height.
Caches ==
    {c \in [order : Seq(Nat), rows : UNION {[D -> Row] : D \in SUBSET Nat}] :
        /\ IsInjective(c.order)
        /\ ToSet(c.order) = DOMAIN c.rows
        /\ \A h \in DOMAIN c.rows : c.rows[h].height = h}

-----------------------------------------------------------------------------
(* Induction and recursion on numbers, with sets and functions for the     *)
(* predicates and operators the provers cannot instantiate.                *)

LEMMA LeastExists ==
    ASSUME NEW T \in SUBSET Nat, T # {}
    PROVE  \E x \in T : \A y \in T : x <= y
<1> DEFINE R == {ss \in Nat \X Nat : ss[1] < ss[2]}
<1>1. IsWellFoundedOn(R, Nat)
  BY NatLessThanWellFounded DEF OpToRel
<1>2. \A x, y \in Nat : x < y => <<x, y>> \in R
  OBVIOUS
<1> HIDE DEF R
<1>3. PICK x \in T : \A y \in T : ~ (<<y, x>> \in R)
  BY <1>1, WFMin
<1>4. ASSUME NEW y \in T PROVE x <= y
  <2>1. x \in Nat /\ y \in Nat /\ ~ (<<y, x>> \in R)
    BY <1>3
  <2>2. ~ (y < x)
    BY <1>2, <2>1
  <2> QED
    BY <2>1, <2>2
<1> QED
  BY <1>4

\* A set of numbers that holds 0, and with each number the next, holds them all.
LEMMA SetInduction ==
    ASSUME NEW T, 0 \in T, \A n \in Nat : n \in T => n + 1 \in T
    PROVE  Nat \subseteq T
<1> SUFFICES ASSUME Nat \ T # {} PROVE FALSE
  OBVIOUS
<1>1. PICK x \in Nat \ T : \A y \in Nat \ T : x <= y
  BY LeastExists
<1>2. x # 0 /\ x - 1 \in Nat
  BY <1>1
<1>3. x - 1 \in T
  BY <1>1, <1>2
<1> QED
  BY <1>1, <1>2, <1>3

Solves(f, k, S, d, step) ==
    /\ f \in [0 .. k -> S]
    /\ f[0] = d
    /\ \A n \in 1 .. k : f[n] = step[n][f[n - 1]]

\* A recursion over 0 .. k with the steps given as functions has a solution.
LEMMA Recursion ==
    ASSUME NEW k \in Nat, NEW S, NEW d \in S, NEW step \in [1 .. k -> [S -> S]]
    PROVE  \E f : Solves(f, k, S, d, step)
<1> DEFINE Good(m, f) ==
             /\ f \in [0 .. m -> S]
             /\ f[0] = d
             /\ \A n \in 1 .. m : f[n] = step[n][f[n - 1]]
           T == {m \in Nat : m <= k => \E f : Good(m, f)}
<1>1. 0 \in T
  <2>1. Good(0, [n \in 0 .. 0 |-> d])
    OBVIOUS
  <2> QED
    BY <2>1
<1>2. ASSUME NEW m \in Nat, m \in T PROVE m + 1 \in T
  <2> SUFFICES ASSUME m + 1 <= k PROVE \E f : Good(m + 1, f)
    OBVIOUS
  <2>1. PICK f : Good(m, f)
    BY <1>2
  <2> DEFINE g == [n \in 0 .. m + 1 |-> IF n <= m THEN f[n] ELSE step[m + 1][f[m]]]
  <2>2. g \in [0 .. m + 1 -> S] /\ g[0] = d
    BY <2>1
  <2>3. ASSUME NEW n \in 1 .. m + 1 PROVE g[n] = step[n][g[n - 1]]
    BY <2>1
  <2>4. Good(m + 1, g)
    BY <2>2, <2>3
  <2> QED
    BY <2>4
<1> HIDE DEF T
<1>3. k \in T
  BY <1>1, <1>2, SetInduction
<1>4. PICK f : Good(k, f)
  BY <1>3 DEF T
<1> QED
  BY <1>4 DEF Solves

LEMMA MinIsLeast ==
    ASSUME NEW T \in SUBSET Nat, T # {}
    PROVE  Min(T) \in T /\ \A y \in T : Min(T) <= y
<1>1. PICK x \in T : \A y \in T : x <= y
  BY LeastExists
<1>2. \E z \in T : \A y \in T : z =< y
  BY <1>1
<1> QED
  BY <1>2, Zenon DEF Min

-----------------------------------------------------------------------------
(* The window *)

Ordered(w) == \A i, j \in DOMAIN w : i < j => w[i].height >= w[j].height

WindowOK(w) == w \in Seq(Row) /\ Len(w) <= KeepBlocks /\ Ordered(w)

LEMMA IndexOfFinds ==
    ASSUME NEW w \in Seq(Row), NEW h
    PROVE  \/ IndexOf(w, h) = 0 /\ ~ InWindow(w, h)
           \/ /\ IndexOf(w, h) \in 1 .. Len(w) /\ w[IndexOf(w, h)].height = h
              /\ InWindow(w, h)
<1> DEFINE I == {i \in 1 .. Len(w) : w[i].height = h}
<1>1. I \in SUBSET Nat
  OBVIOUS
<1>2. IndexOf(w, h) = IF I # {} THEN Min(I) ELSE 0
  BY DEF IndexOf, SelectInSeq
<1>3. CASE I = {}
  BY <1>2, <1>3 DEF InWindow
<1>4. CASE I # {}
  <2>1. Min(I) \in I
    BY <1>1, <1>4, MinIsLeast
  <2> QED
    BY <1>2, <1>4, <2>1 DEF InWindow
<1> QED
  BY <1>3, <1>4

LEMMA HeightsAreNat ==
    ASSUME NEW w \in Seq(Row)
    PROVE  \A i \in 1 .. Len(w) : w[i] \in Row /\ w[i].height \in Nat
<1>1. \A i \in 1 .. Len(w) : w[i] \in Row
  OBVIOUS
<1> QED
  BY <1>1 DEF Row

\* Before the place of a new block are the blocks that are not lower, behind it
\* those that are not higher.
LEMMA InsertPositionSplits ==
    ASSUME NEW w \in Seq(Row), Ordered(w), NEW h \in Nat
    PROVE  /\ InsertPosition(w, h) \in 1 .. Len(w) + 1
           /\ \A i \in 1 .. Len(w) : i < InsertPosition(w, h) => w[i].height >= h
           /\ \A i \in 1 .. Len(w) : i >= InsertPosition(w, h) => w[i].height <= h
<1> DEFINE I == {i \in 1 .. Len(w) : w[i].height < h}
           newest == w = <<>> \/ h >= w[1].height
           at == IF I # {} THEN Min(I) ELSE 0
<1>1. InsertPosition(w, h) = IF newest THEN 1 ELSE IF at = 0 THEN Len(w) + 1 ELSE at
  BY DEF InsertPosition, SelectInSeq
<1>2. /\ I \in SUBSET Nat
      /\ \A i \in 1 .. Len(w) : w[i].height \in Nat
      /\ \A i, j \in 1 .. Len(w) : i < j => w[i].height >= w[j].height
  <2>1. DOMAIN w = 1 .. Len(w)
    OBVIOUS
  <2> QED
    BY <2>1, HeightsAreNat, SMTT(30) DEF Ordered
<1>3. CASE newest
  <2>1. \A i \in 1 .. Len(w) : w[i].height <= h
    BY <1>2, <1>3
  <2> QED
    BY <1>1, <1>3, <2>1
<1>4. CASE ~ newest /\ I = {}
  BY <1>1, <1>2, <1>4
<1>5. CASE ~ newest /\ I # {}
  <2>1. Min(I) \in I /\ \A i \in I : Min(I) <= i
    BY <1>2, <1>5, MinIsLeast
  <2> DEFINE m == Min(I)
  <2>2. InsertPosition(w, h) = m /\ m \in 1 .. Len(w) /\ w[m].height < h
    BY <1>1, <1>5, <2>1
  <2>3. \A i \in 1 .. Len(w) : i < m => w[i].height >= h
    BY <1>2, <2>1, <2>2
  <2> HIDE DEF m
  <2>4. \A i \in 1 .. Len(w) : i >= m => w[i].height <= h
    BY <1>2, <2>2
  <2> QED
    BY <2>2, <2>3, <2>4
<1> QED
  BY <1>3, <1>4, <1>5

LEMMA InsertedRows ==
    ASSUME NEW S, NEW w \in Seq(S), NEW b \in S, NEW p \in 1 .. Len(w) + 1
    PROVE  /\ InsertAt(w, p, b) \in Seq(S) /\ Len(InsertAt(w, p, b)) = Len(w) + 1
           /\ \A i \in 1 .. Len(w) + 1 :
                 InsertAt(w, p, b)[i] =
                     IF i < p THEN w[i] ELSE IF i = p THEN b ELSE w[i - 1]
<1> DEFINE x == InsertAt(w, p, b)
           u == SubSeq(w, 1, p - 1)
           v == SubSeq(w, p, Len(w))
<1>0. Len(w) \in Nat /\ p \in Nat /\ p <= Len(w) + 1 /\ 1 <= p
  OBVIOUS
<1>1. /\ u \in Seq(S) /\ Len(u) = p - 1
      /\ \A i \in 1 .. p - 1 : u[i] = w[i]
  OBVIOUS
<1>2. /\ v \in Seq(S) /\ Len(v) = Len(w) - p + 1
      /\ \A i \in 1 .. Len(w) - p + 1 : v[i] = w[p + i - 1]
  OBVIOUS
<1> HIDE DEF u, v
<1> DEFINE y == u \o <<b>>
<1>3. /\ y \in Seq(S) /\ Len(y) = p /\ y[p] = b
      /\ \A i \in 1 .. p - 1 : y[i] = w[i]
  BY <1>1, SMTT(30)
<1>6. x = y \o v
  BY DEF u, v, InsertAt
<1> HIDE DEF x, y
<1>7. /\ y \o v \in Seq(S) /\ Len(y \o v) = Len(w) + 1
      /\ \A i \in 1 .. p : (y \o v)[i] = y[i]
      /\ \A i \in p + 1 .. Len(w) + 1 : (y \o v)[i] = v[i - p]
  <2>1. y \in Seq(S) /\ v \in Seq(S) /\ Len(y) = p /\ Len(v) = Len(w) - p + 1 /\ Len(w) \in Nat
    BY <1>2, <1>3
  <2>2. /\ y \o v \in Seq(S) /\ Len(y \o v) = Len(y) + Len(v)
        /\ \A i \in 1 .. Len(y) + Len(v) :
              (y \o v)[i] = IF i <= Len(y) THEN y[i] ELSE v[i - Len(y)]
    BY <2>1, ConcatProperties, ZenonT(30)
  <2> QED
    BY <1>0, <2>1, <2>2
<1>4. /\ x \in Seq(S) /\ Len(x) = Len(w) + 1
      /\ \A i \in 1 .. p : x[i] = y[i]
      /\ \A i \in p + 1 .. Len(w) + 1 : x[i] = v[i - p]
  BY <1>6, <1>7
<1>5. ASSUME NEW i \in 1 .. Len(w) + 1
      PROVE  x[i] = IF i < p THEN w[i] ELSE IF i = p THEN b ELSE w[i - 1]
  <2>1. CASE i < p
    BY <1>0, <1>3, <1>4, <2>1
  <2>2. CASE i = p
    BY <1>0, <1>3, <1>4, <2>2
  <2>3. CASE i > p
    <3>1. x[i] = v[i - p] /\ i - p \in 1 .. Len(w) - p + 1
      BY <1>0, <1>4, <2>3
    <3>2. v[i - p] = w[p + (i - p) - 1] /\ p + (i - p) - 1 = i - 1
      BY <1>2, <2>3, <3>1
    <3> QED
      BY <1>0, <1>4, <2>3, <3>1, <3>2
  <2> QED
    BY <1>0, <1>4, <2>1, <2>2, <2>3
<1> QED
  BY <1>4, <1>5 DEF x

LEMMA InsertedOK ==
    ASSUME NEW w, WindowOK(w), NEW b \in Row
    PROVE  WindowOK(Inserted(w, b))
<1> DEFINE p == InsertPosition(w, b.height)
           x == InsertAt(w, p, b)
<1>1. w \in Seq(Row) /\ Ordered(w) /\ b.height \in Nat
  BY DEF WindowOK, Row
<1>2. /\ p \in 1 .. Len(w) + 1
      /\ \A i \in 1 .. Len(w) : i < p => w[i].height >= b.height
      /\ \A i \in 1 .. Len(w) : i >= p => w[i].height <= b.height
  BY <1>1, InsertPositionSplits
<1> HIDE DEF p
<1>4. /\ x \in Seq(Row) /\ Len(x) = Len(w) + 1
      /\ \A i \in 1 .. Len(x) :
            x[i] = IF i < p THEN w[i] ELSE IF i = p THEN b ELSE w[i - 1]
  BY <1>1, <1>2, InsertedRows
<1> HIDE DEF x
<1>5. \A i \in 1 .. Len(w) : w[i].height \in Nat
  BY <1>1, HeightsAreNat
<1>6. ASSUME NEW i \in 1 .. Len(x), NEW j \in 1 .. Len(x), i < j
      PROVE  x[i].height >= x[j].height
  <2>1. CASE j < p
    <3>1. x[i] = w[i] /\ x[j] = w[j] /\ i \in 1 .. Len(w) /\ j \in 1 .. Len(w)
      BY <1>2, <1>4, <1>6, <2>1
    <3> QED
      BY <1>1, <1>6, <3>1 DEF Ordered
  <2>2. CASE j = p
    BY <1>2, <1>4, <1>6, <2>2
  <2>3. CASE j > p /\ i < p
    <3>1. x[i] = w[i] /\ x[j] = w[j - 1] /\ i \in 1 .. Len(w) /\ j - 1 \in 1 .. Len(w)
      BY <1>2, <1>4, <1>6, <2>3
    <3>2. w[i].height >= b.height /\ b.height >= w[j - 1].height
      BY <1>1, <1>2, <1>5, <2>3, <3>1
    <3> QED
      BY <1>1, <1>5, <3>1, <3>2
  <2>4. CASE i = p
    BY <1>1, <1>2, <1>4, <1>5, <1>6, <2>4
  <2>5. CASE i > p
    <3>1. /\ x[i] = w[i - 1] /\ x[j] = w[j - 1]
          /\ i - 1 \in 1 .. Len(w) /\ j - 1 \in 1 .. Len(w) /\ i - 1 < j - 1
      BY <1>2, <1>4, <1>6, <2>5
    <3> QED
      BY <1>1, <3>1 DEF Ordered
  <2> QED
    BY <1>2, <1>6, <2>1, <2>2, <2>3, <2>4, <2>5
<1> DEFINE n == IF Len(x) > KeepBlocks THEN KeepBlocks ELSE Len(x)
<1>7. n \in Nat /\ n <= Len(x) /\ n <= KeepBlocks
  BY <1>4, ExplorerAssumption, ChainAssumption
<1>8. Inserted(w, b) = SubSeq(x, 1, n)
  BY DEF Inserted, Trim, x, p
<1> HIDE DEF n
<1>9. /\ SubSeq(x, 1, n) \in Seq(Row) /\ Len(SubSeq(x, 1, n)) = n
      /\ \A i \in 1 .. n : SubSeq(x, 1, n)[i] = x[i]
  BY <1>4, <1>7
<1>10. \A i, j \in 1 .. n : i < j => SubSeq(x, 1, n)[i].height >= SubSeq(x, 1, n)[j].height
  BY <1>4, <1>6, <1>7, <1>9
<1> QED
  BY <1>7, <1>8, <1>9, <1>10 DEF WindowOK, Ordered

-----------------------------------------------------------------------------
(* The order of the cache *)

LEMMA Suffix ==
    ASSUME NEW S, NEW s \in Seq(S), NEW n \in 0 .. Len(s)
    PROVE  /\ SubSeq(s, n + 1, Len(s)) \in Seq(S)
           /\ Len(SubSeq(s, n + 1, Len(s))) = Len(s) - n
           /\ \A i \in 1 .. Len(s) - n : SubSeq(s, n + 1, Len(s))[i] = s[n + i]
OBVIOUS

LEMMA RemovedAt ==
    ASSUME NEW S, NEW s \in Seq(S), NEW k \in 1 .. Len(s)
    PROVE  /\ RemoveAt(s, k) \in Seq(S) /\ Len(RemoveAt(s, k)) = Len(s) - 1
           /\ \A i \in 1 .. Len(s) - 1 :
                 RemoveAt(s, k)[i] = IF i < k THEN s[i] ELSE s[i + 1]
<1> DEFINE x == RemoveAt(s, k)
           u == SubSeq(s, 1, k - 1)
           v == SubSeq(s, k + 1, Len(s))
<1>1. Len(s) \in Nat /\ k \in Nat /\ 1 <= k /\ k <= Len(s)
  OBVIOUS
<1>2. /\ u \in Seq(S) /\ Len(u) = k - 1
      /\ \A i \in 1 .. k - 1 : u[i] = s[i]
  OBVIOUS
<1>3. /\ v \in Seq(S) /\ Len(v) = Len(s) - k
      /\ \A i \in 1 .. Len(s) - k : v[i] = s[k + i]
  OBVIOUS
<1>4. x = u \o v
  BY DEF RemoveAt
<1> HIDE DEF x, u, v
<1>5. /\ u \o v \in Seq(S) /\ Len(u \o v) = Len(s) - 1
      /\ \A i \in 1 .. k - 1 : (u \o v)[i] = u[i]
      /\ \A i \in k .. Len(s) - 1 : (u \o v)[i] = v[i - (k - 1)]
  <2>1. u \in Seq(S) /\ v \in Seq(S) /\ Len(u) = k - 1 /\ Len(v) = Len(s) - k
    BY <1>2, <1>3
  <2>2. /\ u \o v \in Seq(S) /\ Len(u \o v) = Len(u) + Len(v)
        /\ \A i \in 1 .. Len(u) + Len(v) :
              (u \o v)[i] = IF i <= Len(u) THEN u[i] ELSE v[i - Len(u)]
    BY <2>1, ConcatProperties, ZenonT(30)
  <2> QED
    BY <1>1, <2>1, <2>2, SMTT(30)
<1>6. /\ x \in Seq(S) /\ Len(x) = Len(s) - 1
      /\ \A i \in 1 .. k - 1 : x[i] = u[i]
      /\ \A i \in k .. Len(s) - 1 : x[i] = v[i - (k - 1)]
  BY <1>4, <1>5
<1>7. ASSUME NEW i \in 1 .. Len(s) - 1
      PROVE  x[i] = IF i < k THEN s[i] ELSE s[i + 1]
  <2>1. CASE i < k
    BY <1>1, <1>2, <1>6, <2>1
  <2>2. CASE i >= k
    <3>1. x[i] = v[i - (k - 1)] /\ i - (k - 1) \in 1 .. Len(s) - k
      BY <1>1, <1>6, <2>2
    <3>2. v[i - (k - 1)] = s[k + (i - (k - 1))] /\ k + (i - (k - 1)) = i + 1
      BY <1>1, <1>3, <2>2, <3>1
    <3> QED
      BY <1>1, <2>2, <3>1, <3>2
  <2> QED
    BY <1>1, <2>1, <2>2
<1> QED
  BY <1>6, <1>7 DEF x

\* In an order without repetitions, removing the first e removes every e, as
\* retain does; the others come no further from the end.
LEMMA RemovedFirst ==
    ASSUME NEW s \in Seq(Nat), IsInjective(s), NEW e \in Nat
    PROVE  LET r == RemoveFirst(s, e)
           IN  /\ r \in Seq(Nat) /\ IsInjective(r)
               /\ ToSet(r) = ToSet(s) \ {e}
               /\ \A p \in 1 .. Len(s) : s[p] # e =>
                     \E q \in 1 .. Len(r) : r[q] = s[p] /\ Len(r) - q <= Len(s) - p
<1> DEFINE r == RemoveFirst(s, e)
           I == {i \in 1 .. Len(s) : s[i] = e}
<1>1. Len(s) \in Nat /\ DOMAIN s = 1 .. Len(s)
  OBVIOUS
<1>2. CASE I = {}
  <2>1. r = s
    BY <1>2 DEF RemoveFirst
  <2>2. ToSet(s) = ToSet(s) \ {e}
    BY <1>1, <1>2 DEF ToSet
  <2>3. \A p \in 1 .. Len(s) : \E q \in 1 .. Len(s) : s[q] = s[p] /\ Len(s) - q <= Len(s) - p
    BY <1>1
  <2> QED
    BY <2>1, <2>2, <2>3
<1>3. CASE I # {}
  <2> DEFINE k == Min(I)
  <2>1. r = RemoveAt(s, k)
    BY <1>3 DEF RemoveFirst, SelectInSeq
  <2>2. k \in I
    <3>1. I \in SUBSET Nat
      OBVIOUS
    <3> QED
      BY <1>3, <3>1, MinIsLeast
  <2> HIDE DEF k, r
  <2>3. k \in 1 .. Len(s) /\ s[k] = e
    BY <2>2
  <2>4. /\ r \in Seq(Nat) /\ Len(r) = Len(s) - 1
        /\ \A i \in 1 .. Len(s) - 1 : r[i] = IF i < k THEN s[i] ELSE s[i + 1]
    BY <2>1, <2>3, RemovedAt
  <2>5. DOMAIN r = 1 .. Len(s) - 1
    BY <2>4
  <2>6. \A i, j \in 1 .. Len(s) : s[i] = s[j] => i = j
    BY <1>1 DEF IsInjective
  <2>7. IsInjective(r)
    <3>1. SUFFICES ASSUME NEW i \in 1 .. Len(s) - 1, NEW j \in 1 .. Len(s) - 1, r[i] = r[j]
                   PROVE  i = j
      BY <2>5 DEF IsInjective
    <3> DEFINE a == IF i < k THEN i ELSE i + 1
               b == IF j < k THEN j ELSE j + 1
    <3>2. a \in 1 .. Len(s) /\ b \in 1 .. Len(s)
      BY <1>1, <2>3
    <3>4. r[i] = s[a]
      BY <2>4
    <3>5. r[j] = s[b]
      BY <2>4
    <3> HIDE DEF a, b
    <3>3. a = b
      BY <2>6, <3>1, <3>2, <3>4, <3>5
    <3> QED
      BY <1>1, <2>3, <3>3 DEF a, b
  <2>8. ASSUME NEW p \in 1 .. Len(s), s[p] # e
        PROVE  \E q \in 1 .. Len(r) : r[q] = s[p] /\ Len(r) - q <= Len(s) - p
    <3> DEFINE q == IF p < k THEN p ELSE p - 1
    <3>1. p # k
      BY <2>3, <2>8
    <3>2. q \in 1 .. Len(s) - 1 /\ Len(s) - 1 - q <= Len(s) - p
      BY <1>1, <2>3, <3>1
    <3>3. r[q] = s[p]
      <4>1. r[q] = IF q < k THEN s[q] ELSE s[q + 1]
        BY <2>4, <3>2
      <4> QED
        BY <1>1, <2>3, <3>1, <4>1
    <3> QED
      BY <2>4, <3>2, <3>3
  <2>9. ToSet(r) = ToSet(s) \ {e}
    <3>1. ASSUME NEW x \in ToSet(r) PROVE x \in ToSet(s) \ {e}
      <4>1. PICK i \in 1 .. Len(s) - 1 : x = r[i]
        BY <2>5, <3>1 DEF ToSet
      <4> DEFINE a == IF i < k THEN i ELSE i + 1
      <4>2. a \in 1 .. Len(s) /\ a # k /\ x = s[a]
        BY <1>1, <2>3, <2>4, <4>1, SMTT(30)
      <4>3. s[a] # e
        BY <2>3, <2>6, <4>2
      <4> QED
        BY <1>1, <4>2, <4>3 DEF ToSet
    <3>2. ASSUME NEW x \in ToSet(s) \ {e} PROVE x \in ToSet(r)
      <4>1. PICK p \in 1 .. Len(s) : x = s[p]
        BY <1>1, <3>2 DEF ToSet
      <4>2. PICK q \in 1 .. Len(r) : r[q] = s[p]
        BY <2>8, <3>2, <4>1
      <4> QED
        BY <2>4, <2>5, <4>1, <4>2 DEF ToSet
    <3> QED
      BY <3>1, <3>2
  <2> QED
    BY <2>4, <2>7, <2>8, <2>9 DEF r
<1> QED
  BY <1>2, <1>3

-----------------------------------------------------------------------------
(* The cache *)

\* At most d heights were touched after h.
Near(c, h, d) ==
    \E p \in 1 .. Len(c.order) : c.order[p] = h /\ Len(c.order) - p <= d

LEMMA CachesAre ==
    ASSUME NEW c, NEW D \in SUBSET Nat,
           c.order \in Seq(Nat), IsInjective(c.order), ToSet(c.order) = D,
           c.rows \in [D -> Row], \A h \in D : c.rows[h].height = h,
           c = [order |-> c.order, rows |-> c.rows]
    PROVE  c \in Caches
<1>1. c.rows \in UNION {[E -> Row] : E \in SUBSET Nat} /\ DOMAIN c.rows = D
  OBVIOUS
<1> QED
  BY <1>1 DEF Caches

LEMMA CachesHave ==
    ASSUME NEW c \in Caches
    PROVE  /\ c.order \in Seq(Nat) /\ IsInjective(c.order)
           /\ ToSet(c.order) = DOMAIN c.rows /\ DOMAIN c.rows \in SUBSET Nat
           /\ c.rows \in [DOMAIN c.rows -> Row]
           /\ \A h \in DOMAIN c.rows : c.rows[h].height = h
<1>1. PICK D \in SUBSET Nat : c.rows \in [D -> Row]
  BY DEF Caches
<1>2. D = DOMAIN c.rows
  BY <1>1
<1> QED
  BY <1>1, <1>2 DEF Caches

LEMMA TouchOK ==
    ASSUME NEW c \in Caches, NEW b \in Row
    PROVE  /\ Touch(c, b) \in Caches
           /\ Near(Touch(c, b), b.height, 0)
           /\ \A h, d \in Nat : Near(c, h, d) => Near(Touch(c, b), h, d + 1)
<1> DEFINE t == Touch(c, b)
           e == b.height
           r == RemoveFirst(c.order, e)
           D == DOMAIN c.rows
<1>1. /\ c.order \in Seq(Nat) /\ IsInjective(c.order)
      /\ ToSet(c.order) = D /\ D \in SUBSET Nat /\ c.rows \in [D -> Row]
      /\ \A h \in D : c.rows[h].height = h
  BY CachesHave
<1>2. e \in Nat
  BY DEF Row
<1>3. /\ r \in Seq(Nat) /\ IsInjective(r) /\ ToSet(r) = D \ {e}
      /\ \A p \in 1 .. Len(c.order) : c.order[p] # e =>
            \E q \in 1 .. Len(r) : r[q] = c.order[p] /\ Len(r) - q <= Len(c.order) - p
  <2> HIDE DEF e
  <2>1. c.order \in Seq(Nat) /\ IsInjective(c.order) /\ e \in Nat
    BY <1>1, <1>2
  <2>2. /\ r \in Seq(Nat) /\ IsInjective(r) /\ ToSet(r) = ToSet(c.order) \ {e}
        /\ \A p \in 1 .. Len(c.order) : c.order[p] # e =>
              \E q \in 1 .. Len(r) : r[q] = c.order[p] /\ Len(r) - q <= Len(c.order) - p
    BY <2>1, RemovedFirst
  <2> QED
    BY <1>1, <2>2
<1>4. t = [order |-> Append(r, e),
           rows  |-> [h \in D \cup {e} |-> IF h \in D THEN c.rows[h] ELSE b]]
  BY DEF Touch
<1>5. t.order = Append(r, e) /\ t.rows = [h \in D \cup {e} |-> IF h \in D THEN c.rows[h] ELSE b]
      /\ t = [order |-> t.order, rows |-> t.rows]
  BY <1>4
<1> HIDE DEF t, r, e
<1>6. /\ t.order \in Seq(Nat) /\ Len(t.order) = Len(r) + 1 /\ Len(r) \in Nat
      /\ \A q \in 1 .. Len(r) : t.order[q] = r[q]
      /\ t.order[Len(r) + 1] = e
  BY <1>2, <1>3, <1>5
<1>7. DOMAIN t.order = 1 .. Len(r) + 1 /\ DOMAIN r = 1 .. Len(r)
  BY <1>3, <1>6
<1>8. \A q \in 1 .. Len(r) : r[q] \in ToSet(r)
  BY <1>7 DEF ToSet
<1>9. IsInjective(t.order)
  <2>1. SUFFICES ASSUME NEW i \in 1 .. Len(r) + 1, NEW j \in 1 .. Len(r) + 1,
                        t.order[i] = t.order[j]
                 PROVE  i = j
    BY <1>7 DEF IsInjective
  <2>2. CASE i \in 1 .. Len(r) /\ j \in 1 .. Len(r)
    BY <1>3, <1>6, <1>7, <2>1, <2>2 DEF IsInjective
  <2>3. CASE i = Len(r) + 1 /\ j \in 1 .. Len(r)
    BY <1>3, <1>6, <1>8, <2>1, <2>3
  <2>4. CASE j = Len(r) + 1 /\ i \in 1 .. Len(r)
    BY <1>3, <1>6, <1>8, <2>1, <2>4
  <2> QED
    BY <1>6, <2>2, <2>3, <2>4
<1>10. ToSet(t.order) = D \cup {e}
  <2>1. ASSUME NEW x \in ToSet(t.order) PROVE x \in D \cup {e}
    <3>1. PICK i \in 1 .. Len(r) + 1 : x = t.order[i]
      BY <1>7 DEF ToSet
    <3> QED
      BY <1>3, <1>6, <1>8, <3>1, SMTT(30)
  <2>2. ASSUME NEW x \in ToSet(r) PROVE x \in ToSet(t.order)
    <3>1. PICK i \in 1 .. Len(r) : x = r[i]
      BY <1>7, <2>2 DEF ToSet
    <3>2. i \in 1 .. Len(r) + 1 /\ x = t.order[i]
      BY <1>6, <3>1
    <3> QED
      BY <1>7, <3>2 DEF ToSet
  <2>3. e \in ToSet(t.order)
    <3>1. Len(r) + 1 \in 1 .. Len(r) + 1
      BY <1>6
    <3> QED
      BY <1>6, <1>7, <3>1 DEF ToSet
  <2> QED
    BY <1>3, <2>1, <2>2, <2>3
<1>11. D \cup {e} \in SUBSET Nat /\ t.rows \in [D \cup {e} -> Row]
  BY <1>1, <1>2, <1>5
<1>12. \A h \in D \cup {e} : t.rows[h].height = h
  BY <1>1, <1>5 DEF e
<1>13. t \in Caches
  BY <1>5, <1>6, <1>9, <1>10, <1>11, <1>12, CachesAre
<1>14. Near(t, e, 0)
  BY <1>6 DEF Near
<1>15. ASSUME NEW h \in Nat, NEW d \in Nat, Near(c, h, d)
       PROVE  Near(t, h, d + 1)
  <2>1. PICK p \in 1 .. Len(c.order) : c.order[p] = h /\ Len(c.order) - p <= d
    BY <1>15 DEF Near
  <2>2. CASE h = e
    BY <1>6, <2>2 DEF Near
  <2>3. CASE h # e
    <3>0. p \in 1 .. Len(c.order) /\ c.order[p] # e
      BY <2>1, <2>3
    <3>1. PICK q \in 1 .. Len(r) : r[q] = c.order[p] /\ Len(r) - q <= Len(c.order) - p
      BY <1>3, <3>0, ZenonT(30)
    <3>2. q \in 1 .. Len(t.order) /\ t.order[q] = h
      BY <1>6, <2>1, <3>1, SMTT(30)
    <3>3. Len(c.order) \in Nat
      BY <1>1
    <3>4. Len(t.order) - q <= d + 1
      BY <1>6, <2>1, <3>1, <3>3
    <3> QED
      BY <3>2, <3>4 DEF Near
  <2> QED
    BY <2>2, <2>3
<1> QED
  BY <1>13, <1>14, <1>15 DEF t, e

\* After these rows were touched the height of each is as near to the end of the
\* order as there are rows behind it.
LEMMA TouchedOK ==
    ASSUME NEW c \in Caches, NEW rows \in Seq(Row)
    PROVE  /\ Touched(c, rows) \in Caches
           /\ \A i \in 1 .. Len(rows) : Near(Touched(c, rows), rows[i].height, Len(rows) - i)
<1> DEFINE k == Len(rows)
           Eq(f) == f = [n \in 0 .. k |-> IF n = 0 THEN c ELSE Touch(f[n - 1], rows[n])]
           after == CHOOSE f : Eq(f)
<1>1. k \in Nat /\ \A n \in 1 .. k : rows[n] \in Row /\ rows[n].height \in Nat
  BY HeightsAreNat
<1>2. Touched(c, rows) = after[k]
  BY DEF Touched
<1>3. \E f : Eq(f)
  <2> DEFINE step == [n \in 1 .. k |-> [x \in Caches |-> Touch(x, rows[n])]]
  <2>1. step \in [1 .. k -> [Caches -> Caches]]
    BY <1>1, TouchOK
  <2>2. PICK f \in [0 .. k -> Caches] :
            f[0] = c /\ \A n \in 1 .. k : f[n] = step[n][f[n - 1]]
    <3>1. k \in Nat
      BY <1>1
    <3> HIDE DEF step, k
    <3>2. \E f : Solves(f, k, Caches, c, step)
      BY <2>1, <3>1, Recursion
    <3> QED
      BY <3>2 DEF Solves
  <2>3. ASSUME NEW n \in 1 .. k PROVE f[n] = Touch(f[n - 1], rows[n])
    <3>1. f[n - 1] \in Caches
      BY <1>1, <2>2
    <3>2. step[n][f[n - 1]] = Touch(f[n - 1], rows[n])
      BY <3>1
    <3> QED
      BY <2>2, <3>2
  <2>4. \A n \in 0 .. k : f[n] = IF n = 0 THEN c ELSE Touch(f[n - 1], rows[n])
    BY <1>1, <2>2, <2>3
  <2>5. Eq(f)
    BY <2>2, <2>4
  <2> QED
    BY <2>5
<1>4. Eq(after)
  BY <1>3, Zenon
<1> HIDE DEF after
<1>5. after[0] = c /\ \A n \in 1 .. k : after[n] = Touch(after[n - 1], rows[n])
  BY <1>1, <1>4
<1> DEFINE Good(n) == /\ after[n] \in Caches
                      /\ \A i \in 1 .. n : Near(after[n], rows[i].height, n - i)
           T == {n \in Nat : n <= k => Good(n)}
<1>6. 0 \in T
  BY <1>5
<1>7. ASSUME NEW n \in Nat, n \in T PROVE n + 1 \in T
  <2> SUFFICES ASSUME n + 1 <= k PROVE Good(n + 1)
    OBVIOUS
  <2>1. Good(n) /\ n + 1 \in 1 .. k
    BY <1>1, <1>7
  <2>2. after[n + 1] = Touch(after[n], rows[n + 1]) /\ rows[n + 1] \in Row
    BY <1>1, <1>5, <2>1
  <2>3. /\ after[n + 1] \in Caches
        /\ Near(after[n + 1], rows[n + 1].height, 0)
        /\ \A h, d \in Nat : Near(after[n], h, d) => Near(after[n + 1], h, d + 1)
    BY <2>1, <2>2, TouchOK
  <2>4. ASSUME NEW i \in 1 .. n + 1 PROVE Near(after[n + 1], rows[i].height, (n + 1) - i)
    <3>1. CASE i = n + 1
      BY <2>3, <3>1
    <3>2. CASE i \in 1 .. n
      <4>1. rows[i].height \in Nat /\ n - i \in Nat /\ (n - i) + 1 = (n + 1) - i
        BY <1>1, <2>1, <3>2
      <4> QED
        BY <2>1, <2>3, <3>2, <4>1
    <3> QED
      BY <3>1, <3>2
  <2> QED
    BY <2>3, <2>4
<1> HIDE DEF T
<1>8. k \in T
  BY <1>1, <1>6, <1>7, SetInduction
<1> QED
  BY <1>1, <1>2, <1>8 DEF T

\* Eviction keeps the heights touched last, the rows of just these.
LEMMA EvictOK ==
    ASSUME NEW c \in Caches
    PROVE  /\ Evict(c) \in Caches /\ Len(Evict(c).order) <= MaxCached
           /\ \A h, d \in Nat : Near(c, h, d) /\ d < MaxCached => h \in DOMAIN Evict(c).rows
<1> DEFINE e == Evict(c)
           o == c.order
           over == IF Len(o) > MaxCached THEN Len(o) - MaxCached ELSE 0
           D == DOMAIN c.rows
           gone == ToSet(SubSeq(o, 1, over))
<1>1. /\ o \in Seq(Nat) /\ IsInjective(o) /\ ToSet(o) = D
      /\ D \in SUBSET Nat /\ c.rows \in [D -> Row]
      /\ \A h \in D : c.rows[h].height = h
  BY CachesHave
<1>2. /\ Len(o) \in Nat /\ over \in Nat /\ over <= Len(o) /\ Len(o) - over <= MaxCached
      /\ MaxCached \in Nat /\ MaxCached >= 1
      /\ \A p \in Nat : Len(o) - p < MaxCached /\ p >= 1 => p > over
  <2>1. MaxCached \in Nat /\ MaxCached >= 1
    BY ExplorerAssumption, ChainAssumption
  <2>2. Len(o) \in Nat
    BY <1>1
  <2> HIDE DEF o
  <2> QED
    BY <2>1, <2>2
<1>3. e = [order |-> SubSeq(o, over + 1, Len(o)), rows |-> [h \in D \ gone |-> c.rows[h]]]
  BY DEF Evict, Restrict
<1>4. e.order = SubSeq(o, over + 1, Len(o)) /\ e.rows = [h \in D \ gone |-> c.rows[h]]
      /\ e = [order |-> e.order, rows |-> e.rows]
  <2> DEFINE s == SubSeq(o, over + 1, Len(o))
             m == [h \in D \ gone |-> c.rows[h]]
  <2>1. e = [order |-> s, rows |-> m]
    BY <1>3
  <2> HIDE DEF e, s, m
  <2>2. e.order = s /\ e.rows = m /\ e = [order |-> e.order, rows |-> e.rows]
    BY <2>1
  <2> QED
    BY <2>2 DEF s, m
<1>5. DOMAIN o = 1 .. Len(o) /\ \A i, j \in 1 .. Len(o) : o[i] = o[j] => i = j
  BY <1>1 DEF IsInjective
<1>6. gone = {o[i] : i \in 1 .. over}
  <2>1. DOMAIN SubSeq(o, 1, over) = 1 .. over /\ \A i \in 1 .. over : SubSeq(o, 1, over)[i] = o[i]
    BY <1>1, <1>2
  <2> QED
    BY <2>1 DEF ToSet
<1> HIDE DEF e, over, gone, o
<1>7. /\ e.order \in Seq(Nat) /\ Len(e.order) = Len(o) - over
      /\ \A i \in 1 .. Len(o) - over : e.order[i] = o[over + i]
  <2>1. over \in 0 .. Len(o)
    BY <1>2
  <2> QED
    BY <1>1, <1>4, <2>1, Suffix, SMTT(30)
<1>8. DOMAIN e.order = 1 .. Len(o) - over
  BY <1>7
<1>9. IsInjective(e.order)
  <2>1. SUFFICES ASSUME NEW i \in 1 .. Len(o) - over, NEW j \in 1 .. Len(o) - over,
                        e.order[i] = e.order[j]
                 PROVE  i = j
    BY <1>8 DEF IsInjective
  <2>2. over + i \in 1 .. Len(o) /\ over + j \in 1 .. Len(o)
    BY <1>2
  <2>4. o[over + i] = o[over + j]
    BY <1>7, <2>1
  <2>3. over + i = over + j
    BY <1>5, <2>2, <2>4
  <2> QED
    BY <1>2, <2>3
<1>10. ASSUME NEW p \in 1 .. Len(o), p > over PROVE o[p] \in ToSet(e.order) /\ o[p] \in D \ gone
  <2>1. p - over \in 1 .. Len(o) - over /\ over + (p - over) = p
    BY <1>2, <1>10
  <2>2. e.order[p - over] = o[p]
    BY <1>7, <2>1
  <2>3. o[p] \in ToSet(e.order)
    BY <1>8, <2>1, <2>2 DEF ToSet
  <2>4. o[p] \in D
    BY <1>1, <1>5 DEF ToSet
  <2>5. ASSUME o[p] \in gone PROVE FALSE
    <3>1. PICK i \in 1 .. over : o[p] = o[i]
      BY <1>6, <2>5
    <3>2. i \in 1 .. Len(o) /\ i # p
      BY <1>2, <1>10
    <3> QED
      BY <1>5, <3>1, <3>2
  <2> QED
    BY <2>3, <2>4, <2>5
<1>11. ToSet(e.order) = D \ gone
  <2>1. ASSUME NEW x \in ToSet(e.order) PROVE x \in D \ gone
    <3>1. PICK i \in 1 .. Len(o) - over : x = e.order[i]
      BY <1>8, <2>1 DEF ToSet
    <3>2. over + i \in 1 .. Len(o) /\ over + i > over /\ x = o[over + i]
      BY <1>2, <1>7, <3>1
    <3> QED
      BY <1>10, <3>2
  <2>2. ASSUME NEW x \in D \ gone PROVE x \in ToSet(e.order)
    <3>1. PICK p \in 1 .. Len(o) : x = o[p]
      BY <1>1, <1>5, <2>2 DEF ToSet
    <3>2. p \notin 1 .. over
      BY <1>6, <2>2, <3>1
    <3>3. p > over
      BY <1>2, <3>2
    <3> QED
      BY <1>10, <3>1, <3>3
  <2> QED
    BY <2>1, <2>2
<1>12. D \ gone \in SUBSET Nat /\ e.rows \in [D \ gone -> Row]
       /\ \A h \in D \ gone : e.rows[h].height = h
  BY <1>1, <1>4
<1>13. e \in Caches
  BY <1>4, <1>7, <1>9, <1>11, <1>12, CachesAre
<1>14. ASSUME NEW h \in Nat, NEW d \in Nat, Near(c, h, d), d < MaxCached
       PROVE  h \in DOMAIN e.rows
  <2>1. PICK p \in 1 .. Len(o) : o[p] = h /\ Len(o) - p <= d
    BY <1>14 DEF Near, o
  <2>2. p > over
    BY <1>2, <1>14, <2>1
  <2> QED
    BY <1>10, <1>12, <2>1, <2>2
<1>15. Len(e.order) <= MaxCached
  BY <1>2, <1>7
<1> QED
  BY <1>13, <1>14, <1>15 DEF e

\* What is on hand when it is selected is cached afterwards.
LEMMA CacheBlockOK ==
    ASSUME NEW w \in Seq(Row), NEW c \in Caches, Len(c.order) <= MaxCached, NEW center
    PROVE  LET r == CacheBlockWithContext(w, c, center)
           IN  /\ r \in Caches /\ Len(r.order) <= MaxCached
               /\ Available(w, c, center) => center \in DOMAIN r.rows
<1> DEFINE i == IndexOf(w, center)
           first == IF i > CacheContext THEN i - CacheContext ELSE 1
           last == Min({i + CacheContext, Len(w)})
           rows == SubSeq(w, first, last)
           t == Touched(c, rows)
<1>1. CacheBlockWithContext(w, c, center) = IF i = 0 THEN c ELSE Evict(t)
  BY DEF CacheBlockWithContext
<1>2. CASE i = 0
  <2>1. ~ InWindow(w, center)
    BY <1>2, IndexOfFinds
  <2> QED
    BY <1>1, <1>2, <2>1 DEF Available
<1>3. CASE i # 0
  <2>1. i \in 1 .. Len(w) /\ w[i].height = center
    BY <1>3, IndexOfFinds
  <2>2. center \in Nat /\ Len(w) \in Nat /\ CacheContext \in Nat
        /\ MaxCached \in Nat /\ MaxCached >= 2 * CacheContext + 1
    BY <2>1, HeightsAreNat, ExplorerAssumption, ChainAssumption
  <2>3. last \in {i + CacheContext, Len(w)} /\ last <= i + CacheContext /\ last <= Len(w)
    <3>1. {i + CacheContext, Len(w)} \in SUBSET Nat /\ {i + CacheContext, Len(w)} # {}
      BY <2>1, <2>2
    <3> QED
      BY <3>1, MinIsLeast
  <2> HIDE DEF i, last, t
  <2>4. last \in i .. Len(w) /\ last - i <= CacheContext
    BY <2>1, <2>2, <2>3
  <2>5. first \in 1 .. i
    BY <2>1, <2>2
  <2> HIDE DEF first
  <2>6. rows \in Seq(Row) /\ Len(rows) = last - first + 1 /\ rows[i - first + 1] = w[i]
    BY <2>1, <2>2, <2>4, <2>5
  <2> HIDE DEF rows
  <2>7. t \in Caches /\ \A n \in 1 .. Len(rows) : Near(t, rows[n].height, Len(rows) - n)
    BY <2>6, TouchedOK DEF t
  <2>8. Near(t, center, last - i)
    <3>1. i - first + 1 \in 1 .. Len(rows) /\ Len(rows) - (i - first + 1) = last - i
      BY <2>1, <2>4, <2>5, <2>6
    <3>2. rows[i - first + 1].height = center
      BY <2>1, <2>6
    <3> QED
      BY <2>7, <3>1, <3>2
  <2>9. last - i \in Nat /\ last - i < MaxCached
    BY <2>1, <2>2, <2>4
  <2>10. Evict(t) \in Caches /\ Len(Evict(t).order) <= MaxCached /\ center \in DOMAIN Evict(t).rows
    BY <2>2, <2>7, <2>8, <2>9, EvictOK
  <2> QED
    BY <1>1, <1>3, <2>10 DEF i
<1> QED
  BY <1>2, <1>3

-----------------------------------------------------------------------------
(* The navigation list and the blocks on view *)

LEMMA ShownIsSeq ==
    ASSUME blocks \in Seq(Row)
    PROVE  Shown \in Seq(Nat)
<1> DEFINE k == Len(blocks)
           none == <<>>
           Then(x, n) == IF ~filter \/ PassesFilter(blocks[n])
                         THEN Append(x, blocks[n].height) ELSE x
           Eq(f) == f = [n \in 0 .. k |-> IF n = 0 THEN none ELSE Then(f[n - 1], n)]
           heights == CHOOSE f : Eq(f)
<1>1. Shown = heights[k]
  BY DEF Shown
<1>2. k \in Nat /\ none \in Seq(Nat)
  OBVIOUS
<1>3. ASSUME NEW n \in 1 .. k, NEW x \in Seq(Nat) PROVE Then(x, n) \in Seq(Nat)
  <2>1. blocks[n].height \in Nat
    BY HeightsAreNat
  <2> QED
    BY <2>1
<1> HIDE DEF Then, none, k
<1>4. \E f : Eq(f)
  <2> DEFINE step == [n \in 1 .. k |-> [x \in Seq(Nat) |-> Then(x, n)]]
  <2>1. step \in [1 .. k -> [Seq(Nat) -> Seq(Nat)]]
    BY <1>3
  <2>2. \E f : Solves(f, k, Seq(Nat), none, step)
    <3> HIDE DEF step
    <3> QED
      BY <1>2, <2>1, Recursion
  <2>3. PICK f : Solves(f, k, Seq(Nat), none, step)
    BY <2>2
  <2>4. f \in [0 .. k -> Seq(Nat)] /\ f[0] = none
        /\ \A n \in 1 .. k : f[n] = step[n][f[n - 1]]
    BY <2>3 DEF Solves
  <2>5. ASSUME NEW n \in 1 .. k PROVE f[n] = Then(f[n - 1], n)
    <3>1. f[n - 1] \in Seq(Nat)
      BY <1>2, <2>4
    <3> QED
      BY <2>4, <3>1
  <2>6. \A n \in 0 .. k : f[n] = IF n = 0 THEN none ELSE Then(f[n - 1], n)
    BY <1>2, <2>4, <2>5
  <2> QED
    BY <2>4, <2>6
<1>5. Eq(heights)
  BY <1>4, Zenon
<1> HIDE DEF heights
<1>6. heights[0] = none /\ \A n \in 1 .. k : heights[n] = Then(heights[n - 1], n)
  BY <1>2, <1>5
<1> DEFINE T == {n \in Nat : n <= k => heights[n] \in Seq(Nat)}
<1>7. 0 \in T
  BY <1>2, <1>6
<1>8. ASSUME NEW n \in Nat, n \in T PROVE n + 1 \in T
  <2> SUFFICES ASSUME n + 1 <= k PROVE heights[n + 1] \in Seq(Nat)
    OBVIOUS
  <2>1. n + 1 \in 1 .. k /\ heights[n] \in Seq(Nat)
    BY <1>2, <1>8
  <2>2. heights[n + 1] = Then(heights[n], n + 1)
    BY <1>6, <2>1
  <2> QED
    BY <1>3, <2>1, <2>2
<1> HIDE DEF T
<1>9. k \in T
  BY <1>2, <1>7, <1>8, SetInduction
<1> QED
  BY <1>1, <1>2, <1>9 DEF T

LEMMA NavigationIsSeq ==
    ASSUME blocks \in Seq(Row), sel \in Nat \cup {None}
    PROVE  NavigationList \in Seq(Nat)
<1> DEFINE heights == Shown
           I == {i \in 1 .. Len(heights) : heights[i] < sel}
           after == IF I # {} THEN Min(I) ELSE 0
           at == IF after = 0 THEN Len(heights) + 1 ELSE after
<1>1. heights \in Seq(Nat) /\ Len(heights) \in Nat
  BY ShownIsSeq
<1>2. NavigationList = IF sel = None \/ InWindow(blocks, sel) \/ sel \notin DOMAIN cache.rows
                       THEN heights ELSE InsertAt(heights, at, sel)
  BY DEF NavigationList, SelectInSeq
<1>3. at \in 1 .. Len(heights) + 1
  <2>1. I \in SUBSET Nat
    OBVIOUS
  <2>2. I # {} => Min(I) \in I
    BY <2>1, MinIsLeast
  <2> QED
    BY <1>1, <2>2
<1> HIDE DEF heights, at
<1>4. sel # None => InsertAt(heights, at, sel) \in Seq(Nat)
  BY <1>1, <1>3, InsertedRows
<1> QED
  BY <1>1, <1>2, <1>4

LEMMA BlockFound ==
    ASSUME blocks \in Seq(Row), cache \in Caches, NEW h, IsBlockAvailable(h)
    PROVE  BlockByHeight(h) \in Row /\ BlockByHeight(h).height = h
<1>1. CASE InWindow(blocks, h)
  <2> DEFINE i == IndexOf(blocks, h)
  <2>1. i \in 1 .. Len(blocks) /\ blocks[i].height = h
    BY <1>1, IndexOfFinds
  <2> HIDE DEF i
  <2>2. blocks[i] \in Row
    BY <2>1, HeightsAreNat
  <2> QED
    BY <1>1, <2>1, <2>2 DEF BlockByHeight, i
<1>2. CASE ~ InWindow(blocks, h)
  <2>1. h \in DOMAIN cache.rows
    BY <1>2 DEF IsBlockAvailable, Available
  <2>2. cache.rows[h] \in Row /\ cache.rows[h].height = h
    BY <2>1, CachesHave
  <2> QED
    BY <1>2, <2>2 DEF BlockByHeight
<1> QED
  BY <1>1, <1>2

LEMMA OnViewIsRow ==
    ASSUME blocks \in Seq(Row), cache \in Caches, NEW b \in CurrentBlocks
    PROVE  b \in Row /\ b.height \in Nat /\ (blocks # <<>> \/ DOMAIN cache.rows # {})
<1>1. CASE sel # None
  <2>1. IsBlockAvailable(sel) /\ b = BlockByHeight(sel)
    BY <1>1 DEF CurrentBlocks
  <2>2. b \in Row
    BY <2>1, BlockFound
  <2>3. blocks # <<>> \/ DOMAIN cache.rows # {}
    BY <2>1 DEF IsBlockAvailable, Available, InWindow
  <2> QED
    BY <2>2, <2>3 DEF Row
<1>2. CASE sel = None
  <2> DEFINE I == {j \in 1 .. Len(blocks) : ~filter \/ PassesFilter(blocks[j])}
             i == IF I # {} THEN Min(I) ELSE 0
  <2>1. b \in {blocks[j] : j \in {i} \ {0}}
    BY <1>2 DEF CurrentBlocks, SelectInSeq
  <2>2. I \in SUBSET Nat
    OBVIOUS
  <2>3. I # {} /\ b = blocks[Min(I)]
    BY <2>1
  <2>4. Min(I) \in 1 .. Len(blocks)
    BY <2>2, <2>3, MinIsLeast
  <2>5. b \in Row /\ b.height \in Nat /\ blocks # <<>>
    BY <2>3, <2>4, HeightsAreNat
  <2> QED
    BY <2>5
<1> QED
  BY <1>1, <1>2

LEMMA MaxLower ==
    ASSUME NEW h \in Nat, Lower(h) # {}
    PROVE  Max(Lower(h)) \in Chain /\ Max(Lower(h)) \in Nat
<1> DEFINE L == Lower(h)
           T == {n \in Nat : \A x \in L : x <= n}
<1>1. L \in SUBSET Nat /\ L \subseteq Chain /\ \A x \in L : x < h
  BY ExplorerAssumption, ChainAssumption DEF Lower
<1>2. T \in SUBSET Nat /\ h \in T
  BY <1>1
<1>3. PICK n \in T : \A m \in T : n <= m
  BY <1>2, LeastExists
<1>4. n \in L
  <2> SUFFICES ASSUME n \notin L PROVE FALSE
    OBVIOUS
  <2>1. \A x \in L : x < n
    BY <1>1, <1>3
  <2>2. PICK x \in L : TRUE
    OBVIOUS
  <2>3. n - 1 \in Nat /\ \A y \in L : y <= n - 1
    BY <1>1, <1>3, <2>1, <2>2
  <2> QED
    BY <1>3, <2>3
<1>5. \E x \in L : \A y \in L : x >= y
  BY <1>1, <1>3, <1>4
<1> HIDE DEF L
<1>6. Max(L) \in L
  BY <1>5, Zenon DEF Max
<1> QED
  BY <1>1, <1>6 DEF L

-----------------------------------------------------------------------------
(* The inductive invariant *)

CacheOK == cache \in Caches /\ Len(cache.order) <= MaxCached

\* A block that was there when it was selected is in the cache, not only in the
\* window, from which it may be pushed out.
HeldIsCached == held => sel # None /\ sel \in DOMAIN cache.rows

Main ==
    /\ WindowOK(blocks)
    /\ CacheOK
    /\ sel \in Nat \cup {None}
    /\ FollowsOrLocked
    /\ HeldIsCached

\* A deep link is applied before anything is on hand.
NothingYet ==
    inputs = 0 /\ fed = {} => blocks = <<>> /\ requests = <<>> /\ DOMAIN cache.rows = {}

IInv ==
    /\ Main
    /\ inputs \in Nat
    /\ NothingYet
    /\ backSlots \in Seq(Nat)
    /\ BackChainUnbroken

LEMMA EmptyCache ==
    [order |-> <<>>, rows |-> <<>>] \in Caches
<1> DEFINE c == [order |-> <<>>, rows |-> <<>>]
<1>1. c.order = <<>> /\ c.rows = <<>>
  OBVIOUS
<1>2. c.order \in Seq(Nat) /\ IsInjective(c.order) /\ ToSet(c.order) = {}
  BY <1>1 DEF IsInjective, ToSet
<1>3. c.rows \in [{} -> Row] /\ {} \in SUBSET Nat
  <2>1. <<>> \in Seq(Row) /\ Len(<<>>) = 0
    OBVIOUS
  <2>2. <<>> \in [1 .. 0 -> Row]
    BY <2>1
  <2> QED
    BY <1>1, <2>2
<1>4. c = [order |-> c.order, rows |-> c.rows]
  BY <1>1
<1> HIDE DEF c
<1>5. c \in Caches
  BY <1>2, <1>3, <1>4, CachesAre
<1> QED
  BY <1>5 DEF c

LEMMA InitInv == Init => IInv
<1> SUFFICES ASSUME Init PROVE IInv
  OBVIOUS
<1>1. /\ blocks = <<>> /\ cache = [order |-> <<>>, rows |-> <<>>]
      /\ sel = None /\ follow = TRUE /\ held = FALSE
      /\ requests = <<>> /\ backSlots = <<>> /\ fed = {} /\ inputs = 0
  BY DEF Init
<1>2. WindowOK(blocks)
  <2>1. <<>> \in Seq(Row) /\ Len(<<>>) = 0 /\ DOMAIN <<>> = {}
    OBVIOUS
  <2>2. 0 <= KeepBlocks
    BY ExplorerAssumption, ChainAssumption
  <2> QED
    BY <1>1, <2>1, <2>2 DEF WindowOK, Ordered
<1>3. CacheOK /\ DOMAIN cache.rows = {}
  <2>1. cache \in Caches /\ cache.order = <<>> /\ cache.rows = <<>>
    BY <1>1, EmptyCache
  <2>2. Len(<<>>) = 0 /\ DOMAIN <<>> = {} /\ 0 <= MaxCached
    BY ExplorerAssumption, ChainAssumption
  <2> QED
    BY <2>1, <2>2 DEF CacheOK
<1>4. FollowsOrLocked /\ HeldIsCached
  BY <1>1 DEF FollowsOrLocked, HeldIsCached
<1>5. backSlots \in Seq(Nat) /\ BackChainUnbroken
  <2>1. 0 <= BackTarget /\ Len(<<>>) = 0 /\ DOMAIN <<>> = {}
    BY ExplorerAssumption, ChainAssumption
  <2> QED
    BY <1>1, <2>1 DEF BackChainUnbroken
<1> QED
  BY <1>1, <1>2, <1>3, <1>4, <1>5 DEF IInv, Main, NothingYet

-----------------------------------------------------------------------------
(* Selecting a block *)

LEMMA LockKeeps ==
    ASSUME Main, NEW w, WindowOK(w), blocks' = w,
           NEW h \in Nat, Lock(w, h),
           NEW c \in Caches, Len(c.order) <= MaxCached,
           Available(w, cache, h) => Available(w, c, h),
           cache' = CacheBlockWithContext(w, c, h)
    PROVE  Main'
<1>1. w \in Seq(Row)
  BY DEF WindowOK
<1>2. cache' \in Caches /\ Len(cache'.order) <= MaxCached
      /\ (Available(w, c, h) => h \in DOMAIN cache'.rows)
  BY <1>1, CacheBlockOK
<1>3. sel' = h /\ follow' = FALSE /\ held' = Available(w, cache, h) /\ h # None
  BY ExplorerAssumption, ChainAssumption DEF Lock
<1>4. WindowOK(blocks)'
  <2>1. WindowOK(blocks')
    OBVIOUS
  <2> QED
    BY <2>1 DEF WindowOK, Ordered
<1>5. CacheOK'
  BY <1>2 DEF CacheOK
<1>6. FollowsOrLocked'
  BY <1>3 DEF FollowsOrLocked
<1>7. HeldIsCached'
  BY <1>2, <1>3 DEF HeldIsCached
<1> QED
  BY <1>3, <1>4, <1>5, <1>6, <1>7 DEF Main

LEMMA EnsureCaches ==
    ASSUME NEW w, NEW c, NEW h, NEW ld, NEW queue,
           EnsureBlockWindowByChain(w, c, h, ld, queue)
    PROVE  cache' = CacheBlockWithContext(w, c, h)
BY DEF EnsureBlockWindowByChain, EnsureBlockWindow

LEMMA UnlockKeeps ==
    ASSUME Main, WindowOK(blocks'), Unlock, UNCHANGED cache
    PROVE  Main'
<1>1. sel' = None /\ follow' = TRUE /\ held' = FALSE
  BY DEF Unlock
<1>2. WindowOK(blocks)' /\ CacheOK'
  BY DEF WindowOK, Ordered, CacheOK, Main
<1>3. FollowsOrLocked' /\ HeldIsCached'
  BY <1>1 DEF FollowsOrLocked, HeldIsCached
<1> QED
  BY <1>1, <1>2, <1>3 DEF Main

LEMMA FocusKept ==
    ASSUME Main, WindowOK(blocks'), UNCHANGED <<cache, focus>>
    PROVE  Main'
<1>1. sel' = sel /\ follow' = follow /\ held' = held /\ cache' = cache
  BY DEF focus
<1>2. WindowOK(blocks)' /\ CacheOK'
  BY <1>1 DEF WindowOK, Ordered, CacheOK, Main
<1>3. FollowsOrLocked' /\ HeldIsCached'
  BY <1>1 DEF FollowsOrLocked, HeldIsCached, Main
<1> QED
  BY <1>1, <1>2, <1>3 DEF Main

-----------------------------------------------------------------------------
(* A block arrives *)

LEMMA PushBlockKeeps ==
    ASSUME Main, NEW b \in Row, NEW ld, NEW queue, PushBlock(b, ld, queue)
    PROVE  Main' /\ (held => sel' = sel /\ cache' = cache)
<1> DEFINE w == Inserted(blocks, b)
<1>1. WindowOK(w) /\ b.height \in Nat
  BY InsertedOK DEF Main, Row
<1>2. /\ blocks' = w
      /\ \/ AutoLock(w, b, ld, queue)
         \/ (KeepFocus(w) \/ FallBack(w)) /\ UNCHANGED cache
  BY DEF PushBlock
<1> HIDE DEF w
<1>3. CASE AutoLock(w, b, ld, queue)
  <2>1. follow /\ sel = None /\ Lock(w, b.height)
        /\ EnsureBlockWindowByChain(w, cache, b.height, ld, queue)
    BY <1>3 DEF AutoLock
  <2>2. cache' = CacheBlockWithContext(w, cache, b.height)
    BY <2>1, EnsureCaches
  <2>3. cache \in Caches /\ Len(cache.order) <= MaxCached
    BY DEF Main, CacheOK
  <2>4. Main'
    BY <1>1, <1>2, <2>1, <2>2, <2>3, LockKeeps
  <2> QED
    BY <2>1, <2>4 DEF Main, HeldIsCached
<1>4. CASE KeepFocus(w) /\ UNCHANGED cache
  <2>1. UNCHANGED <<cache, focus>>
    BY <1>4 DEF KeepFocus
  <2>2. WindowOK(blocks')
    BY <1>1, <1>2
  <2> QED
    BY <2>1, <2>2, FocusKept DEF focus
<1>5. CASE FallBack(w) /\ UNCHANGED cache
  <2>1. Unlock /\ sel # None /\ ~ Available(w, cache, sel)
    BY <1>5 DEF FallBack
  <2>2. WindowOK(blocks')
    BY <1>1, <1>2
  <2>3. ~ held
    BY <2>1 DEF Main, HeldIsCached, Available
  <2> QED
    BY <1>5, <2>1, <2>2, <2>3, UnlockKeeps
<1> QED
  BY <1>2, <1>3, <1>4, <1>5

LEMMA OnNewBlockKeeps ==
    ASSUME Main, NEW b \in Row, NEW queue, OnNewBlock(b, queue)
    PROVE  Main' /\ (held => sel' = sel /\ cache' = cache)
<1> DEFINE ld == IF loading = b.height THEN None ELSE loading
<1>1. DropBlock(ld, queue) \/ PushBlock(b, ld, queue)
  BY DEF OnNewBlock
<1>2. CASE DropBlock(ld, queue)
  <2>1. UNCHANGED <<blocks, cache, focus>> /\ WindowOK(blocks')
    BY <1>2 DEF DropBlock, list, Main
  <2> QED
    BY <2>1, FocusKept DEF focus
<1>3. CASE PushBlock(b, ld, queue)
  BY <1>3, PushBlockKeeps
<1> QED
  BY <1>1, <1>2, <1>3

LEMMA RowOfChain ==
    ASSUME NEW h \in Chain, NEW full \in BOOLEAN
    PROVE  BlockRow(h, full) \in Row
BY ExplorerAssumption, ChainAssumption DEF BlockRow, Row

-----------------------------------------------------------------------------
(* The live feed and the archive *)

\* What depends on the backwards list alone.
BackOK == backSlots \in Seq(Nat) /\ BackChainUnbroken

LEMMA BackKept ==
    ASSUME BackOK, UNCHANGED back
    PROVE  BackOK'
BY DEF BackOK, back, BackChainUnbroken

LEMMA LiveBlockKeeps ==
    ASSUME IInv, NEW h \in Chain, LiveBlock(h)
    PROVE  IInv' /\ (held => sel' = sel /\ cache' = cache)
<1>1. Main /\ BackOK /\ inputs \in Nat
  BY DEF IInv, BackOK
<1>2. /\ fed' = fed \cup {h} /\ inputs' = inputs /\ UNCHANGED back
      /\ OnNewBlock(BlockRow(h, TRUE), requests)
  BY DEF LiveBlock
<1>3. BlockRow(h, TRUE) \in Row
  BY RowOfChain
<1>4. Main' /\ (held => sel' = sel /\ cache' = cache)
  BY <1>1, <1>2, <1>3, OnNewBlockKeeps
<1>5. NothingYet'
  BY <1>2 DEF NothingYet
<1>6. BackOK'
  BY <1>1, <1>2, BackKept
<1> QED
  BY <1>1, <1>2, <1>4, <1>5, <1>6 DEF IInv, BackOK

LEMMA LiveStubKeeps ==
    ASSUME IInv, NEW h \in Chain, LiveStub(h)
    PROVE  IInv' /\ (held => sel' = sel /\ cache' = cache)
<1>1. Main /\ BackOK /\ inputs \in Nat
  BY DEF IInv, BackOK
<1>2. /\ fed' = fed \cup {h} /\ inputs' = inputs /\ UNCHANGED back
      /\ PushBlock(BlockRow(h, FALSE), loading, requests)
  BY DEF LiveStub
<1>3. BlockRow(h, FALSE) \in Row
  BY RowOfChain
<1>4. Main' /\ (held => sel' = sel /\ cache' = cache)
  BY <1>1, <1>2, <1>3, PushBlockKeeps
<1>5. NothingYet'
  BY <1>2 DEF NothingYet
<1>6. BackOK'
  BY <1>1, <1>2, BackKept
<1> QED
  BY <1>1, <1>2, <1>4, <1>5, <1>6 DEF IInv, BackOK

LEMMA ArchiveAnswersKeeps ==
    ASSUME IInv, NEW i, ArchiveAnswers(i)
    PROVE  IInv' /\ (held => sel' = sel /\ cache' = cache)
<1>1. Main /\ BackOK /\ inputs \in Nat /\ NothingYet
  BY DEF IInv, BackOK
<1>2. /\ fed' = fed /\ inputs' = inputs /\ UNCHANGED back
      /\ i \in DOMAIN requests /\ requests[i] \in Chain
      /\ OnNewBlock(BlockRow(requests[i], TRUE), RemoveAt(requests, i))
  BY DEF ArchiveAnswers, Answered
<1>3. BlockRow(requests[i], TRUE) \in Row
  BY <1>2, RowOfChain
<1>4. Main' /\ (held => sel' = sel /\ cache' = cache)
  BY <1>1, <1>2, <1>3, OnNewBlockKeeps
<1>5. NothingYet'
  BY <1>1, <1>2 DEF NothingYet
<1>6. BackOK'
  BY <1>1, <1>2, BackKept
<1> QED
  BY <1>1, <1>2, <1>4, <1>5, <1>6 DEF IInv, BackOK

LEMMA ArchiveFailsKeeps ==
    ASSUME IInv, NEW i, ArchiveFails(i)
    PROVE  IInv' /\ (held => sel' = sel /\ cache' = cache)
<1>1. Main /\ BackOK /\ inputs \in Nat /\ NothingYet
  BY DEF IInv, BackOK
<1>2. /\ fed' = fed /\ inputs' = inputs /\ UNCHANGED back
      /\ i \in DOMAIN requests /\ UNCHANGED <<list, focus>>
  BY DEF ArchiveFails, Answered
<1>3. WindowOK(blocks') /\ UNCHANGED <<cache, focus>>
  BY <1>1, <1>2 DEF Main, list
<1>4. Main' /\ (held => sel' = sel /\ cache' = cache)
  BY <1>1, <1>3, FocusKept DEF focus
<1>5. NothingYet'
  BY <1>1, <1>2 DEF NothingYet
<1>6. BackOK'
  BY <1>1, <1>2, BackKept
<1> QED
  BY <1>1, <1>2, <1>4, <1>5, <1>6 DEF IInv, BackOK

-----------------------------------------------------------------------------
(* The tick *)

Unbroken(anchor, slots) ==
    \A i \in DOMAIN slots :
        LET child == IF i = 1 THEN anchor ELSE slots[i - 1]
        IN  Lower(child) # {} /\ slots[i] = Max(Lower(child))

LEMMA AnchoredOK ==
    ASSUME BackOK, NEW cur \in Row
    PROVE  /\ Anchored(cur) \in Seq(Nat) /\ Len(Anchored(cur)) <= BackTarget
           /\ Unbroken(cur.height, Anchored(cur))
<1>0. BackTarget \in Nat /\ BackTarget >= 1
  BY ExplorerAssumption, ChainAssumption
<1>1. CASE backAnchor = cur.height
  <2>1. Anchored(cur) = backSlots
    BY <1>1 DEF Anchored
  <2> QED
    BY <1>1, <2>1 DEF BackOK, BackChainUnbroken, Unbroken
<1>2. CASE backAnchor # cur.height /\ HasPrev(cur)
  <2> DEFINE x == Max(Lower(cur.height))
  <2>1. Anchored(cur) = <<x>> /\ Lower(cur.height) # {}
    BY <1>2 DEF Anchored, PrevHeight, HasPrev
  <2>2. x \in Nat
    BY <2>1, MaxLower DEF Row
  <2>3. DOMAIN <<x>> = {1} /\ <<x>>[1] = x /\ Len(<<x>>) = 1
    OBVIOUS
  <2>4. Unbroken(cur.height, Anchored(cur))
    BY <2>1, <2>3 DEF Unbroken
  <2>5. <<x>> \in Seq(Nat)
    BY <2>2
  <2> HIDE DEF x
  <2> QED
    BY <1>0, <2>1, <2>3, <2>4, <2>5
<1>3. CASE backAnchor # cur.height /\ ~ HasPrev(cur)
  <2>1. Anchored(cur) = <<>>
    BY <1>3 DEF Anchored
  <2>2. <<>> \in Seq(Nat) /\ Len(<<>>) = 0 /\ DOMAIN <<>> = {}
    OBVIOUS
  <2> QED
    BY <1>0, <2>1, <2>2 DEF Unbroken
<1> QED
  BY <1>1, <1>2, <1>3

LEMMA ExtendedOK ==
    ASSUME blocks \in Seq(Row), cache \in Caches, NEW cur \in Row,
           NEW slots \in Seq(Nat), Len(slots) < BackTarget, Unbroken(cur.height, slots),
           \A i \in 1 .. Len(slots) : IsBlockAvailable(slots[i])
    PROVE  /\ Extended(cur, slots) \in Seq(Nat) /\ Len(Extended(cur, slots)) <= BackTarget
           /\ Unbroken(cur.height, Extended(cur, slots))
<1> DEFINE deepest == IF slots = <<>> THEN cur ELSE BlockByHeight(Last(slots))
           child == IF Len(slots) = 0 THEN cur.height ELSE slots[Len(slots)]
           x == Max(Lower(child))
<1>0. BackTarget \in Nat /\ Len(slots) \in Nat /\ DOMAIN slots = 1 .. Len(slots)
  BY ExplorerAssumption, ChainAssumption
<1>1. deepest.height = child /\ child \in Nat
  <2>1. CASE Len(slots) = 0
    BY <2>1 DEF Row
  <2>2. CASE Len(slots) # 0
    <3>1. Len(slots) \in 1 .. Len(slots) /\ slots # <<>>
      BY <1>0, <2>2
    <3>2. IsBlockAvailable(slots[Len(slots)]) /\ slots[Len(slots)] \in Nat
      BY <3>1
    <3>3. deepest = BlockByHeight(slots[Len(slots)])
      BY <3>1 DEF Last
    <3> QED
      BY <2>2, <3>2, <3>3, BlockFound
  <2> QED
    BY <2>1, <2>2
<1>2. \/ Extended(cur, slots) = slots
      \/ /\ Extended(cur, slots) = Append(slots, x)
         /\ Lower(child) # {}
  <2>1. Extended(cur, slots) = IF HasPrev(deepest) /\ ~Contains(slots, PrevHeight(deepest))
                               THEN Append(slots, PrevHeight(deepest)) ELSE slots
    BY DEF Extended
  <2> HIDE DEF deepest
  <2> QED
    BY <1>1, <2>1 DEF HasPrev, PrevHeight
<1>3. CASE Extended(cur, slots) = slots
  BY <1>0, <1>3
<1>4. CASE Extended(cur, slots) = Append(slots, x) /\ Lower(child) # {}
  <2>1. x \in Nat
    BY <1>1, <1>4, MaxLower
  <2> HIDE DEF x
  <2> DEFINE e == Append(slots, x)
  <2>2. /\ e \in Seq(Nat) /\ Len(e) = Len(slots) + 1 /\ DOMAIN e = 1 .. Len(slots) + 1
        /\ e[Len(slots) + 1] = x /\ \A i \in 1 .. Len(slots) : e[i] = slots[i]
    BY <1>0, <2>1
  <2> HIDE DEF e
  <2>3. ASSUME NEW i \in 1 .. Len(slots) + 1
        PROVE  LET ch == IF i = 1 THEN cur.height ELSE e[i - 1]
               IN  Lower(ch) # {} /\ e[i] = Max(Lower(ch))
    <3>1. CASE i = Len(slots) + 1
      <4>1. (IF i = 1 THEN cur.height ELSE e[i - 1]) = child
        BY <1>0, <2>2, <3>1
      <4> QED
        BY <1>4, <2>2, <3>1, <4>1 DEF x
    <3>2. CASE i \in 1 .. Len(slots)
      <4>0. i # 1 => i - 1 \in 1 .. Len(slots)
        BY <1>0, <3>2
      <4>1. e[i] = slots[i] /\ (i # 1 => e[i - 1] = slots[i - 1])
        BY <2>2, <3>2, <4>0
      <4> QED
        BY <1>0, <3>2, <4>1 DEF Unbroken
    <3> QED
      BY <1>0, <3>1, <3>2
  <2>4. Unbroken(cur.height, e)
    BY <2>2, <2>3 DEF Unbroken
  <2> QED
    BY <1>0, <1>4, <2>2, <2>4 DEF e
<1> QED
  BY <1>2, <1>3, <1>4

LEMMA BackFollows ==
    ASSUME NEW cur \in Row, NEW slots \in Seq(Nat), Len(slots) <= BackTarget,
           Unbroken(cur.height, slots), backAnchor' = cur.height, backSlots' = slots
    PROVE  BackOK'
<1>1. cur.height # None
  BY ExplorerAssumption, ChainAssumption DEF Row
<1> QED
  BY <1>1 DEF BackOK, BackChainUnbroken, Unbroken

LEMMA StepKeepsBack ==
    ASSUME blocks \in Seq(Row), cache \in Caches, BackOK,
           NEW cur \in Row, NEW throttled \in BOOLEAN, StepBackchain(cur, throttled)
    PROVE  BackOK'
<1> DEFINE slots == Anchored(cur)
           I == {i \in 1 .. Len(slots) : ~IsBlockAvailable(slots[i])}
           absent == IF I # {} THEN Min(I) ELSE 0
           done == throttled \/ Len(slots) >= BackTarget
<1>1. /\ slots \in Seq(Nat) /\ Len(slots) <= BackTarget /\ Unbroken(cur.height, slots)
      /\ BackTarget \in Nat
  BY AnchoredOK, ExplorerAssumption, ChainAssumption
<1>2. /\ backAnchor' = cur.height
      /\ \/ backSlots' = slots
         \/ ~done /\ absent = 0 /\ backSlots' = Extended(cur, slots)
  BY DEF StepBackchain, SelectInSeq
<1> HIDE DEF slots
<1>3. CASE backSlots' = slots
  BY <1>1, <1>2, <1>3, BackFollows
<1>4. CASE ~done /\ absent = 0 /\ backSlots' = Extended(cur, slots)
  <2>1. I \in SUBSET Nat
    OBVIOUS
  <2>2. I = {}
    <3> SUFFICES ASSUME I # {} PROVE FALSE
      OBVIOUS
    <3>1. Min(I) \in I
      BY <2>1, MinIsLeast
    <3>2. Min(I) # 0
      BY <3>1
    <3> QED
      BY <1>4, <3>2
  <2>3. \A i \in 1 .. Len(slots) : IsBlockAvailable(slots[i])
    BY <2>2
  <2>4. Len(slots) < BackTarget
    BY <1>1, <1>4
  <2>5. /\ Extended(cur, slots) \in Seq(Nat) /\ Len(Extended(cur, slots)) <= BackTarget
        /\ Unbroken(cur.height, Extended(cur, slots))
    BY <1>1, <2>3, <2>4, ExtendedOK
  <2> QED
    BY <1>2, <1>4, <2>5, BackFollows
<1> QED
  BY <1>2, <1>3, <1>4

LEMMA TickKeeps ==
    ASSUME IInv, Tick
    PROVE  IInv' /\ (held => sel' = sel /\ cache' = cache)
<1>1. Main /\ BackOK /\ inputs \in Nat /\ NothingYet /\ blocks \in Seq(Row) /\ cache \in Caches
  BY DEF IInv, BackOK, Main, WindowOK, CacheOK
<1>2. /\ fed' = fed /\ inputs' = inputs /\ UNCHANGED <<list, focus>>
      /\ \/ ClearBack /\ UNCHANGED archive
         \/ \E cur \in CurrentBlocks, throttled \in BOOLEAN : StepBackchain(cur, throttled)
  BY DEF Tick
<1>3. Main' /\ (held => sel' = sel /\ cache' = cache)
  <2>1. WindowOK(blocks') /\ UNCHANGED <<cache, focus>>
    BY <1>1, <1>2 DEF Main, list
  <2> QED
    BY <1>1, <2>1, FocusKept DEF focus
<1>4. BackOK' /\ NothingYet'
  <2>1. CASE ClearBack /\ UNCHANGED archive
    <3>1. backSlots' = <<>> /\ requests' = requests /\ blocks' = blocks /\ cache' = cache
      BY <1>2, <2>1 DEF ClearBack, archive, list
    <3>2. BackOK'
      <4>1. 0 <= BackTarget /\ Len(<<>>) = 0 /\ DOMAIN <<>> = {} /\ <<>> \in Seq(Nat)
        BY ExplorerAssumption, ChainAssumption
      <4> QED
        BY <3>1, <4>1 DEF BackOK, BackChainUnbroken
    <3> QED
      BY <1>1, <1>2, <3>1, <3>2 DEF NothingYet
  <2>2. CASE \E cur \in CurrentBlocks, throttled \in BOOLEAN : StepBackchain(cur, throttled)
    <3>1. PICK cur \in CurrentBlocks, throttled \in BOOLEAN : StepBackchain(cur, throttled)
      BY <2>2
    <3>2. cur \in Row /\ (blocks # <<>> \/ DOMAIN cache.rows # {})
      BY <1>1, OnViewIsRow
    <3>3. BackOK'
      BY <1>1, <3>1, <3>2, StepKeepsBack
    <3> QED
      BY <1>1, <1>2, <3>2, <3>3 DEF NothingYet
  <2> QED
    BY <1>2, <2>1, <2>2
<1> QED
  BY <1>1, <1>2, <1>3, <1>4 DEF IInv, BackOK

-----------------------------------------------------------------------------
(* The user *)

\* What every input of the user leaves behind besides the blocks on view.
LEMMA AfterInput ==
    ASSUME IInv, Main', BackOK', inputs' = inputs + 1
    PROVE  IInv' /\ inputs' # inputs
<1>1. inputs \in Nat
  BY DEF IInv
<1>2. inputs' \in Nat /\ inputs' # 0 /\ inputs' # inputs
  BY <1>1
<1>3. NothingYet'
  BY <1>2 DEF NothingYet
<1> QED
  BY <1>2, <1>3 DEF IInv, BackOK

LEMMA ViewKeeps ==
    ASSUME IInv, NEW h \in Nat, View(h)
    PROVE  Main' /\ BackOK'
<1>1. Main /\ BackOK /\ cache \in Caches /\ Len(cache.order) <= MaxCached /\ WindowOK(blocks)
  BY DEF IInv, BackOK, Main, CacheOK
<1>2. /\ Lock(blocks, h) /\ cache' = CacheBlockWithContext(blocks, cache, h)
      /\ blocks' = blocks /\ UNCHANGED back
  BY DEF View
<1>3. Main'
  BY <1>1, <1>2, LockKeeps
<1> QED
  BY <1>1, <1>2, <1>3, BackKept

LEMMA VisitKeeps ==
    ASSUME IInv, NEW h \in Nat, NEW c \in Caches, Len(c.order) <= MaxCached,
           Available(blocks, cache, h) => Available(blocks, c, h), Visit(c, h)
    PROVE  Main' /\ BackOK'
<1>1. Main /\ BackOK /\ WindowOK(blocks)
  BY DEF IInv, BackOK, Main
<1>2. /\ Lock(blocks, h) /\ blocks' = blocks /\ UNCHANGED back
      /\ EnsureBlockWindowByChain(blocks, c, h, loading, requests)
  BY DEF Visit
<1>3. cache' = CacheBlockWithContext(blocks, c, h)
  BY <1>2, EnsureCaches
<1>4. Main'
  BY <1>1, <1>2, <1>3, LockKeeps
<1> QED
  BY <1>1, <1>2, <1>4, BackKept

LEMMA ViewAndVisitKeeps ==
    ASSUME IInv, NEW h \in Nat, ViewAndVisit(h)
    PROVE  Main' /\ BackOK'
<1> DEFINE c == CacheBlockWithContext(blocks, cache, h)
<1>1. cache \in Caches /\ Len(cache.order) <= MaxCached /\ blocks \in Seq(Row)
  BY DEF IInv, Main, CacheOK, WindowOK
<1>2. c \in Caches /\ Len(c.order) <= MaxCached
      /\ (Available(blocks, cache, h) => h \in DOMAIN c.rows)
  BY <1>1, CacheBlockOK
<1>3. Visit(c, h)
  BY DEF ViewAndVisit
<1> HIDE DEF c
<1>4. Available(blocks, cache, h) => Available(blocks, c, h)
  BY <1>2 DEF Available
<1> QED
  BY <1>2, <1>3, <1>4, VisitKeeps

LEMMA VisitCached ==
    ASSUME IInv, NEW h \in Nat, Visit(cache, h)
    PROVE  Main' /\ BackOK'
BY VisitKeeps DEF IInv, Main, CacheOK

LEMMA FirstOf ==
    ASSUME NEW n \in Nat, NEW I \in SUBSET (1 .. n)
    PROVE  (IF I # {} THEN Min(I) ELSE 0) \in 0 .. n
<1>1. I \in SUBSET Nat
  OBVIOUS
<1>2. I # {} => Min(I) \in 1 .. n
  BY <1>1, MinIsLeast
<1> QED
  BY <1>2

LEMMA MinOfTwo ==
    ASSUME NEW a \in Nat, NEW b \in Nat
    PROVE  Min({a, b}) \in {a, b} /\ Min({a, b}) <= a /\ Min({a, b}) <= b
<1>1. {a, b} \in SUBSET Nat /\ {a, b} # {}
  OBVIOUS
<1> QED
  BY <1>1, MinIsLeast

\* Every key moves to a height of the navigation list.
LEMMA NavigationMoves ==
    ASSUME IInv, Up \/ Down \/ Right \/ \E i \in 1 .. KeepBlocks + 1 : SelectBlockRow(i)
    PROVE  /\ inputs' = inputs + 1
           /\ \E h \in Nat : View(h) \/ ViewAndVisit(h) \/ Visit(cache, h)
<1> DEFINE nav == NavigationList
<1>1. nav \in Seq(Nat) /\ Len(nav) \in Nat
  BY NavigationIsSeq DEF IInv, Main, WindowOK
<1>2. \A i \in 1 .. Len(nav) : nav[i] \in Nat
  BY <1>1
<1>3. nav # <<>> => Len(nav) >= 1
  BY <1>1
<1>4. CASE Up
  <2> DEFINE i == SelectInSeq(nav, LAMBDA h : h = sel)
             I == {n \in 1 .. Len(nav) : nav[n] = sel}
  <2>1. i \in 0 .. Len(nav)
    <3>1. i = (IF I # {} THEN Min(I) ELSE 0) /\ I \in SUBSET (1 .. Len(nav))
      BY DEF SelectInSeq
    <3> HIDE DEF i, I
    <3> QED
      BY <1>1, <3>1, FirstOf
  <2>2. /\ inputs' = inputs + 1 /\ nav # <<>>
        /\ \/ View(nav[1])
           \/ i > 1 /\ ViewAndVisit(nav[i - 1])
    BY <1>4 DEF Up, Input
  <2> HIDE DEF i, nav
  <2>3. nav[1] \in Nat /\ (i > 1 => nav[i - 1] \in Nat)
    BY <1>1, <1>2, <1>3, <2>1, <2>2
  <2> QED
    BY <2>2, <2>3
<1>5. CASE Down
  <2> DEFINE i == SelectInSeq(nav, LAMBDA h : h = sel)
             I == {n \in 1 .. Len(nav) : nav[n] = sel}
             j == Min({2, Len(nav)})
  <2>1. i \in 0 .. Len(nav)
    <3>1. i = (IF I # {} THEN Min(I) ELSE 0) /\ I \in SUBSET (1 .. Len(nav))
      BY DEF SelectInSeq
    <3> HIDE DEF i, I
    <3> QED
      BY <1>1, <3>1, FirstOf
  <2>2. /\ inputs' = inputs + 1 /\ nav # <<>>
        /\ \/ View(nav[1])
           \/ View(nav[j])
           \/ i < Len(nav) /\ ViewAndVisit(nav[i + 1])
    BY <1>5 DEF Down, Input
  <2>3. j \in {2, Len(nav)} /\ j <= Len(nav)
    BY <1>1, MinOfTwo
  <2> HIDE DEF i, nav, j
  <2>4. nav[1] \in Nat /\ nav[j] \in Nat /\ (i < Len(nav) => nav[i + 1] \in Nat)
    BY <1>1, <1>2, <1>3, <2>1, <2>2, <2>3
  <2> QED
    BY <2>2, <2>4
<1>6. CASE Right
  <2> DEFINE from == IF sel # None THEN sel ELSE nav[1]
             i == SelectInSeq(nav, LAMBDA h : h = from)
             I == {n \in 1 .. Len(nav) : nav[n] = from}
             j == Min({i + PageRows, Len(nav)})
  <2>4. i \in 0 .. Len(nav)
    <3>1. i = (IF I # {} THEN Min(I) ELSE 0) /\ I \in SUBSET (1 .. Len(nav))
      BY DEF SelectInSeq
    <3> HIDE DEF i, I
    <3> QED
      BY <1>1, <3>1, FirstOf
  <2>1. i \in 0 .. Len(nav) /\ i + PageRows \in Nat /\ i + PageRows >= 1
    <3> HIDE DEF i
    <3>1. PageRows \in Nat /\ PageRows >= 1
      BY ExplorerAssumption, ChainAssumption
    <3> QED
      BY <1>1, <2>4, <3>1
  <2>2. inputs' = inputs + 1 /\ nav # <<>> /\ Visit(cache, nav[j])
    BY <1>6 DEF Right, Input
  <2> HIDE DEF i, nav
  <2>3. j \in {i + PageRows, Len(nav)} /\ j <= Len(nav)
    BY <1>1, <2>1, MinOfTwo
  <2> HIDE DEF j
  <2>5. nav[j] \in Nat
    BY <1>1, <1>2, <1>3, <2>1, <2>2, <2>3
  <2> QED
    BY <2>2, <2>5
<1>7. CASE \E i \in 1 .. KeepBlocks + 1 : SelectBlockRow(i)
  <2>1. PICK i \in DOMAIN nav : inputs' = inputs + 1 /\ ViewAndVisit(nav[i])
    BY <1>7 DEF SelectBlockRow, Input
  <2> HIDE DEF nav
  <2>2. nav[i] \in Nat
    BY <1>1
  <2> QED
    BY <2>1, <2>2
<1> QED
  BY <1>4, <1>5, <1>6, <1>7

LEMMA NavigationKeeps ==
    ASSUME IInv, Up \/ Down \/ Right \/ \E i \in 1 .. KeepBlocks + 1 : SelectBlockRow(i)
    PROVE  IInv' /\ inputs' # inputs
<1>1. inputs' = inputs + 1
  BY NavigationMoves
<1>2. PICK h \in Nat : View(h) \/ ViewAndVisit(h) \/ Visit(cache, h)
  BY NavigationMoves
<1>3. Main' /\ BackOK'
  BY <1>2, ViewKeeps, ViewAndVisitKeeps, VisitCached
<1> QED
  BY <1>1, <1>3, AfterInput

LEMMA JumpToMarkKeeps ==
    ASSUME IInv, NEW h \in Chain, JumpToMark(h)
    PROVE  IInv' /\ inputs' # inputs
<1>1. h \in Nat /\ inputs' = inputs + 1 /\ Visit(cache, h)
  BY ExplorerAssumption, ChainAssumption DEF JumpToMark, Input
<1> QED
  BY <1>1, VisitCached, AfterInput

LEMMA LeftKeeps ==
    ASSUME IInv, Left
    PROVE  IInv' /\ inputs' # inputs
<1>1. inputs' = inputs + 1 /\ Unlock /\ ClearBack /\ blocks' = blocks /\ cache' = cache
  BY DEF Left, Input, list
<1>2. Main'
  BY <1>1, UnlockKeeps DEF IInv, Main
<1>3. BackOK'
  <2>1. 0 <= BackTarget /\ Len(<<>>) = 0 /\ DOMAIN <<>> = {} /\ <<>> \in Seq(Nat)
    BY ExplorerAssumption, ChainAssumption
  <2> QED
    BY <1>1, <2>1 DEF ClearBack, BackOK, BackChainUnbroken
<1> QED
  BY <1>1, <1>2, <1>3, AfterInput

LEMMA SetFilterKeeps ==
    ASSUME IInv, SetFilter
    PROVE  IInv' /\ inputs' # inputs
<1>1. inputs' = inputs + 1 /\ UNCHANGED <<list, focus, back>>
  BY DEF SetFilter
<1>2. Main'
  BY <1>1, FocusKept DEF IInv, Main, list
<1>3. BackOK'
  BY <1>1, BackKept DEF IInv, BackOK
<1> QED
  BY <1>1, <1>2, <1>3, AfterInput

LEMMA EnterFullscreenKeeps ==
    ASSUME IInv, EnterFullscreen
    PROVE  IInv' /\ inputs' # inputs
<1>1. PICK b \in CurrentBlocks :
          EnsureBlockWindow(blocks, cache, b.height, b.height + ArchivalContext,
                            loading, requests)
  BY DEF EnterFullscreen
<1>2. /\ inputs' = inputs + 1 /\ UNCHANGED <<focus, back>> /\ blocks' = blocks
      /\ cache' = CacheBlockWithContext(blocks, cache, b.height)
  BY <1>1 DEF EnterFullscreen, Input, EnsureBlockWindow
<1>3. /\ Main /\ blocks \in Seq(Row) /\ WindowOK(blocks)
      /\ cache \in Caches /\ Len(cache.order) <= MaxCached
  BY DEF IInv, Main, WindowOK, CacheOK
<1>4. /\ cache' \in Caches /\ Len(cache'.order) <= MaxCached
      /\ (Available(blocks, cache, b.height) => b.height \in DOMAIN cache'.rows)
  BY <1>2, <1>3, CacheBlockOK
<1>5. ASSUME held PROVE sel \in DOMAIN cache'.rows
  <2>1. sel # None /\ sel \in DOMAIN cache.rows
    BY <1>3, <1>5 DEF Main, HeldIsCached
  <2>2. b = BlockByHeight(sel) /\ IsBlockAvailable(sel)
    BY <1>1, <2>1 DEF CurrentBlocks
  <2>3. b.height = sel
    BY <1>3, <2>2, BlockFound
  <2> QED
    BY <1>4, <2>1, <2>3 DEF Available
<1>6. Main'
  <2>1. sel' = sel /\ follow' = follow /\ held' = held
    BY <1>2 DEF focus
  <2>2. WindowOK(blocks)' /\ CacheOK'
    BY <1>2, <1>3, <1>4 DEF WindowOK, Ordered, CacheOK
  <2>3. FollowsOrLocked'
    BY <1>3, <2>1 DEF Main, FollowsOrLocked
  <2>4. HeldIsCached'
    BY <1>3, <1>5, <2>1 DEF Main, HeldIsCached
  <2> QED
    BY <1>3, <2>1, <2>2, <2>3, <2>4 DEF Main
<1>7. BackOK'
  BY <1>2, BackKept DEF IInv, BackOK
<1> QED
  BY <1>2, <1>6, <1>7, AfterInput

\* A deep link locks to a block that is not there yet.
LEMMA ApplyRouteKeeps ==
    ASSUME IInv, NEW h \in Routes, ApplyRoute(h)
    PROVE  IInv' /\ inputs' # inputs
<1>1. /\ inputs = 0 /\ inputs' = 1 /\ fed = {} /\ Lock(blocks, h)
      /\ blocks' = blocks /\ cache' = cache /\ UNCHANGED back
  BY DEF ApplyRoute, list
<1>2. h \in Nat /\ h # None
  BY ExplorerAssumption, ChainAssumption
<1>3. Main /\ blocks = <<>> /\ DOMAIN cache.rows = {}
  BY <1>1 DEF IInv, NothingYet
<1>4. ~ Available(blocks, cache, h)
  BY <1>3 DEF Available, InWindow
<1>5. sel' = h /\ follow' = FALSE /\ ~ held'
  BY <1>1, <1>4 DEF Lock
<1>6. Main'
  <2>1. WindowOK(blocks)' /\ CacheOK'
    BY <1>1, <1>3 DEF Main, WindowOK, Ordered, CacheOK
  <2>2. FollowsOrLocked' /\ HeldIsCached'
    BY <1>2, <1>5 DEF FollowsOrLocked, HeldIsCached
  <2> QED
    BY <1>2, <1>5, <2>1, <2>2 DEF Main
<1>7. BackOK'
  BY <1>1, BackKept DEF IInv, BackOK
<1> QED
  BY <1>1, <1>6, <1>7, AfterInput

-----------------------------------------------------------------------------
(* The theorems *)

\* A step keeps the invariant; and what is selected changes with the user's inputs
\* only, as long as it was there when it was selected.
LEMMA StepKeeps ==
    ASSUME IInv, Next
    PROVE  IInv' /\ (held /\ inputs' = inputs => sel' = sel /\ cache' = cache)
<1>1. CASE \E h \in Chain : LiveBlock(h)
  BY <1>1, LiveBlockKeeps
<1>2. CASE \E h \in Chain : LiveStub(h)
  BY <1>2, LiveStubKeeps
<1>3. CASE \E i \in 1 .. MaxRequests : ArchiveAnswers(i)
  BY <1>3, ArchiveAnswersKeeps
<1>4. CASE \E i \in 1 .. MaxRequests : ArchiveFails(i)
  BY <1>4, ArchiveFailsKeeps
<1>5. CASE Tick
  BY <1>5, TickKeeps
<1>6. CASE UserInput
  <2>1. CASE Up \/ Down \/ Right \/ \E i \in 1 .. KeepBlocks + 1 : SelectBlockRow(i)
    BY <2>1, NavigationKeeps
  <2>2. CASE Left
    BY <2>2, LeftKeeps
  <2>3. CASE \E h \in Chain : JumpToMark(h)
    BY <2>3, JumpToMarkKeeps
  <2>4. CASE SetFilter
    BY <2>4, SetFilterKeeps
  <2>5. CASE EnterFullscreen
    BY <2>5, EnterFullscreenKeeps
  <2>6. CASE \E h \in Routes : ApplyRoute(h)
    BY <2>6, ApplyRouteKeeps
  <2> QED
    BY <1>6, <2>1, <2>2, <2>3, <2>4, <2>5, <2>6 DEF UserInput
<1> QED
  BY <1>1, <1>2, <1>3, <1>4, <1>5, <1>6 DEF Next

LEMMA StutterKeeps ==
    ASSUME IInv, UNCHANGED vars
    PROVE  IInv'
<1>1. /\ UNCHANGED <<cache, focus>> /\ blocks' = blocks /\ requests' = requests
      /\ UNCHANGED back /\ fed' = fed /\ inputs' = inputs
  BY DEF vars, list, archive
<1>2. Main' /\ BackOK'
  BY <1>1, FocusKept, BackKept DEF IInv, Main, BackOK
<1>3. NothingYet'
  BY <1>1 DEF IInv, NothingYet
<1> QED
  BY <1>1, <1>2, <1>3 DEF IInv, BackOK

\* The strengthening of the explorer's invariants that is inductive: above all, a
\* selection that was there is kept by the cache, for the window may lose it.
THEOREM InductiveInvariant == Spec => []IInv
<1>1. Init => IInv
  BY InitInv
<1>2. IInv /\ [Next]_vars => IInv'
  BY StepKeeps, StutterKeeps
<1> QED
  BY <1>1, <1>2, PTL DEF Spec

\* The window lists its blocks newest first, in which a height may repeat, and
\* never outgrows keep_blocks.
THEOREM WindowIsOrdered == Spec => []WindowOrdered
<1>1. IInv => WindowOrdered
  BY DEF IInv, Main, WindowOK, Ordered, WindowOrdered
<1> QED
  BY <1>1, InductiveInvariant, PTL

LEMMA OrderCounts ==
    ASSUME NEW s \in Seq(Nat), IsInjective(s)
    PROVE  Cardinality(ToSet(s)) = Len(s)
<1>1. Len(s) \in Nat /\ DOMAIN s = 1 .. Len(s)
  OBVIOUS
<1>2. s \in Bijection(1 .. Len(s), ToSet(s))
  <2>1. s \in [1 .. Len(s) -> ToSet(s)]
    BY <1>1 DEF ToSet
  <2>2. \A a, b \in 1 .. Len(s) : s[a] = s[b] => a = b
    BY <1>1 DEF IsInjective
  <2>3. \A t \in ToSet(s) : \E i \in 1 .. Len(s) : s[i] = t
    BY <1>1 DEF ToSet
  <2> QED
    BY <2>1, <2>2, <2>3 DEF Bijection, Injection, Surjection
<1>3. ExistsBijection(1 .. Len(s), ToSet(s))
  BY <1>2 DEF ExistsBijection
<1> QED
  BY <1>1, <1>3, FS_CountingElements

\* The order of the cache lists exactly the cached heights, each once, and never more
\* than the limit.
THEOREM CacheAndOrderAgree == Spec => []CacheMatchesOrder
<1>1. IInv => CacheMatchesOrder
  <2> SUFFICES ASSUME IInv PROVE CacheMatchesOrder
    OBVIOUS
  <2>1. cache \in Caches /\ Len(cache.order) <= MaxCached
    BY DEF IInv, Main, CacheOK
  <2>2. /\ cache.order \in Seq(Nat) /\ IsInjective(cache.order)
        /\ ToSet(cache.order) = DOMAIN cache.rows
    BY <2>1, CachesHave
  <2> QED
    BY <2>1, <2>2, OrderCounts DEF CacheMatchesOrder
<1> QED
  BY <1>1, InductiveInvariant, PTL

\* The explorer follows the newest block exactly when no block is selected.
THEOREM FollowingOrLocked == Spec => []FollowsOrLocked
<1>1. IInv => FollowsOrLocked
  BY DEF IInv, Main
<1> QED
  BY <1>1, InductiveInvariant, PTL

\* The backwards list is an unbroken line of ancestors of the block it is anchored at.
THEOREM AncestorsUnbroken == Spec => []BackChainUnbroken
<1>1. IInv => BackChainUnbroken
  BY DEF IInv
<1> QED
  BY <1>1, InductiveInvariant, PTL

\* A block that was there when it was selected stays selected and on view until the
\* user does something.
THEOREM SelectionStays == Spec => SelectionSurvives
<1>1. IInv /\ [Next]_vars => [held /\ inputs' = inputs =>
                                  sel' = sel /\ Available(blocks', cache', sel)]_vars
  <2> SUFFICES ASSUME IInv, Next, held, inputs' = inputs
               PROVE  sel' = sel /\ Available(blocks', cache', sel)
    OBVIOUS
  <2>1. sel' = sel /\ cache' = cache
    BY StepKeeps
  <2>2. sel \in DOMAIN cache.rows
    BY DEF IInv, Main, HeldIsCached
  <2> QED
    BY <2>1, <2>2 DEF Available
<1> QED
  BY <1>1, InductiveInvariant, PTL DEF Spec, SelectionSurvives
-----------------------------------------------------------------------------
(* The sources of blocks *)

FeedTypes ==
    /\ lastHeight \in Nat /\ startHeight \in Nat /\ height \in Nat /\ endHeight \in Nat
    /\ sent \in Seq(Nat)

\* The reader does not run beside the loop.
ReaderQuiet == ~ open /\ \A b \in Chain : told[b] = "none"

\* What was sent lies between the height the loop started from and the last
\* one, in order; without the bounds the next height could repeat an old one.
SentOrdered ==
    /\ startHeight <= lastHeight
    /\ \A i \in 1..Len(sent) : startHeight < sent[i] /\ sent[i] <= lastHeight
    /\ \A i, j \in 1..Len(sent) : i < j => sent[i] < sent[j]
    /\ lastHeight = IF sent = <<>> THEN startHeight ELSE sent[Len(sent)]

\* The height a round is at is ahead of the last one sent and within the
\* round, and the round has asked for all the heights between.
RoundPlace ==
    pc \in {"block", "chunks"} =>
        /\ lastHeight < height /\ height <= endHeight
        /\ \A b \in Chain : lastHeight < b /\ b < height => b \in failed

GapsFailed ==
    \A b \in Chain : startHeight < b /\ b < lastHeight /\ b \notin ToSet(sent) => b \in failed

FeedOK == FeedTypes /\ ReaderQuiet /\ SentOrdered /\ RoundPlace /\ GapsFailed

FeedInv == conf.source = "rpc" => FeedOK
-----------------------------------------------------------------------------
\* The loop starts with nothing sent and no height to be fetched.
LEMMA FeedInitInv == FeedInit => FeedInv
<1> SUFFICES ASSUME FeedInit, conf.source = "rpc" PROVE FeedOK
  BY DEF FeedInv
<1>1. sent = <<>> /\ sent \in Seq(Nat) /\ Len(sent) = 0
  BY EmptySeq DEF FeedInit
<1>2. lastHeight = 0 /\ startHeight = 0 /\ height = 0 /\ endHeight = 0 /\ pc = "latest" /\ ~ open
  BY DEF FeedInit
<1>3. ReaderQuiet
  BY <1>2 DEF FeedInit, ReaderQuiet
<1>4. GapsFailed
  BY <1>2, FeedAssumption, ChainAssumption DEF GapsFailed
<1>5. QED
  BY <1>1, <1>2, <1>3, <1>4 DEF FeedOK, FeedTypes, SentOrdered, RoundPlace

LEMMA NoneBetween ==
    ASSUME NEW m \in Nat, NEW n \in Nat, n = m + 1
    PROVE  m < n /\ \A b \in Nat : ~ (m < b /\ b < n)
<1>1. QED
  OBVIOUS

\* The height of a round's first fetch is ahead of everything that was sent,
\* whatever a lagging node answers.
LEMMA RoundKeeps ==
    ASSUME FeedOK, NEW latest \in Chain \cup {0}, pc = "latest",
           Round(latest), UNCHANGED <<sent, failed, ws>>
    PROVE  FeedOK'
<1> DEFINE from == IF lastHeight = 0 THEN latest ELSE lastHeight
<1>1. latest \in Nat /\ from \in Nat
  BY FeedAssumption, ChainAssumption DEF FeedOK, FeedTypes
<1>2. lastHeight' = from /\ startHeight' = IF lastHeight = 0 THEN latest ELSE startHeight
  BY DEF Round
<1>3. \/ lastHeight' = lastHeight /\ startHeight' = startHeight
      \/ lastHeight' = startHeight' /\ sent = <<>> /\ Len(sent) = 0 /\ lastHeight = 0
  <2>1. CASE lastHeight = 0
    <3>1. sent = <<>>
      <4>1. sent # <<>> => Len(sent) \in 1..Len(sent)
        BY DEF FeedOK, FeedTypes
      <4>2. QED
        BY <2>1, <4>1 DEF FeedOK, FeedTypes, SentOrdered
    <3>2. QED
      BY <1>2, <2>1, <3>1
  <2>2. CASE lastHeight # 0
    BY <1>2, <2>2
  <2>3. QED
    BY <2>1, <2>2
<1>4. \/ /\ latest > from /\ pc' = "block" /\ height' = from + 1
         /\ endHeight' = Min2(from + MaxCatchup, latest)
      \/ pc' = "sleep" /\ UNCHANGED <<height, endHeight>>
  BY DEF Round
<1>5. /\ height' \in Nat /\ endHeight' \in Nat
      /\ pc' \in {"block", "chunks"} => height' = lastHeight' + 1 /\ height' <= endHeight'
  <2>1. MaxCatchup \in Nat /\ MaxCatchup >= 1
    BY FeedAssumption, ChainAssumption
  <2>2. QED
    BY <1>1, <1>2, <1>4, <2>1 DEF FeedOK, FeedTypes, Min2
<1> HIDE DEF from
<1>6. FeedTypes'
  BY <1>1, <1>2, <1>5 DEF FeedOK, FeedTypes
<1>7. ReaderQuiet'
  BY DEF FeedOK, ReaderQuiet, ws
<1>8. SentOrdered'
  BY <1>3, <1>6 DEF FeedOK, FeedTypes, SentOrdered
<1>9. RoundPlace'
  <2> SUFFICES ASSUME pc' \in {"block", "chunks"}
               PROVE  /\ lastHeight' < height' /\ height' <= endHeight'
                      /\ \A b \in Chain : ~ (lastHeight' < b /\ b < height')
    BY DEF RoundPlace
  <2>1. height' = lastHeight' + 1 /\ height' <= endHeight' /\ lastHeight' \in Nat /\ height' \in Nat
    BY <1>5, <1>6 DEF FeedTypes
  <2>2. lastHeight' < height' /\ \A b \in Nat : ~ (lastHeight' < b /\ b < height')
    BY <2>1, NoneBetween
  <2>3. QED
    BY <2>1, <2>2, FeedAssumption, ChainAssumption
<1>10. GapsFailed'
  BY <1>3, <1>6, FeedAssumption, ChainAssumption DEF FeedOK, FeedTypes, GapsFailed
<1>11. QED
  BY <1>6, <1>7, <1>8, <1>9, <1>10 DEF FeedOK

\* A block that failed: the round goes on with the next height.
LEMMA FailKeeps ==
    ASSUME FeedOK, BlockFails
    PROVE  FeedOK'
<1>1. /\ pc = "block" /\ failed' = failed \cup {height}
      /\ UNCHANGED <<lastHeight, startHeight, endHeight, sent, ws>>
      /\ \/ height < endHeight /\ pc' = "block" /\ height' = height + 1
         \/ pc' = "sleep" /\ height' = height
  BY DEF BlockFails, NextHeight
<1>2. FeedTypes'
  BY <1>1 DEF FeedOK, FeedTypes
<1>3. ReaderQuiet' /\ SentOrdered' /\ GapsFailed'
  BY <1>1 DEF FeedOK, ReaderQuiet, SentOrdered, GapsFailed, ws
<1>4. RoundPlace'
  BY <1>1, <1>2, FeedAssumption, ChainAssumption DEF FeedOK, FeedTypes, RoundPlace
<1>5. QED
  BY <1>2, <1>3, <1>4 DEF FeedOK

\* A block that is sent: it is newer than the last, and the heights passed
\* over since then have failed.
LEMMA SendKeeps ==
    ASSUME FeedOK, Send
    PROVE  FeedOK'
<1>1. /\ pc = "chunks" /\ sent' = Append(sent, height) /\ lastHeight' = height
      /\ UNCHANGED <<startHeight, endHeight, failed, ws>>
      /\ \/ height < endHeight /\ pc' = "block" /\ height' = height + 1
         \/ pc' = "sleep" /\ height' = height
  BY DEF Send, NextHeight
<1>2. lastHeight < height /\ height <= endHeight /\ height \in Nat /\ sent \in Seq(Nat)
  BY <1>1 DEF FeedOK, FeedTypes, RoundPlace
<1>3. /\ sent' \in Seq(Nat) /\ Len(sent') = Len(sent) + 1 /\ Len(sent) \in Nat
      /\ \A i \in 1..Len(sent) : sent'[i] = sent[i]
      /\ sent'[Len(sent) + 1] = height
  BY <1>1, <1>2, AppendProperties
<1>4. FeedTypes'
  BY <1>1, <1>2, <1>3 DEF FeedOK, FeedTypes
<1>5. ReaderQuiet'
  BY <1>1 DEF FeedOK, ReaderQuiet, ws
<1>6. SentOrdered'
  <2>1. /\ startHeight' <= lastHeight'
        /\ \A i \in 1..Len(sent') : startHeight' < sent'[i] /\ sent'[i] <= lastHeight'
    BY <1>1, <1>2, <1>3 DEF FeedOK, FeedTypes, SentOrdered
  <2>2. ASSUME NEW i \in 1..Len(sent'), NEW j \in 1..Len(sent'), i < j
        PROVE  sent'[i] < sent'[j]
    <3>0. i \in 1..Len(sent)
      BY <1>3, <2>2
    <3>1. sent'[i] = sent[i] /\ sent[i] \in Nat
      BY <1>2, <1>3, <3>0
    <3>2. CASE j \in 1..Len(sent)
      BY <1>3, <2>2, <3>0, <3>1, <3>2 DEF FeedOK, SentOrdered
    <3>3. CASE j = Len(sent) + 1
      <4>1. sent[i] <= lastHeight
        BY <3>0 DEF FeedOK, SentOrdered
      <4>2. QED
        BY <1>2, <1>3, <3>1, <3>3, <4>1 DEF FeedOK, FeedTypes
    <3>4. QED
      BY <1>3, <2>2, <3>2, <3>3
  <2>3. sent' # <<>> /\ lastHeight' = sent'[Len(sent')]
    BY <1>1, <1>3
  <2>4. QED
    BY <2>1, <2>2, <2>3 DEF SentOrdered
<1>7. RoundPlace'
  BY <1>1, <1>4, FeedAssumption, ChainAssumption DEF RoundPlace, FeedTypes
<1>8. GapsFailed'
  <2> SUFFICES ASSUME NEW b \in Chain, startHeight' < b, b < lastHeight', b \notin ToSet(sent')
               PROVE  b \in failed'
    BY DEF GapsFailed
  <2>1. b \notin ToSet(sent)
    <3>1. DOMAIN sent = 1..Len(sent) /\ DOMAIN sent' = 1..Len(sent')
      BY <1>2, <1>3
    <3>2. \A i \in DOMAIN sent : i \in DOMAIN sent' /\ sent'[i] = sent[i]
      BY <1>3, <3>1
    <3>3. QED
      BY <3>2 DEF ToSet
  <2>2. b # lastHeight
    <3>1. sent # <<>> => Len(sent) \in DOMAIN sent
      BY <1>2
    <3>2. sent # <<>> => lastHeight \in ToSet(sent)
      BY <3>1 DEF FeedOK, SentOrdered, ToSet
    <3>3. sent = <<>> => lastHeight = startHeight /\ startHeight' = startHeight
      BY <1>1 DEF FeedOK, SentOrdered
    <3>4. startHeight' < b /\ startHeight' \in Nat /\ b \in Nat
      BY <1>4, FeedAssumption, ChainAssumption DEF FeedTypes
    <3>5. QED
      BY <2>1, <3>2, <3>3, <3>4
  <2>3. b \in Nat
    BY FeedAssumption, ChainAssumption
  <2>4. b < lastHeight \/ (lastHeight < b /\ b < height)
    BY <1>1, <2>2, <2>3 DEF FeedOK, FeedTypes
  <2>5. QED
    BY <1>1, <2>1, <2>4 DEF FeedOK, GapsFailed, RoundPlace
<1>9. QED
  BY <1>4, <1>5, <1>6, <1>7, <1>8 DEF FeedOK

LEMMA FeedStepInv == FeedInv /\ [FeedNext]_feedVars => FeedInv'
<1> SUFFICES ASSUME FeedInv, [FeedNext]_feedVars, conf'.source = "rpc" PROVE FeedOK'
  BY DEF FeedInv
<1>1. conf' = conf
  BY DEF FeedNext, Produce, Retry, LatestAnswers, LatestFails, Sleep, BlockAnswers, BlockFails,
         Spawn,
         ChunkEnds, JoinWhenFull, JoinRest, WasmChunk, Send, WsBlock, WsFetched, WsFetchFails,
         WsClose, feedVars
<1>2. FeedOK
  BY <1>1 DEF FeedInv
<1> DEFINE Still == UNCHANGED <<lastHeight, startHeight, height, endHeight, sent, failed, ws>>
<1>3. ASSUME Still, pc' = pc PROVE FeedOK'
  BY <1>2, <1>3 DEF FeedOK, FeedTypes, ReaderQuiet, SentOrdered, RoundPlace, GapsFailed, ws
<1>4. ASSUME Still, pc' \notin {"block", "chunks"} PROVE FeedOK'
  BY <1>2, <1>4 DEF FeedOK, FeedTypes, ReaderQuiet, SentOrdered, RoundPlace, GapsFailed, ws
<1>5. CASE UNCHANGED feedVars
  BY <1>3, <1>5 DEF feedVars, loop
<1>6. CASE Produce
  BY <1>3, <1>6 DEF Produce, loop
<1>7. CASE Retry
  BY <1>3, <1>7 DEF Retry
<1>8. ASSUME NEW l \in Chain \cup {0}, LatestAnswers(l) PROVE FeedOK'
  BY <1>2, <1>8, RoundKeeps DEF LatestAnswers
<1>9. CASE LatestFails
  BY <1>4, <1>9 DEF LatestFails
<1>10. CASE Sleep
  BY <1>4, <1>10 DEF Sleep
<1>11. ASSUME NEW b \in Chain, BlockAnswers(b) PROVE FeedOK'
  BY <1>2, <1>11 DEF BlockAnswers, FeedOK, FeedTypes, ReaderQuiet, SentOrdered, RoundPlace,
                     GapsFailed, ws
<1>12. CASE BlockFails
  BY <1>2, <1>12, FailKeeps
<1>13. CASE Spawn \/ JoinWhenFull \/ JoinRest \/ WasmChunk
  BY <1>3, <1>13 DEF Spawn, JoinWhenFull, JoinRest, WasmChunk, loop
<1>14. CASE ChunkEnds
  BY <1>3, <1>14 DEF ChunkEnds, loop
<1>15. CASE Send
  BY <1>2, <1>15, SendKeeps
<1>16. ASSUME NEW b \in Chain, WsBlock(b) \/ WsFetched(b) \/ WsFetchFails(b) PROVE FeedOK'
  BY <1>2, <1>16 DEF WsBlock, WsFetched, WsFetchFails, FeedOK, ReaderQuiet
<1>17. CASE WsClose
  BY <1>2, <1>17 DEF WsClose, FeedOK, ReaderQuiet
<1>18. QED
  BY <1>5, <1>6, <1>7, <1>8, <1>9, <1>10, <1>11, <1>12, <1>13, <1>14, <1>15, <1>16,
     <1>17 DEF FeedNext

\* The inductive invariant: what the loop has sent, where its round is, and
\* which heights have failed (src/source_rpc.rs, run_rpc).
THEOREM FeedInvariantHolds == FeedSpec => []FeedInv
<1>1. QED
  BY FeedInitInv, FeedStepInv, PTL DEF FeedSpec

\* The loop sends no block twice and none after a newer one, and remembers
\* the one it sent last, whatever heights the endpoint's nodes answer.
THEOREM SentInOrder == FeedSpec => []SentAscending
<1>1. FeedInv => SentAscending
  <2> SUFFICES ASSUME FeedOK
               PROVE  /\ \A i, j \in DOMAIN sent : i < j => sent[i] < sent[j]
                      /\ lastHeight = IF sent = <<>> THEN startHeight ELSE sent[Len(sent)]
    BY DEF FeedInv, SentAscending
  <2>1. DOMAIN sent = 1..Len(sent)
    BY DEF FeedOK, FeedTypes
  <2>2. QED
    BY <2>1 DEF FeedOK, SentOrdered
<1>2. QED
  BY <1>1, FeedInvariantHolds, PTL

\* A block behind the last one that was not sent is one whose fetch failed:
\* catching up in rounds of MaxCatchup skips nothing, for any MaxCatchup.
THEOREM GapsAreFailures == FeedSpec => []GapsHadFailures
<1>1. FeedInv => GapsHadFailures
  BY DEF FeedInv, FeedOK, GapsFailed, GapsHadFailures
<1>2. QED
  BY <1>1, FeedInvariantHolds, PTL
-----------------------------------------------------------------------------
\* What the row of a block has, with what still waits in the set, is what was
\* fetched.  JoinWhenFull is the step that breaks it.
Chunky ==
    pc = "chunks" =>
        /\ spawned \in 0..Len(Chunks)
        /\ tasks \in [DOMAIN tasks -> {"running", "ok", "err"}]
        /\ DOMAIN tasks \subseteq {Chunks[i] : i \in 1..spawned}
        /\ got = txs \cup {c \in DOMAIN tasks : tasks[c] = "ok"}

\* The set never holds more tasks than chunks were asked for.
LEMMA SetBounded ==
    ASSUME NEW n \in Nat, NEW f, NEW D, D \subseteq {f[i] : i \in 1..n}
    PROVE  IsFiniteSet(D) /\ Cardinality(D) \in Nat /\ Cardinality(D) <= n
<1> DEFINE R == {f[i] : i \in 1..n}
           g == [i \in 1..n |-> f[i]]
<1>1. g \in Surjection(1..n, R)
  BY DEF Surjection
<1>2. IsFiniteSet(1..n) /\ Cardinality(1..n) = n
  BY FS_Interval
<1>3. IsFiniteSet(R) /\ Cardinality(R) <= n
  BY <1>1, <1>2, FS_Surjection
<1>4. QED
  BY <1>3, FS_Subset, FS_CardinalityType

LEMMA ChunkStep ==
    ASSUME Len(Chunks) \in Nat, Len(Chunks) < Concurrency,
           Chunky, [FeedNext]_feedVars
    PROVE  Chunky'
<1>1. ASSUME UNCHANGED <<pc, row>> PROVE Chunky'
  BY <1>1 DEF Chunky, row
<1>2. ASSUME pc' # "chunks" PROVE Chunky'
  BY <1>2 DEF Chunky
<1>3. CASE UNCHANGED feedVars
  BY <1>1, <1>3 DEF feedVars, loop
<1>4. CASE Produce \/ Retry
  BY <1>1, <1>4 DEF Produce, Retry, loop
<1>5. ASSUME NEW l \in Chain \cup {0}, LatestAnswers(l) PROVE Chunky'
  BY <1>2, <1>5 DEF LatestAnswers, Round
<1>6. CASE LatestFails \/ Sleep \/ BlockFails \/ Send
  BY <1>2, <1>6 DEF LatestFails, Sleep, BlockFails, Send, NextHeight
<1>7. ASSUME NEW b \in Chain, BlockAnswers(b) PROVE Chunky'
  BY <1>7 DEF BlockAnswers, Chunky, Empty
<1>8. CASE Spawn
  <2>1. /\ pc = "chunks" /\ pc' = pc /\ spawned < Len(Chunks) /\ spawned' = spawned + 1
        /\ tasks' = [c \in DOMAIN tasks \cup {Chunks[spawned + 1]} |->
                      IF c \in DOMAIN tasks THEN tasks[c] ELSE "running"]
        /\ UNCHANGED <<txs, got>>
    BY <1>8 DEF Spawn, loop
  <2>2. spawned' \in 0..Len(Chunks) /\ spawned \in Nat
    BY <2>1 DEF Chunky
  <2>3. \A i \in 1..spawned : i \in 1..spawned'
    BY <2>1, <2>2
  <2>4. spawned + 1 \in 1..spawned'
    BY <2>1, <2>2
  <2>5. DOMAIN tasks' = DOMAIN tasks \cup {Chunks[spawned + 1]}
    BY <2>1
  <2>6. DOMAIN tasks' \subseteq {Chunks[i] : i \in 1..spawned'}
    BY <2>1, <2>3, <2>4, <2>5 DEF Chunky
  <2>7. /\ tasks' \in [DOMAIN tasks' -> {"running", "ok", "err"}]
        /\ {c \in DOMAIN tasks' : tasks'[c] = "ok"} = {c \in DOMAIN tasks : tasks[c] = "ok"}
    BY <2>1, <2>5 DEF Chunky
  <2>8. QED
    BY <2>1, <2>2, <2>6, <2>7 DEF Chunky
<1>9. CASE ChunkEnds
  <2>1. PICK c \in DOMAIN tasks, o \in {"ok", "err"} :
            /\ pc = "chunks" /\ pc' = pc /\ UNCHANGED <<spawned, txs>> /\ tasks[c] = "running"
            /\ tasks' = [tasks EXCEPT ![c] = o]
            /\ got' = IF o = "ok" THEN got \cup {c} ELSE got
    BY <1>9 DEF ChunkEnds, loop
  <2>2. DOMAIN tasks' = DOMAIN tasks /\ tasks' \in [DOMAIN tasks' -> {"running", "ok", "err"}]
    BY <2>1 DEF Chunky
  <2>3. {d \in DOMAIN tasks' : tasks'[d] = "ok"}
            = {d \in DOMAIN tasks : tasks[d] = "ok"} \cup (IF o = "ok" THEN {c} ELSE {})
    BY <2>1, <2>2 DEF Chunky
  <2>4. QED
    BY <2>1, <2>2, <2>3 DEF Chunky
<1>10. CASE JoinWhenFull
  <2>1. pc = "chunks" /\ Cardinality(DOMAIN tasks) >= Concurrency
    BY <1>10 DEF JoinWhenFull
  <2>2. /\ spawned \in Nat /\ spawned <= Len(Chunks)
        /\ DOMAIN tasks \subseteq {Chunks[i] : i \in 1..spawned}
    BY <2>1 DEF Chunky
  <2>3. Cardinality(DOMAIN tasks) \in Nat /\ Cardinality(DOMAIN tasks) <= spawned
    BY <2>2, SetBounded
  <2>4. QED
    BY <2>1, <2>2, <2>3, FeedAssumption, ChainAssumption
<1>11. CASE JoinRest
  <2>1. PICK c \in DOMAIN tasks :
            /\ pc = "chunks" /\ pc' = pc /\ UNCHANGED <<spawned, got>>
            /\ tasks' = [d \in DOMAIN tasks \ {c} |-> tasks[d]]
            /\ txs' = IF tasks[c] = "ok" THEN txs \cup {c} ELSE txs
    BY <1>11 DEF JoinRest, Without, loop
  <2>2. DOMAIN tasks' = DOMAIN tasks \ {c} /\ tasks' \in [DOMAIN tasks' -> {"running", "ok", "err"}]
    BY <2>1 DEF Chunky
  <2>3. {d \in DOMAIN tasks : tasks[d] = "ok"}
            = {d \in DOMAIN tasks' : tasks'[d] = "ok"} \cup (IF tasks[c] = "ok" THEN {c} ELSE {})
    BY <2>1, <2>2 DEF Chunky
  <2>4. QED
    BY <2>1, <2>2, <2>3 DEF Chunky
<1>12. CASE WasmChunk
  <2>1. PICK new :
            /\ pc = "chunks" /\ pc' = pc /\ spawned < Len(Chunks) /\ spawned' = spawned + 1
            /\ tasks' = tasks /\ txs' = txs \cup new /\ got' = got \cup new
    BY <1>12 DEF WasmChunk, loop
  <2>2. spawned' \in 0..Len(Chunks) /\ \A i \in 1..spawned : i \in 1..spawned'
    BY <2>1 DEF Chunky
  <2>3. QED
    BY <2>1, <2>2 DEF Chunky
<1>13. ASSUME NEW b \in Chain, WsBlock(b) \/ WsFetched(b) \/ WsFetchFails(b) PROVE Chunky'
  BY <1>1, <1>13 DEF WsBlock, WsFetched, WsFetchFails, loop
<1>14. CASE WsClose
  BY <1>1, <1>14 DEF WsClose, loop
<1>15. QED
  BY <1>3, <1>4, <1>5, <1>6, <1>7, <1>8, <1>9, <1>10, <1>11, <1>12, <1>13, <1>14 DEF FeedNext

\* With more than Concurrency - 1 chunks a block may be sent without the
\* transactions of chunks that were fetched: a run shows it.  This is where
\* that ends: with fewer the setting costs nothing, whatever the tasks do.
THEOREM FewChunksAreKept ==
    ASSUME Len(Chunks) \in Nat, Len(Chunks) < Concurrency
    PROVE  FeedSpec => NoChunkLost
<1>1. FeedInit => Chunky
  BY DEF FeedInit, Chunky
<1>2. Chunky /\ [FeedNext]_feedVars => Chunky'
  BY ChunkStep
<1>3. FeedInv /\ Chunky /\ [FeedNext]_feedVars =>
         [sent' # sent /\ conf.source = "rpc" => txs = got]_feedVars
  <2> SUFFICES ASSUME FeedInv, Chunky, FeedNext, sent' # sent, conf.source = "rpc" PROVE txs = got
    OBVIOUS
  <2>1. Send
    <3>1. \A b \in Chain : ~ WsFetched(b)
      BY DEF FeedInv, FeedOK, ReaderQuiet, WsFetched
    <3>2. QED
      BY <3>1 DEF FeedNext, Produce, Retry, LatestAnswers, LatestFails, Sleep, BlockAnswers,
             BlockFails, Spawn, ChunkEnds, JoinWhenFull, JoinRest, WasmChunk, WsBlock,
             WsFetchFails, WsClose
  <2>2. pc = "chunks" /\ DOMAIN tasks = {}
    BY <2>1 DEF Send, Empty
  <2>3. QED
    BY <2>2 DEF Chunky
<1>4. QED
  BY <1>1, <1>2, <1>3, FeedInitInv, FeedStepInv, PTL DEF FeedSpec, NoChunkLost
=============================================================================
