-------------------------- MODULE JumpMarksProofs ---------------------------
(***************************************************************************)
(* The history and the jump marks for every set of labels, contexts, blocks*)
(* and queries: the marks in memory are those in the database, the list on *)
(* screen is current, and a search sees every block received before it.    *)
(***************************************************************************)
EXTENDS JumpMarks, FiniteSetTheorems, SequenceTheorems, WellFoundedInduction, TLAPS

Asked == queue[Len(queue)]

Persists(m) == m.op = "persist"

\* Before the message whose answer the loop awaits there are blocks only.
QueueOK ==
    /\ queue \in Seq(ToSet(queue))
    /\ worker = "ended" => queue = <<>>
    /\ worker # "ended" /\ wait # "none" => Len(queue) >= 1 /\ Asked.op = wait
    /\ \A i \in 1 .. Len(queue) :
          \/ Persists(queue[i]) /\ queue[i].block \in Blocks
          \/ wait # "none" /\ i = Len(queue)

AskOK ==
    worker # "ended" =>
        /\ wait = "put" => Asked.mark \in Mark
        /\ wait = "pin" => Asked.pinned \in BOOLEAN
        /\ wait = "search" => Asked.query = query

\* A label has one row at most.
DbOK(d) ==
    /\ d \in [blocks : {d.blocks}, marks : {d.marks}]
    /\ d.marks \subseteq Mark
    /\ IsFiniteSet(d.marks)
    /\ \A m, n \in d.marks : m.label = n.label => m = n

\* The marks in memory are those of the database once the statement that is on
\* its way has run.
Mirror ==
    worker # "ended" /\ ~failed =>
        /\ wait \in {"none", "search", "get"} => ToSet(marks) = db.marks
        /\ wait = "put" => ToSet(marks) = PutMark(db, Asked.mark).marks
        /\ wait = "del" => ToSet(marks) = DelMark(db, Asked.label).marks
        /\ wait = "pin" => ToSet(marks) = SetPinned(db, Asked.label, Asked.pinned).marks

ModeOK ==
    /\ mode = "marks" /\ wait # "none" => wait = "del" /\ after = "reopen"
    /\ wait = "list" => cursor = 0
    /\ cursor \in Nat /\ overlaySel \in Nat

MarksInv == TypeOK /\ QueueOK /\ AskOK /\ DbOK(db) /\ Mirror /\ ModeOK /\ OverlayCurrent

FiniteBlocks(f) ==
    /\ IsFiniteSet(DOMAIN f)
    /\ \A h \in DOMAIN f : h \in Nat /\ IsFiniteSet(f[h])

\* The rows of a table of blocks.
RowsOf(f) == UNION {{[height |-> h, tx |-> t] : t \in f[h]} : h \in DOMAIN f}

\* The database has what the first k of the blocks received hold, and the others
\* are on their way, in order, before anything else.
StoredTo(k) ==
    LET n == Len(received) - k
    IN  /\ k \in 1 .. Len(received)
        /\ RowsOf(db.blocks) = Known(received, k)
        /\ \A i \in 1 .. n : /\ i \in 1 .. Len(queue) /\ Persists(queue[i])
                             /\ received[k + i] = {queue[i].block}
        /\ \A i \in 1 .. Len(queue) : Persists(queue[i]) => i <= n

SearchInv ==
    /\ FiniteBlocks(db.blocks)
    /\ received \in Seq(ToSet(received))
    /\ worker # "ended" => \E k \in Nat : StoredTo(k)

IInv == MarksInv /\ SearchInv

-----------------------------------------------------------------------------
(* Sorting *)

\* The places 1 .. n can be put in the order of any strict total order on them.
LEMMA SortingExists ==
    ASSUME NEW n \in Nat, NEW B \in SUBSET ((1 .. n) \X (1 .. n)),
           \A i \in 1 .. n : <<i, i>> \notin B,
           \A i, j \in 1 .. n : i # j => <<i, j>> \in B \/ <<j, i>> \in B,
           \A i, j, k \in 1 .. n : <<i, j>> \in B /\ <<j, k>> \in B => <<i, k>> \in B
    PROVE  \E p \in [1 .. n -> 1 .. n] :
               /\ \A i, j \in 1 .. n : p[i] = p[j] => i = j
               /\ \A i, j \in 1 .. n : i < j => <<p[i], p[j]>> \in B
<1> DEFINE D == 1 .. n
           Pred(i) == {j \in D : <<j, i>> \in B}
           r == [i \in D |-> Cardinality(Pred(i)) + 1]
<1>1. IsFiniteSet(D) /\ Cardinality(D) = n
  BY FS_Interval
<1>2. ASSUME NEW i \in D PROVE IsFiniteSet(Pred(i)) /\ Cardinality(Pred(i)) \in 0 .. n - 1
  <2>1. Pred(i) \in SUBSET D /\ Pred(i) # D
    OBVIOUS
  <2> HIDE DEF Pred, D
  <2>2. IsFiniteSet(Pred(i)) /\ Cardinality(Pred(i)) <= n /\ Cardinality(Pred(i)) # n
    BY <1>1, <2>1, FS_Subset
  <2>3. Cardinality(Pred(i)) \in Nat
    BY <2>2, FS_CardinalityType
  <2> QED
    BY <2>2, <2>3
<1>3. r \in [D -> D] /\ \A i \in D : r[i] \in Nat
  <2> HIDE DEF Pred
  <2>1. \A i \in D : Cardinality(Pred(i)) + 1 \in D /\ Cardinality(Pred(i)) + 1 \in Nat
    BY <1>2
  <2> QED
    BY <2>1
<1>4. ASSUME NEW i \in D, NEW j \in D, <<i, j>> \in B PROVE r[i] < r[j]
  <2>1. Pred(i) \in SUBSET Pred(j) /\ i \in Pred(j) /\ i \notin Pred(i)
    BY <1>4
  <2>2. IsFiniteSet(Pred(i)) /\ IsFiniteSet(Pred(j))
        /\ Cardinality(Pred(i)) \in Nat /\ Cardinality(Pred(j)) \in Nat
    <3> HIDE DEF Pred
    <3> QED
      BY <1>2
  <2> HIDE DEF Pred, D
  <2>3. Cardinality(Pred(i)) < Cardinality(Pred(j))
    BY <2>1, <2>2, FS_Subset
  <2> QED
    BY <2>2, <2>3
<1> HIDE DEF r
<1>5. ASSUME NEW i \in D, NEW j \in D, r[i] = r[j] PROVE i = j
  <2> SUFFICES ASSUME i # j PROVE FALSE
    OBVIOUS
  <2>1. <<i, j>> \in B \/ <<j, i>> \in B
    OBVIOUS
  <2>2. r[i] < r[j] \/ r[j] < r[i]
    BY <1>4, <2>1
  <2> QED
    BY <1>3, <1>5, <2>2
<1>6. \A k \in D : \E i \in D : r[i] = k
  <2>1. r \in Injection(D, D)
    BY <1>3, <1>5 DEF Injection, IsInjective
  <2> HIDE DEF D
  <2>2. r \in Surjection(D, D)
    BY <1>1, <2>1, FS_Injection
  <2> QED
    BY <2>2 DEF Surjection
<1> DEFINE p == [k \in D |-> CHOOSE i \in D : r[i] = k]
<1>7. \A k \in D : p[k] \in D /\ r[p[k]] = k
  BY <1>6
<1>8. p \in [D -> D]
  BY <1>7
<1> HIDE DEF p
<1>9. \A i, j \in D : p[i] = p[j] => i = j
  BY <1>7
<1>10. ASSUME NEW i \in D, NEW j \in D, i < j PROVE <<p[i], p[j]>> \in B
  <2>1. p[i] # p[j] /\ p[i] \in D /\ p[j] \in D
    BY <1>7, <1>10
  <2>2. <<p[j], p[i]>> \notin B
    BY <1>4, <1>7, <1>10, <2>1
  <2> QED
    BY <2>1, <2>2
<1> QED
  BY <1>8, <1>9, <1>10

\* An injection of 1 .. n into a set of n elements reaches each of them.
LEMMA InjectionIsOnto ==
    ASSUME NEW S, IsFiniteSet(S), NEW s \in SetToSeqs(S)
    PROVE  s \in Seq(S) /\ Len(s) = Cardinality(S) /\ ToSet(s) = S
<1> DEFINE n == Cardinality(S)
<1>1. n \in Nat
  BY FS_CardinalityType
<1>2. s \in [1 .. n -> S] /\ \A i, j \in 1 .. n : i # j => s[i] # s[j]
  BY DEF SetToSeqs
<1> HIDE DEF n
<1>3. IsFiniteSet(1 .. n) /\ Cardinality(1 .. n) = n
  BY <1>1, FS_Interval
<1>4. s \in Injection(1 .. n, S)
  BY <1>2 DEF Injection, IsInjective
<1>5. s \in Surjection(1 .. n, S)
  BY <1>3, <1>4, FS_Injection DEF n
<1>6. s \in Seq(S) /\ Len(s) = n /\ DOMAIN s = 1 .. n
  BY <1>1, <1>2
<1>7. ToSet(s) = S
  BY <1>2, <1>5, <1>6 DEF ToSet, Surjection
<1> QED
  BY <1>6, <1>7 DEF n

\* The list of marks on screen has the marks in memory, each once.
LEMMA ListHasTheMarks ==
    ASSUME NEW ms \in Seq(Mark)
    PROVE  List(ms) \in Seq(Mark) /\ Len(List(ms)) = Len(ms) /\ ToSet(List(ms)) = ToSet(ms)
<1> DEFINE n == Len(ms)
           D == 1 .. n
           B == {x \in D \X D : Before(ms, x[1], x[2])}
           Sorted(p) == \A i, j \in DOMAIN p : i < j => Before(ms, p[i], p[j])
           order == CHOOSE p \in SetToSeqs(DOMAIN ms) : Sorted(p)
<1>1. n \in Nat /\ DOMAIN ms = D /\ \A i \in D : ms[i] \in Mark
  OBVIOUS
<1>2. \A i \in D : ms[i].when \in Nat
  BY <1>1, MarksAssumption DEF Mark
<1>3. PICK p \in [D -> D] :
          /\ \A i, j \in D : p[i] = p[j] => i = j
          /\ \A i, j \in D : i < j => <<p[i], p[j]>> \in B
  <2>1. B \in SUBSET ((1 .. n) \X (1 .. n))
    OBVIOUS
  <2>2. \A i \in 1 .. n : <<i, i>> \notin B
    BY <1>2 DEF Before
  <2>3. \A i, j \in 1 .. n : i # j => <<i, j>> \in B \/ <<j, i>> \in B
    BY <1>2 DEF Before
  <2>4. \A i, j, k \in 1 .. n : <<i, j>> \in B /\ <<j, k>> \in B => <<i, k>> \in B
    BY <1>2 DEF Before
  <2> HIDE DEF B, n
  <2> QED
    BY <1>1, <2>1, <2>2, <2>3, <2>4, SortingExists
<1>4. IsFiniteSet(D) /\ Cardinality(D) = n
  <2> HIDE DEF n
  <2> QED
    BY <1>1, FS_Interval
<1>5. p \in SetToSeqs(D)
  <2> HIDE DEF n
  <2> QED
    BY <1>3, <1>4 DEF SetToSeqs
<1>6. Sorted(p)
  BY <1>3
<1>7. List(ms) = [k \in DOMAIN ms |-> ms[order[k]]]
  BY Zenon DEF List
<1> HIDE DEF Sorted, n, B
<1>8. order \in SetToSeqs(D)
  <2> HIDE DEF D
  <2> QED
    BY <1>1, <1>5, <1>6, Zenon
<1> HIDE DEF order
<1>9. order \in Seq(D) /\ Len(order) = n /\ ToSet(order) = D
  <2> HIDE DEF D
  <2> QED
    BY <1>4, <1>8, InjectionIsOnto
<1>10. \A k \in D : order[k] \in D
  BY <1>1, <1>9
<1>11. \A k \in D : \E i \in D : order[i] = k
  <2>1. DOMAIN order = D
    BY <1>1, <1>9
  <2> QED
    BY <1>9, <2>1 DEF ToSet
<1>12. List(ms) \in Seq(Mark) /\ Len(List(ms)) = n /\ DOMAIN List(ms) = D
  BY <1>1, <1>7, <1>10
<1>13. ToSet(List(ms)) = ToSet(ms)
  <2>1. \A k \in D : List(ms)[k] = ms[order[k]]
    BY <1>1, <1>7
  <2>2. ToSet(List(ms)) = {List(ms)[k] : k \in D} /\ ToSet(ms) = {ms[k] : k \in D}
    BY <1>1, <1>12, Zenon DEF ToSet
  <2> HIDE DEF D
  <2>3. {List(ms)[k] : k \in D} = {ms[order[k]] : k \in D}
    BY <2>1
  <2>4. {ms[order[k]] : k \in D} = {ms[k] : k \in D}
    BY <1>10, <1>11
  <2> QED
    BY <2>2, <2>3, <2>4, Zenon
<1> QED
  BY <1>12, <1>13 DEF n
-----------------------------------------------------------------------------
(* Labels and marks *)

LEMMA LeastExists ==
    ASSUME NEW T \in SUBSET Nat, T # {}
    PROVE  \E x \in T : \A y \in T : x <= y
<1> DEFINE R == {ss \in Nat \X Nat : ss[1] < ss[2]}
<1>1. IsWellFoundedOn(R, Nat)
  BY NatLessThanWellFounded DEF OpToRel
<1>2. \A x, y \in Nat : x < y => <<x, y>> \in R
  OBVIOUS
<1> HIDE DEF R
<1>3. PICK x \in T : \A y \in T : ~ (<<y, x>> \in R)
  BY <1>1, WFMin
<1>4. ASSUME NEW y \in T PROVE x <= y
  <2>1. x \in Nat /\ y \in Nat /\ ~ (<<y, x>> \in R)
    BY <1>3
  <2>2. ~ (y < x)
    BY <1>2, <2>1
  <2> QED
    BY <2>1, <2>2
<1> QED
  BY <1>4

\* The label a new mark gets is one of the labels, also when all are taken.
LEMMA NextLabelIsALabel ==
    ASSUME marks \in Seq(Mark)
    PROVE  NextAutoLabel \in ToSet(LABELS)
<1> DEFINE free == {i \in DOMAIN LABELS : Labelled(LABELS[i]) = {}}
           D == DOMAIN marks
           least == CHOOSE i \in free : \A j \in free : i <= j
           Oldest(i) == \A j \in DOMAIN marks :
                            \/ marks[i].when < marks[j].when
                            \/ marks[i].when = marks[j].when /\ i <= j
           oldest == CHOOSE i \in DOMAIN marks : Oldest(i)
<1>1. NextAutoLabel = IF free # {} THEN LABELS[least] ELSE marks[oldest].label
  BY DEF NextAutoLabel
<1>2. LABELS \in Seq(ToSet(LABELS)) /\ LABELS # <<>> /\ DOMAIN LABELS = 1 .. Len(LABELS)
        /\ Len(LABELS) \in Nat
  BY MarksAssumption
<1>3. D = 1 .. Len(marks) /\ Len(marks) \in Nat
        /\ \A i \in D : marks[i].when \in Nat /\ marks[i].label \in ToSet(LABELS)
  <2>1. D = 1 .. Len(marks) /\ Len(marks) \in Nat /\ \A i \in D : marks[i] \in Mark
    OBVIOUS
  <2>2. \A m \in Mark : m.when \in Nat /\ m.label \in ToSet(LABELS)
    BY MarksAssumption DEF Mark
  <2> QED
    BY <2>1, <2>2
<1>4. CASE free # {}
  <2>1. free \subseteq Nat /\ free \subseteq DOMAIN LABELS
    BY <1>2
  <2> HIDE DEF free
  <2>2. least \in free
    BY <1>4, <2>1, LeastExists, Zenon
  <2> HIDE DEF least
  <2>3. LABELS[least] \in ToSet(LABELS)
    BY <2>1, <2>2 DEF ToSet
  <2> QED
    BY <1>1, <1>4, <2>3
<1>5. CASE free = {}
  <2>1. 1 \in DOMAIN LABELS /\ Labelled(LABELS[1]) # {}
    <3>1. 1 \in DOMAIN LABELS
      BY <1>2
    <3> QED
      BY <1>5, <3>1, Zenon
  <2>2. D # {}
    BY <2>1 DEF Labelled
  <2> DEFINE W == {marks[i].when : i \in D}
  <2>3. W # {} /\ W \subseteq Nat
    BY <1>3, <2>2
  <2>4. PICK w \in W : \A v \in W : w <= v
    <3> HIDE DEF W
    <3> QED
      BY <2>3, LeastExists
  <2>w. w \in Nat
    BY <2>3, <2>4
  <2> DEFINE J == {i \in D : marks[i].when = w}
  <2>5. J # {} /\ J \subseteq Nat
    BY <1>3
  <2>6. PICK k \in J : \A j \in J : k <= j
    <3> HIDE DEF J
    <3> QED
      BY <2>5, LeastExists
  <2>7. \A j \in D : w <= marks[j].when
    BY <2>4
  <2>8. k \in D /\ Oldest(k)
    <3>1. k \in D /\ marks[k].when = w
      BY <2>6
    <3>2. \A j \in D : marks[j].when = w => k <= j
      BY <2>6
    <3> QED
      BY <1>3, <2>w, <2>7, <3>1, <3>2
  <2> HIDE DEF Oldest
  <2>9. oldest \in DOMAIN marks
    BY <2>8, Zenon
  <2> QED
    BY <1>1, <1>3, <1>5, <2>9
<1> QED
  BY <1>4, <1>5

\* The image of a finite set is finite.
LEMMA ImageIsFinite ==
    ASSUME NEW S, IsFiniteSet(S), NEW f, DOMAIN f = S
    PROVE  IsFiniteSet({f[x] : x \in S})
<1> DEFINE T == {f[x] : x \in S}
           g == [x \in S |-> f[x]]
<1>1. g \in Surjection(S, T)
  BY DEF Surjection
<1> HIDE DEF T, g
<1>2. IsFiniteSet(T)
  BY <1>1, FS_Surjection
<1> QED
  BY <1>2 DEF T

\* The three statements that write a mark keep one row for each label.
LEMMA PutKeepsRows ==
    ASSUME NEW d, DbOK(d), NEW m \in Mark
    PROVE  /\ DbOK(PutMark(d, m)) /\ PutMark(d, m).blocks = d.blocks
           /\ PutMark(d, m).marks = {n \in d.marks : n.label # m.label} \cup {m}
<1> DEFINE S == {n \in d.marks : n.label # m.label}
           T == S \cup {m}
<1>1. /\ PutMark(d, m) \in [blocks : {d.blocks}, marks : {T}]
      /\ PutMark(d, m).blocks = d.blocks /\ PutMark(d, m).marks = T
  BY DEF PutMark, DbOK
<1>2. T \subseteq Mark /\ \A x, y \in T : x.label = y.label => x = y
  BY DEF DbOK
<1>3. IsFiniteSet(T)
  <2>1. S \in SUBSET d.marks /\ IsFiniteSet(d.marks)
    BY DEF DbOK
  <2> HIDE DEF S
  <2> QED
    BY <2>1, FS_Subset, FS_AddElement
<1> HIDE DEF T
<1> QED
  BY <1>1, <1>2, <1>3 DEF DbOK, S, T

LEMMA DelKeepsRows ==
    ASSUME NEW d, DbOK(d), NEW l
    PROVE  /\ DbOK(DelMark(d, l)) /\ DelMark(d, l).blocks = d.blocks
           /\ DelMark(d, l).marks = {n \in d.marks : n.label # l}
<1> DEFINE S == {n \in d.marks : n.label # l}
<1>1. /\ DelMark(d, l) \in [blocks : {d.blocks}, marks : {S}]
      /\ DelMark(d, l).blocks = d.blocks /\ DelMark(d, l).marks = S
  BY DEF DelMark, DbOK
<1>2. S \subseteq Mark /\ \A x, y \in S : x.label = y.label => x = y
  BY DEF DbOK
<1>3. IsFiniteSet(S)
  <2>1. S \in SUBSET d.marks /\ IsFiniteSet(d.marks)
    BY DEF DbOK
  <2> HIDE DEF S
  <2> QED
    BY <2>1, FS_Subset
<1> HIDE DEF S
<1> QED
  BY <1>1, <1>2, <1>3 DEF DbOK, S

Pinned(n, l, p) == IF n.label = l THEN [n EXCEPT !.pinned = p] ELSE n

LEMMA PinnedIsAMark ==
    ASSUME NEW n \in Mark, NEW l, NEW p \in BOOLEAN
    PROVE  Pinned(n, l, p) \in Mark /\ Pinned(n, l, p).label = n.label
BY DEF Pinned, Mark

LEMMA PinKeepsRows ==
    ASSUME NEW d, DbOK(d), NEW l, NEW p \in BOOLEAN
    PROVE  /\ DbOK(SetPinned(d, l, p)) /\ SetPinned(d, l, p).blocks = d.blocks
           /\ SetPinned(d, l, p).marks = {Pinned(n, l, p) : n \in d.marks}
<1> DEFINE S == {Pinned(n, l, p) : n \in d.marks}
<1>1. /\ SetPinned(d, l, p) \in [blocks : {d.blocks}, marks : {S}]
      /\ SetPinned(d, l, p).blocks = d.blocks /\ SetPinned(d, l, p).marks = S
  <2>1. SetPinned(d, l, p) = [d EXCEPT !.marks = S]
    BY DEF SetPinned, Pinned
  <2> HIDE DEF S
  <2> QED
    BY <2>1 DEF DbOK
<1>2. S \subseteq Mark /\ \A x, y \in S : x.label = y.label => x = y
  BY PinnedIsAMark DEF DbOK
<1>3. IsFiniteSet(S)
  <2> DEFINE f == [n \in d.marks |-> Pinned(n, l, p)]
  <2>1. IsFiniteSet(d.marks) /\ DOMAIN f = d.marks
    BY DEF DbOK
  <2>2. S = {f[n] : n \in d.marks}
    OBVIOUS
  <2> HIDE DEF f, S
  <2> QED
    BY <2>1, <2>2, ImageIsFinite
<1> HIDE DEF S
<1> QED
  BY <1>1, <1>2, <1>3 DEF DbOK, S

LEMMA RemovedAt ==
    ASSUME NEW S, NEW s \in Seq(S), NEW k \in 1 .. Len(s)
    PROVE  /\ RemoveAt(s, k) \in Seq(S) /\ Len(RemoveAt(s, k)) = Len(s) - 1
           /\ \A i \in 1 .. Len(s) - 1 :
                 RemoveAt(s, k)[i] = IF i < k THEN s[i] ELSE s[i + 1]
<1> DEFINE x == RemoveAt(s, k)
           u == SubSeq(s, 1, k - 1)
           v == SubSeq(s, k + 1, Len(s))
<1>1. Len(s) \in Nat /\ k \in Nat /\ 1 <= k /\ k <= Len(s)
  OBVIOUS
<1>2. /\ u \in Seq(S) /\ Len(u) = k - 1
      /\ \A i \in 1 .. k - 1 : u[i] = s[i]
  OBVIOUS
<1>3. /\ v \in Seq(S) /\ Len(v) = Len(s) - k
      /\ \A i \in 1 .. Len(s) - k : v[i] = s[k + i]
  OBVIOUS
<1>4. x = u \o v
  BY DEF RemoveAt
<1> HIDE DEF x, u, v
<1>5. /\ u \o v \in Seq(S) /\ Len(u \o v) = Len(s) - 1
      /\ \A i \in 1 .. k - 1 : (u \o v)[i] = u[i]
      /\ \A i \in k .. Len(s) - 1 : (u \o v)[i] = v[i - (k - 1)]
  <2>1. u \in Seq(S) /\ v \in Seq(S) /\ Len(u) = k - 1 /\ Len(v) = Len(s) - k
    BY <1>2, <1>3
  <2>2. /\ u \o v \in Seq(S) /\ Len(u \o v) = Len(u) + Len(v)
        /\ \A i \in 1 .. Len(u) + Len(v) :
              (u \o v)[i] = IF i <= Len(u) THEN u[i] ELSE v[i - Len(u)]
    BY <2>1, ConcatProperties, ZenonT(30)
  <2> QED
    BY <1>1, <2>1, <2>2, SMTT(30)
<1>6. /\ x \in Seq(S) /\ Len(x) = Len(s) - 1
      /\ \A i \in 1 .. k - 1 : x[i] = u[i]
      /\ \A i \in k .. Len(s) - 1 : x[i] = v[i - (k - 1)]
  BY <1>4, <1>5
<1>7. ASSUME NEW i \in 1 .. Len(s) - 1
      PROVE  x[i] = IF i < k THEN s[i] ELSE s[i + 1]
  <2>1. CASE i < k
    BY <1>1, <1>2, <1>6, <2>1
  <2>2. CASE i >= k
    <3>1. x[i] = v[i - (k - 1)] /\ i - (k - 1) \in 1 .. Len(s) - k
      BY <1>1, <1>6, <2>2
    <3>2. v[i - (k - 1)] = s[k + (i - (k - 1))] /\ k + (i - (k - 1)) = i + 1
      BY <1>1, <1>3, <2>2, <3>1
    <3> QED
      BY <1>1, <2>2, <3>1, <3>2
  <2> QED
    BY <1>1, <2>1, <2>2
<1> QED
  BY <1>6, <1>7 DEF x

UniqueMarks(ms) ==
    /\ ms \in Seq(Mark)
    /\ \A i, j \in DOMAIN ms : ms[i].label = ms[j].label => i = j

\* What the three operations do to the marks in memory is what the statements do
\* to the rows.
LEMMA PinMatches ==
    ASSUME UniqueMarks(marks), NEW l, NEW p \in BOOLEAN, Pin(l, p)
    PROVE  /\ UniqueMarks(marks') /\ Len(marks') = Len(marks)
           /\ ToSet(marks') = {Pinned(n, l, p) : n \in ToSet(marks)}
<1> DEFINE D == DOMAIN marks
           f == [i \in D |-> Pinned(marks[i], l, p)]
<1>1. D = 1 .. Len(marks) /\ Len(marks) \in Nat /\ \A i \in D : marks[i] \in Mark
  BY DEF UniqueMarks
<1>2. marks' = f
  BY DEF Pin, Labelled, Pinned
<1>3. \A i \in D : f[i] \in Mark /\ f[i].label = marks[i].label
  BY <1>1, PinnedIsAMark
<1>4. f \in Seq(Mark) /\ Len(f) = Len(marks) /\ DOMAIN f = D
  <2>1. DOMAIN f = D /\ f \in [1 .. Len(marks) -> Mark]
    BY <1>1, <1>3
  <2> HIDE DEF f
  <2> QED
    BY <1>1, <2>1
<1>5. UniqueMarks(f)
  <2> HIDE DEF f
  <2> QED
    BY <1>3, <1>4 DEF UniqueMarks
<1>6. ToSet(f) = {Pinned(n, l, p) : n \in ToSet(marks)}
  <2>1. ToSet(f) = {f[i] : i \in D} /\ ToSet(marks) = {marks[i] : i \in D}
    BY <1>4, Zenon DEF ToSet
  <2>2. \A i \in D : f[i] = Pinned(marks[i], l, p)
    OBVIOUS
  <2> HIDE DEF f, D
  <2> QED
    BY <2>1, <2>2
<1> QED
  BY <1>2, <1>4, <1>5, <1>6

LEMMA PutMatches ==
    ASSUME UniqueMarks(marks), NEW m \in Mark,
           marks' = IF Labelled(m.label) = {} THEN Append(marks, m)
                    ELSE [i \in DOMAIN marks |-> IF i \in Labelled(m.label) THEN m ELSE marks[i]]
    PROVE  UniqueMarks(marks') /\ ToSet(marks') = {n \in ToSet(marks) : n.label # m.label} \cup {m}
<1> DEFINE D == DOMAIN marks
           I == Labelled(m.label)
<1>1. D = 1 .. Len(marks) /\ Len(marks) \in Nat /\ \A i \in D : marks[i] \in Mark
  BY DEF UniqueMarks
<1>2. I = {i \in D : marks[i].label = m.label}
  BY DEF Labelled
<1>3. ToSet(marks) = {marks[i] : i \in D}
  BY Zenon DEF ToSet
<1>4. CASE I = {}
  <2> DEFINE a == Append(marks, m)
             n == Len(marks) + 1
  <2>1. a \in Seq(Mark) /\ Len(a) = n /\ DOMAIN a = 1 .. n /\ a[n] = m
          /\ \A i \in D : a[i] = marks[i]
    BY <1>1 DEF UniqueMarks
  <2>2. DOMAIN a = D \cup {n} /\ n \notin D
    BY <1>1, <2>1
  <2>3. \A i \in D : marks[i].label # m.label
    BY <1>2, <1>4
  <2>4. marks' = a
    BY <1>4
  <2> HIDE DEF a, n, D
  <2>5. UniqueMarks(a)
    BY <2>1, <2>2, <2>3 DEF UniqueMarks, D
  <2>6. ToSet(a) = {a[i] : i \in D \cup {n}}
    BY <2>2, Zenon DEF ToSet
  <2>7. ToSet(a) = {x \in ToSet(marks) : x.label # m.label} \cup {m}
    BY <1>3, <2>1, <2>3, <2>6
  <2> QED
    BY <2>4, <2>5, <2>7
<1>5. CASE I # {}
  <2> DEFINE f == [i \in D |-> IF i \in I THEN m ELSE marks[i]]
  <2>1. marks' = f
    BY <1>5
  <2>2. DOMAIN f = D /\ \A i \in D : f[i] = IF i \in I THEN m ELSE marks[i]
    OBVIOUS
  <2>3. f \in [1 .. Len(marks) -> Mark]
    BY <1>1
  <2> HIDE DEF f
  <2>4. f \in Seq(Mark)
    BY <1>1, <2>3
  <2>5. \A i \in D : f[i].label = marks[i].label
    BY <1>2, <2>2
  <2>6. UniqueMarks(f)
    BY <2>2, <2>4, <2>5 DEF UniqueMarks
  <2>7. ToSet(f) = {f[i] : i \in D}
    BY <2>2, Zenon DEF ToSet
  <2> HIDE DEF D, I
  <2>8. ToSet(f) = {x \in ToSet(marks) : x.label # m.label} \cup {m}
    BY <1>2, <1>3, <1>5, <2>2, <2>7
  <2> QED
    BY <2>1, <2>6, <2>8
<1> QED
  BY <1>4, <1>5

LEMMA WithoutMatches ==
    ASSUME UniqueMarks(marks), NEW l
    PROVE  /\ UniqueMarks(Without(l)) /\ Len(Without(l)) >= Len(marks) - 1
           /\ ToSet(Without(l)) = {n \in ToSet(marks) : n.label # l}
<1> DEFINE D == DOMAIN marks
           n == Len(marks)
           I == Labelled(l)
<1>1. D = 1 .. n /\ n \in Nat /\ \A i \in D : marks[i] \in Mark
  BY DEF UniqueMarks
<1>2. I = {i \in D : marks[i].label = l}
  BY DEF Labelled
<1>3. ToSet(marks) = {marks[i] : i \in D}
  BY Zenon DEF ToSet
<1>4. CASE I = {}
  <2>1. Without(l) = marks
    BY <1>4 DEF Without
  <2> HIDE DEF D, I, n
  <2>2. {x \in ToSet(marks) : x.label # l} = ToSet(marks)
    BY <1>2, <1>3, <1>4
  <2> QED
    BY <1>1, <2>1, <2>2 DEF n
<1>5. CASE I # {}
  <2> DEFINE k == CHOOSE i \in I : TRUE
             r == RemoveAt(marks, k)
  <2>1. Without(l) = r
    BY <1>5 DEF Without
  <2>2. k \in I
    <3> HIDE DEF I
    <3> QED
      BY <1>5, Zenon
  <2> HIDE DEF k
  <2>3. k \in 1 .. n /\ marks[k].label = l /\ marks \in Seq(Mark)
    BY <1>1, <1>2, <2>2 DEF UniqueMarks
  <2>4. r \in Seq(Mark) /\ Len(r) = n - 1
          /\ \A i \in 1 .. n - 1 : r[i] = IF i < k THEN marks[i] ELSE marks[i + 1]
    BY <2>3, RemovedAt
  <2> HIDE DEF r
  <2>5. DOMAIN r = 1 .. n - 1
    BY <1>1, <2>4
  <2>6. \A i \in D : marks[i].label = l => i = k
    BY <1>2, <2>2, <2>3 DEF UniqueMarks
  <2>7. UniqueMarks(r)
    <3> SUFFICES ASSUME NEW i \in 1 .. n - 1, NEW j \in 1 .. n - 1, r[i].label = r[j].label
                 PROVE  i = j
      BY <2>4, <2>5 DEF UniqueMarks
    <3> DEFINE u == IF i < k THEN i ELSE i + 1
               v == IF j < k THEN j ELSE j + 1
    <3>1. u \in D /\ v \in D /\ r[i] = marks[u] /\ r[j] = marks[v]
      BY <1>1, <2>3, <2>4
    <3>2. u = v
      <4> HIDE DEF u, v, D
      <4> QED
        BY <3>1 DEF UniqueMarks, D
    <3> QED
      BY <1>1, <2>3, <3>2
  <2>8. \A i \in 1 .. n - 1 : \E j \in D : r[i] = marks[j] /\ j # k
    <3> TAKE i \in 1 .. n - 1
    <3> DEFINE u == IF i < k THEN i ELSE i + 1
    <3>1. u \in D /\ r[i] = marks[u] /\ u # k
      BY <1>1, <2>3, <2>4
    <3> QED
      BY <3>1
  <2>9. \A j \in D : j # k => \E i \in 1 .. n - 1 : r[i] = marks[j]
    <3> SUFFICES ASSUME NEW j \in D, j # k PROVE \E i \in 1 .. n - 1 : r[i] = marks[j]
      OBVIOUS
    <3> DEFINE v == IF j < k THEN j ELSE j - 1
    <3>1. v \in 1 .. n - 1 /\ r[v] = marks[j]
      BY <1>1, <2>3, <2>4
    <3> QED
      BY <3>1
  <2>10. ToSet(r) = {r[i] : i \in 1 .. n - 1}
    BY <2>5, Zenon DEF ToSet
  <2>11. ToSet(r) = {x \in ToSet(marks) : x.label # l}
    <3> HIDE DEF D, n
    <3> QED
      BY <1>3, <2>3, <2>6, <2>8, <2>9, <2>10
  <2> QED
    BY <1>1, <2>1, <2>4, <2>7, <2>11
<1> QED
  BY <1>4, <1>5

\* What the worker answers to "list": every row once.
LEMMA ListedMarks ==
    ASSUME NEW d, DbOK(d), NEW ms \in ListMarks(d)
    PROVE  UniqueMarks(ms) /\ ToSet(ms) = d.marks
<1>1. ms \in SetToSeqs(d.marks)
  BY DEF ListMarks
<1>2. IsFiniteSet(d.marks) /\ d.marks \subseteq Mark
  BY DEF DbOK
<1>3. ms \in Seq(d.marks) /\ ToSet(ms) = d.marks /\ Len(ms) = Cardinality(d.marks)
  BY <1>1, <1>2, InjectionIsOnto
<1>4. \A i, j \in 1 .. Cardinality(d.marks) : i # j => ms[i] # ms[j]
  BY <1>1 DEF SetToSeqs
<1>5. \A i, j \in DOMAIN ms : ms[i].label = ms[j].label => i = j
  <2> SUFFICES ASSUME NEW i \in DOMAIN ms, NEW j \in DOMAIN ms, ms[i].label = ms[j].label
               PROVE  i = j
    OBVIOUS
  <2>1. DOMAIN ms = 1 .. Cardinality(d.marks) /\ ms[i] \in d.marks /\ ms[j] \in d.marks
    BY <1>3
  <2>2. ms[i] = ms[j]
    BY <2>1 DEF DbOK
  <2> QED
    BY <1>4, <2>1, <2>2
<1> QED
  BY <1>2, <1>3, <1>5 DEF UniqueMarks
-----------------------------------------------------------------------------
(* The channel *)

LEMMA SelfTyped ==
    ASSUME NEW S, NEW s \in Seq(S)
    PROVE  s \in Seq(ToSet(s))
<1>1. DOMAIN s = 1 .. Len(s) /\ Len(s) \in Nat /\ s = [i \in 1 .. Len(s) |-> s[i]]
  OBVIOUS
<1>2. \A i \in 1 .. Len(s) : s[i] \in ToSet(s)
  BY <1>1 DEF ToSet
<1>3. s \in [1 .. Len(s) -> ToSet(s)]
  BY <1>1, <1>2
<1> QED
  BY <1>1, <1>3

LEMMA Appended ==
    ASSUME NEW q, q \in Seq(ToSet(q)), NEW m
    PROVE  LET r == Append(q, m)
           IN  /\ r \in Seq(ToSet(r)) /\ Len(r) = Len(q) + 1 /\ Len(q) \in Nat
               /\ r[Len(r)] = m /\ \A i \in 1 .. Len(q) : r[i] = q[i]
<1> DEFINE S == ToSet(q) \cup {m}
           r == Append(q, m)
<1> HIDE DEF S
<1>1. q \in Seq(S) /\ m \in S
  <2>1. ToSet(q) \subseteq S /\ m \in S
    BY DEF S
  <2> QED
    BY <2>1, SeqMonotonic
<1>2. r \in Seq(S) /\ Len(r) = Len(q) + 1 /\ Len(q) \in Nat
        /\ r[Len(r)] = m /\ \A i \in 1 .. Len(q) : r[i] = q[i]
  BY <1>1
<1> HIDE DEF r
<1>3. r \in Seq(ToSet(r))
  BY <1>2, SelfTyped
<1> QED
  BY <1>2, <1>3 DEF r

LEMMA Dropped ==
    ASSUME NEW q, q \in Seq(ToSet(q)), q # <<>>
    PROVE  LET r == Tail(q)
           IN  /\ r \in Seq(ToSet(r)) /\ Len(r) = Len(q) - 1 /\ Len(q) \in Nat \ {0}
               /\ Head(q) = q[1] /\ \A i \in 1 .. Len(q) - 1 : r[i] = q[i + 1]
<1> DEFINE r == Tail(q)
           S == ToSet(q)
<1> HIDE DEF S
<1>1. q \in Seq(S)
  BY DEF S
<1>2. r \in Seq(S) /\ Len(r) = Len(q) - 1 /\ Len(q) \in Nat \ {0}
        /\ Head(q) = q[1] /\ \A i \in 1 .. Len(q) - 1 : r[i] = q[i + 1]
  BY <1>1
<1> HIDE DEF r
<1>3. r \in Seq(ToSet(r))
  BY <1>2, SelfTyped
<1> QED
  BY <1>2, <1>3 DEF r

LEMMA EmptyQueue == <<>> \in Seq(ToSet(<<>>)) /\ Len(<<>>) = 0
OBVIOUS

\* The message the loop has just sent is the one it waits for.
LEMMA AskKeepsQueue ==
    ASSUME QueueOK, wait = "none", NEW m, Ask(m), m.op # "none", UNCHANGED worker
    PROVE  QueueOK' /\ wait' = m.op /\ (worker # "ended" => Asked' = m)
<1>1. wait' = m.op
  BY DEF Ask
<1>2. CASE worker = "ended"
  <2>1. queue' = queue /\ queue = <<>>
    BY <1>2 DEF Ask, Tell, QueueOK
  <2> QED
    BY <1>1, <1>2, <2>1 DEF QueueOK
<1>3. CASE worker # "ended"
  <2> DEFINE r == Append(queue, m)
  <2>1. queue' = r
    BY <1>3 DEF Ask, Tell
  <2>2. /\ r \in Seq(ToSet(r)) /\ Len(r) = Len(queue) + 1 /\ Len(queue) \in Nat
        /\ r[Len(r)] = m /\ \A i \in 1 .. Len(queue) : r[i] = queue[i]
    BY Appended DEF QueueOK
  <2> HIDE DEF r
  <2>3. \A i \in 1 .. Len(queue) : Persists(queue[i]) /\ queue[i].block \in Blocks
    BY DEF QueueOK
  <2>4. \A i \in 1 .. Len(r) : \/ Persists(r[i]) /\ r[i].block \in Blocks
                               \/ i = Len(r)
    BY <2>2, <2>3
  <2> QED
    BY <1>1, <1>3, <2>1, <2>2, <2>4 DEF QueueOK, Asked, Persists
<1> QED
  BY <1>1, <1>2, <1>3

\* The worker takes a message that is no block only when it is the last one, and
\* then it is the one the loop waits for.
LEMMA ServedIsAsked ==
    ASSUME QueueOK, worker = "running", queue # <<>>, ~ Persists(Head(queue))
    PROVE  /\ Len(queue) = 1 /\ Tail(queue) = <<>> /\ wait # "none"
           /\ Head(queue) = Asked /\ Asked.op = wait
<1>1. /\ Tail(queue) \in Seq(ToSet(Tail(queue))) /\ Len(Tail(queue)) = Len(queue) - 1
      /\ Len(queue) \in Nat \ {0} /\ Head(queue) = queue[1]
  BY Dropped DEF QueueOK
<1>q. \A i \in 1 .. Len(queue) : Persists(queue[i]) \/ (wait # "none" /\ i = Len(queue))
  BY DEF QueueOK
<1>2. wait # "none" /\ 1 = Len(queue)
  <2>1. ~ Persists(queue[1])
    BY <1>1, Zenon
  <2>2. 1 \in 1 .. Len(queue)
    BY <1>1
  <2> QED
    BY <1>q, <2>1, <2>2, Zenon
<1>3. Tail(queue) = <<>>
  <2> DEFINE r == Tail(queue)
  <2> HIDE DEF r
  <2>1. r \in Seq(ToSet(r)) /\ Len(r) = Len(queue) - 1
    BY <1>1 DEF r
  <2>3. Len(r) = 0
    BY <1>2, <2>1
  <2>2. r = <<>>
    BY <2>1, <2>3, EmptySeq
  <2> QED
    BY <2>2 DEF r
<1> QED
  BY <1>1, <1>2, <1>3 DEF QueueOK, Asked
-----------------------------------------------------------------------------
(* The marks: a lemma for each action *)

\* A step that sends nothing, takes nothing and answers nothing.
LEMMA QueueSame ==
    ASSUME QueueOK, UNCHANGED <<queue, worker, wait>>
    PROVE  QueueOK' /\ Asked' = Asked
BY Zenon DEF QueueOK, Asked

LEMMA MarksStay ==
    ASSUME MarksInv,
           UNCHANGED <<db, queue, worker, wait, after, mode, user, overlay, overlaySel, failed>>,
           query' \in Queries \cup {<<>>}, wait = "search" => query' = query,
           clock' \in 0 .. MaxClock, inputs' \in 0 .. MaxInputs, starts' \in 1 .. MaxStarts
    PROVE  MarksInv'
<1>1. QueueOK' /\ Asked' = Asked
  BY QueueSame DEF MarksInv
<1>2. TypeOK'
  BY DEF MarksInv, TypeOK, user
<1>3. AskOK'
  BY <1>1 DEF MarksInv, AskOK
<1>4. DbOK(db)'
  BY DEF MarksInv, DbOK
<1>5. Mirror'
  BY <1>1 DEF MarksInv, Mirror, user
<1>6. ModeOK' /\ OverlayCurrent'
  BY DEF MarksInv, ModeOK, OverlayCurrent, user
<1> QED
  BY <1>1, <1>2, <1>3, <1>4, <1>5, <1>6 DEF MarksInv

LEMMA MarksStuttering ==
    ASSUME MarksInv, UNCHANGED vars
    PROVE  MarksInv'
BY MarksStay DEF MarksInv, TypeOK, vars, user, lists, meta, hist

LEMMA TickKeepsMarks ==
    ASSUME MarksInv, Tick
    PROVE  MarksInv'
<1>1. clock' \in 0 .. MaxClock
  BY MarksAssumption DEF MarksInv, TypeOK, Tick
<1> QED
  BY <1>1, MarksStay DEF MarksInv, TypeOK, Tick, user, lists, hist

LEMMA TypingKeepsMarks ==
    ASSUME MarksInv, KeySearchMove \/ \E q \in Queries : KeyType(q)
    PROVE  MarksInv'
<1>1. inputs' \in 0 .. MaxInputs /\ Key("search")
  BY MarksAssumption DEF MarksInv, TypeOK, KeySearchMove, KeyType, Key
<1>2. query' \in Queries \cup {<<>>}
  BY DEF MarksInv, TypeOK, KeySearchMove, KeyType
<1>3. wait = "none" /\ clock' = clock /\ starts' = starts /\ failed' = failed
        /\ UNCHANGED <<db, worker>>
  BY <1>1 DEF Key, hist
<1>4. UNCHANGED <<queue, wait, after, mode, user, overlay, overlaySel>>
  BY DEF KeySearchMove, KeyType
<1> QED
  BY <1>1, <1>2, <1>3, <1>4, MarksStay DEF MarksInv, TypeOK

LEMMA EndingKeepsMarks ==
    ASSUME MarksInv, worker' = "ended", queue' = <<>>,
           UNCHANGED <<db, wait, after, mode, user, lists, meta, failed>>
    PROVE  MarksInv'
<1>1. QueueOK'
  <2>1. queue' \in Seq(ToSet(queue')) /\ Len(queue') = 0
    BY EmptyQueue, Zenon
  <2> QED
    BY <2>1 DEF QueueOK
<1>2. TypeOK'
  BY DEF MarksInv, TypeOK, user, lists, meta
<1>3. AskOK' /\ Mirror'
  BY DEF AskOK, Mirror
<1>4. DbOK(db)'
  BY DEF MarksInv, DbOK
<1>5. ModeOK' /\ OverlayCurrent'
  BY DEF MarksInv, ModeOK, OverlayCurrent, user, lists
<1> QED
  BY <1>1, <1>2, <1>3, <1>4, <1>5 DEF MarksInv

LEMMA WorkerStartsKeepsMarks ==
    ASSUME MarksInv, WorkerStarts
    PROVE  MarksInv'
<1>1. UNCHANGED <<db, wait, after, mode, user, lists, meta, failed>>
  BY DEF WorkerStarts, hist
<1>2. CASE worker' = "running" /\ UNCHANGED queue
  <2>1. worker = "starting"
    BY DEF WorkerStarts
  <2>2. QueueOK' /\ Asked' = Asked
    BY <1>1, <1>2, <2>1 DEF MarksInv, QueueOK, Asked
  <2>3. TypeOK'
    BY <1>1, <1>2 DEF MarksInv, TypeOK, user, lists, meta
  <2>4. AskOK'
    BY <1>1, <1>2, <2>1, <2>2 DEF MarksInv, AskOK, lists
  <2>5. DbOK(db)'
    BY <1>1 DEF MarksInv, DbOK
  <2>6. Mirror'
    BY <1>1, <1>2, <2>1, <2>2 DEF MarksInv, Mirror, user
  <2>7. ModeOK' /\ OverlayCurrent'
    BY <1>1 DEF MarksInv, ModeOK, OverlayCurrent, user, lists
  <2> QED
    BY <2>2, <2>3, <2>4, <2>5, <2>6, <2>7 DEF MarksInv
<1>3. CASE worker' = "ended" /\ queue' = <<>>
  BY <1>1, <1>3, EndingKeepsMarks
<1> QED
  BY <1>2, <1>3 DEF WorkerStarts

\* The blocks of a database after a block has been written.
Written(f, b) ==
    [h \in DOMAIN f \cup {b.height} |->
        IF h = b.height THEN b.txs
                        ELSE {t \in f[h] : t.hash \notin {u.hash : u \in b.txs}}]

\* Writing a block leaves the marks alone.
LEMMA PersistKeepsRows ==
    ASSUME NEW d, DbOK(d), NEW b
    PROVE  /\ DbOK(Persist(d, b)) /\ Persist(d, b).marks = d.marks
           /\ Persist(d, b).blocks = Written(d.blocks, b)
<1> DEFINE F == Written(d.blocks, b)
<1>1. Persist(d, b) = [d EXCEPT !.blocks = F]
  BY Zenon DEF Persist, Written
<1> HIDE DEF F
<1>2. /\ Persist(d, b) \in [blocks : {F}, marks : {d.marks}]
      /\ Persist(d, b).blocks = F /\ Persist(d, b).marks = d.marks
  BY <1>1 DEF DbOK
<1> QED
  BY <1>2 DEF DbOK, F

LEMMA WorkerPersistsKeepsMarks ==
    ASSUME MarksInv, WorkerPersists
    PROVE  MarksInv'
<1>1. UNCHANGED <<wait, after, mode, user, lists, meta, failed>>
  BY DEF WorkerPersists, hist
<1>2. CASE worker' = "ended" /\ queue' = <<>> /\ UNCHANGED db
  BY <1>1, <1>2, EndingKeepsMarks
<1>3. CASE db' = Persist(db, Head(queue).block) /\ queue' = Tail(queue) /\ UNCHANGED worker
  <2> DEFINE r == Tail(queue)
             n == Len(queue)
  <2>1. worker = "running" /\ queue # <<>> /\ Persists(Head(queue))
    BY DEF WorkerPersists, Serves, Persists
  <2>2. /\ r \in Seq(ToSet(r)) /\ Len(r) = n - 1 /\ n \in Nat \ {0}
        /\ Head(queue) = queue[1] /\ \A i \in 1 .. n - 1 : r[i] = queue[i + 1]
    BY <2>1, Dropped DEF MarksInv, QueueOK
  <2> HIDE DEF r
  <2>3. \A i \in 1 .. n : \/ Persists(queue[i]) /\ queue[i].block \in Blocks
                          \/ wait # "none" /\ i = n
    BY DEF MarksInv, QueueOK
  <2>4. wait # "none" => queue[n].op = wait /\ n >= 2
    <3> SUFFICES ASSUME wait # "none" PROVE queue[n].op = wait /\ n >= 2
      OBVIOUS
    <3>1. queue[n].op = wait /\ wait # "persist"
      BY <2>1 DEF MarksInv, QueueOK, Asked, TypeOK
    <3>2. queue[1].op = "persist"
      BY <2>1, <2>2 DEF Persists
    <3> QED
      BY <2>2, <3>1, <3>2
  <2>5. wait # "none" => r[Len(r)] = Asked
    BY <2>2, <2>4 DEF Asked
  <2>6. \A i \in 1 .. Len(r) : \/ Persists(r[i]) /\ r[i].block \in Blocks
                               \/ wait # "none" /\ i = Len(r)
    BY <2>2, <2>3
  <2>7. queue' = r
    BY <1>3 DEF r
  <2>8. wait # "none" => Len(r) >= 1 /\ r[Len(r)].op = wait
    BY <2>2, <2>4, <2>5 DEF Asked
  <2>9. QueueOK'
    BY <1>1, <1>3, <2>1, <2>2, <2>6, <2>7, <2>8 DEF QueueOK, Asked, Persists
  <2>10. DbOK(db') /\ db'.marks = db.marks
    BY <1>3, PersistKeepsRows DEF MarksInv
  <2>11. wait # "none" => Asked' = Asked
    BY <2>5, <2>7 DEF Asked
  <2>12. TypeOK'
    BY <1>1, <1>3, <2>10 DEF MarksInv, TypeOK, DbOK, user, lists, meta
  <2>13. AskOK'
    BY <1>1, <1>3, <2>11 DEF MarksInv, AskOK, lists
  <2>14. Mirror'
    <3>1. wait \in {"put", "del", "pin"} => Asked' = Asked
      BY <2>11
    <3>d. DbOK(db) /\ DbOK(db') /\ db'.marks = db.marks
      BY <2>10 DEF MarksInv
    <3>2. ASSUME NEW m \in Mark PROVE PutMark(db', m).marks = PutMark(db, m).marks
      <4>1. PutMark(db, m).marks = {k \in db.marks : k.label # m.label} \cup {m}
        BY <3>d, PutKeepsRows
      <4>2. PutMark(db', m).marks = {k \in db'.marks : k.label # m.label} \cup {m}
        BY <3>d, PutKeepsRows
      <4> QED
        BY <3>d, <4>1, <4>2
    <3>3. ASSUME NEW l PROVE DelMark(db', l).marks = DelMark(db, l).marks
      <4>1. DelMark(db, l).marks = {k \in db.marks : k.label # l}
        BY <3>d, DelKeepsRows
      <4>2. DelMark(db', l).marks = {k \in db'.marks : k.label # l}
        BY <3>d, DelKeepsRows
      <4> QED
        BY <3>d, <4>1, <4>2
    <3>4. ASSUME NEW l, NEW p \in BOOLEAN
          PROVE  SetPinned(db', l, p).marks = SetPinned(db, l, p).marks
      <4>1. SetPinned(db, l, p).marks = {Pinned(k, l, p) : k \in db.marks}
        BY <3>d, PinKeepsRows
      <4>2. SetPinned(db', l, p).marks = {Pinned(k, l, p) : k \in db'.marks}
        BY <3>d, PinKeepsRows
      <4> QED
        BY <3>d, <4>1, <4>2
    <3>5. /\ wait = "put" => Asked.mark \in Mark
          /\ wait = "pin" => Asked.pinned \in BOOLEAN
      BY <2>1 DEF MarksInv, AskOK
    <3>6. ~ failed =>
            /\ wait \in {"none", "search", "get"} => ToSet(marks) = db.marks
            /\ wait = "put" => ToSet(marks) = PutMark(db, Asked.mark).marks
            /\ wait = "del" => ToSet(marks) = DelMark(db, Asked.label).marks
            /\ wait = "pin" => ToSet(marks) = SetPinned(db, Asked.label, Asked.pinned).marks
      BY <2>1 DEF MarksInv, Mirror
    <3>7. /\ wait = "put" => PutMark(db', Asked.mark).marks = PutMark(db, Asked.mark).marks
          /\ DelMark(db', Asked.label).marks = DelMark(db, Asked.label).marks
          /\ wait = "pin" => SetPinned(db', Asked.label, Asked.pinned).marks
                                = SetPinned(db, Asked.label, Asked.pinned).marks
      BY <3>2, <3>3, <3>4, <3>5
    <3> QED
      BY <1>1, <1>3, <2>10, <3>1, <3>6, <3>7 DEF Mirror, user
  <2>15. ModeOK' /\ OverlayCurrent'
    BY <1>1 DEF MarksInv, ModeOK, OverlayCurrent, user, lists
  <2>16. DbOK(db)'
    BY <2>10
  <2> QED
    BY <2>9, <2>12, <2>13, <2>14, <2>15, <2>16 DEF MarksInv
<1> QED
  BY <1>2, <1>3 DEF WorkerPersists

\* With nothing on its way and nobody waiting, the channel is in order.
LEMMA NothingAsked ==
    ASSUME queue' = <<>>, wait' = "none"
    PROVE  QueueOK' /\ AskOK'
<1>1. queue' \in Seq(ToSet(queue')) /\ Len(queue') = 0
  BY EmptyQueue, Zenon
<1> QED
  BY <1>1 DEF QueueOK, AskOK

\* The loop goes on after an answer about the marks, once the statement has run or
\* has failed.
LEMMA ContinueKeepsMarks ==
    ASSUME MarksInv, wait \in {"put", "del", "pin"}, Continue(<<>>),
           worker # "starting", UNCHANGED <<worker, meta>>, DbOK(db'), failed' \in BOOLEAN,
           worker # "ended" /\ ~ failed' => ToSet(marks) = db'.marks
    PROVE  MarksInv'
<1>1. worker' = worker /\ clock' = clock /\ inputs' = inputs /\ starts' = starts
  BY DEF meta
<1>2. CASE after = Null
  <2>1. /\ wait' = "none" /\ queue' = <<>>
        /\ UNCHANGED <<after, mode, user, lists>>
    BY <1>2, MarksAssumption DEF Continue
  <2>2. mode # "marks"
    BY <1>2, MarksAssumption DEF MarksInv, ModeOK
  <2>3. QueueOK' /\ AskOK'
    BY <2>1, NothingAsked
  <2>4. TypeOK'
    BY <1>1, <2>1 DEF MarksInv, TypeOK, DbOK, user, lists
  <2>5. Mirror'
    BY <1>1, <2>1 DEF Mirror, user
  <2>6. ModeOK' /\ OverlayCurrent'
    BY <2>1, <2>2 DEF MarksInv, ModeOK, OverlayCurrent, user, lists
  <2>7. DbOK(db)'
    OBVIOUS
  <2> QED
    BY <2>3, <2>4, <2>5, <2>6, <2>7 DEF MarksInv
<1>3. CASE after = "reopen"
  <2>1. /\ wait' = "none" /\ queue' = <<>> /\ after' = Null /\ mode' = "marks"
        /\ overlay' = List(marks) /\ overlaySel' = 0
        /\ UNCHANGED <<user, query, results, resultSel>>
    BY <1>3, MarksAssumption DEF Continue
  <2>2. overlay' \in Seq(Mark) /\ ToSet(overlay') = ToSet(marks)
    BY <2>1, ListHasTheMarks DEF MarksInv, TypeOK
  <2>3. QueueOK' /\ AskOK'
    BY <2>1, NothingAsked
  <2>4. TypeOK'
    BY <1>1, <2>1, <2>2 DEF MarksInv, TypeOK, DbOK, user
  <2>5. Mirror'
    BY <1>1, <2>1 DEF Mirror, user
  <2>6. ModeOK' /\ OverlayCurrent'
    BY <2>1, <2>2 DEF MarksInv, ModeOK, OverlayCurrent, user
  <2>7. DbOK(db)'
    OBVIOUS
  <2> QED
    BY <2>3, <2>4, <2>5, <2>6, <2>7 DEF MarksInv
<1>4. CASE after \in ToSet(LABELS)
  <2> DEFINE m == [op |-> "pin", label |-> after, pinned |-> TRUE]
  <2>0. after # Null /\ after # "reopen"
    BY <1>4, MarksAssumption
  <2>1. /\ Pin(after, TRUE)
        /\ wait' = "pin" /\ after' = Null
        /\ queue' = IF worker = "ended" THEN <<>> ELSE Append(<<>>, m)
        /\ UNCHANGED <<mode, cursor, lists>>
    BY <2>0, Zenon DEF Continue
  <2>2. mode # "marks"
    BY <2>0 DEF MarksInv, ModeOK
  <2>3. UniqueMarks(marks)
    BY DEF MarksInv, TypeOK, UniqueMarks
  <2>4. /\ UniqueMarks(marks') /\ Len(marks') = Len(marks)
        /\ ToSet(marks') = {Pinned(n, after, TRUE) : n \in ToSet(marks)}
    BY <2>1, <2>3, PinMatches
  <2>5. QueueOK' /\ (worker # "ended" => Asked' = m)
    <3>1. CASE worker = "ended"
      <4>1. queue' = <<>>
        BY <2>1, <3>1
      <4>2. queue' \in Seq(ToSet(queue')) /\ Len(queue') = 0
        BY <4>1, EmptyQueue, Zenon
      <4> QED
        BY <1>1, <3>1, <4>1, <4>2 DEF QueueOK
    <3>2. CASE worker # "ended"
      <4> DEFINE r == Append(<<>>, m)
      <4>1. queue' = r
        BY <2>1, <3>2
      <4>2. r \in Seq(ToSet(r)) /\ Len(r) = 1 /\ r[Len(r)] = m
        <5> DEFINE e == <<>>
        <5>1. e \in Seq(ToSet(e)) /\ Len(e) = 0
          BY EmptyQueue
        <5> HIDE DEF m, e
        <5>2. /\ Append(e, m) \in Seq(ToSet(Append(e, m))) /\ Len(Append(e, m)) = Len(e) + 1
              /\ Append(e, m)[Len(Append(e, m))] = m
          BY <5>1, Appended, Zenon
        <5>3. Len(e) + 1 = 1
          BY <5>1
        <5> QED
          BY <5>2, <5>3, Zenon DEF e
      <4> HIDE DEF r
      <4>3. m.op = "pin"
        OBVIOUS
      <4> HIDE DEF m
      <4>4. Asked' = m /\ Len(queue') = 1
        BY <4>1, <4>2 DEF Asked
      <4> QED
        BY <1>1, <2>1, <3>2, <4>1, <4>2, <4>3, <4>4 DEF QueueOK
    <3> QED
      BY <3>1, <3>2
  <2>6. TypeOK'
    BY <1>1, <2>1, <2>4 DEF MarksInv, TypeOK, DbOK, lists, UniqueMarks
  <2>7. worker # "ended" => Asked'.label = after /\ Asked'.pinned = TRUE
    BY <2>5
  <2>8. AskOK'
    BY <1>1, <2>1, <2>7 DEF AskOK
  <2>9. Mirror'
    <3>1. SetPinned(db', after, TRUE).marks = {Pinned(n, after, TRUE) : n \in db'.marks}
      BY PinKeepsRows
    <3> QED
      BY <1>1, <2>1, <2>4, <2>7, <3>1 DEF Mirror
  <2>10. ModeOK' /\ OverlayCurrent'
    BY <2>1, <2>2 DEF MarksInv, ModeOK, OverlayCurrent, lists
  <2>11. DbOK(db)'
    OBVIOUS
  <2> QED
    BY <2>5, <2>6, <2>8, <2>9, <2>10, <2>11 DEF MarksInv
<1> QED
  BY <1>2, <1>3, <1>4 DEF Continue

LEMMA WorkerWritesKeepsMarks ==
    ASSUME MarksInv, WorkerWrites
    PROVE  MarksInv'
<1> DEFINE m == Head(queue)
<1>1. worker = "running" /\ queue # <<>> /\ m.op \in {"put", "del", "pin"}
        /\ UNCHANGED <<worker, meta, received>> /\ Continue(Tail(queue))
  BY DEF WorkerWrites, Serves
<1>2. ~ Persists(m)
  BY <1>1 DEF Persists
<1>3. Tail(queue) = <<>> /\ m = Asked /\ Asked.op = wait
  BY <1>1, <1>2, ServedIsAsked DEF MarksInv
<1>4. Continue(<<>>) /\ wait \in {"put", "del", "pin"} /\ m.op = wait
  BY <1>1, <1>3
<1>5. /\ wait = "put" => m.mark \in Mark
      /\ wait = "pin" => m.pinned \in BOOLEAN
  BY <1>1, <1>3 DEF MarksInv, AskOK
<1>6. DbOK(db)
  BY DEF MarksInv
<1>7. CASE failed' = TRUE /\ UNCHANGED db
  BY <1>1, <1>4, <1>6, <1>7, ContinueKeepsMarks
<1>8. CASE UNCHANGED failed
           /\ db' = CASE m.op = "put" -> PutMark(db, m.mark)
                      [] m.op = "del" -> DelMark(db, m.label)
                      [] m.op = "pin" -> SetPinned(db, m.label, m.pinned)
  <2> HIDE DEF m
  <2>1. /\ wait = "put" => db' = PutMark(db, m.mark)
        /\ wait = "del" => db' = DelMark(db, m.label)
        /\ wait = "pin" => db' = SetPinned(db, m.label, m.pinned)
    <3>1. db' = CASE wait = "put" -> PutMark(db, m.mark)
                  [] wait = "del" -> DelMark(db, m.label)
                  [] wait = "pin" -> SetPinned(db, m.label, m.pinned)
      BY <1>4, <1>8, Zenon
    <3>2. "put" # "del" /\ "put" # "pin" /\ "del" # "pin"
      OBVIOUS
    <3>3. wait = "put" => db' = PutMark(db, m.mark)
      BY <3>1, <3>2, Zenon
    <3>4. wait = "del" => db' = DelMark(db, m.label)
      BY <3>1, <3>2, Zenon
    <3>5. wait = "pin" => db' = SetPinned(db, m.label, m.pinned)
      BY <3>1, <3>2, Zenon
    <3> QED
      BY <3>3, <3>4, <3>5
  <2>2. DbOK(db')
    BY <1>4, <1>5, <1>6, <2>1, PutKeepsRows, DelKeepsRows, PinKeepsRows
  <2>3. failed' \in BOOLEAN
    BY <1>8 DEF MarksInv, TypeOK
  <2>4. ~ failed' => ToSet(marks) = db'.marks
    BY <1>1, <1>3, <1>4, <1>8, <2>1 DEF MarksInv, Mirror
  <2> QED
    BY <1>1, <1>4, <2>2, <2>3, <2>4, ContinueKeepsMarks
<1> QED
  BY <1>7, <1>8 DEF WorkerWrites

\* The marks read at the start replace those in memory: none, when the read fails.
LEMMA ListedKeepsMarks ==
    ASSUME MarksInv, wait = "list", NEW ms, UniqueMarks(ms), Listed(ms),
           queue' = <<>>, wait' = "none", UNCHANGED <<db, worker, after, meta>>,
           failed' \in BOOLEAN, worker # "ended" /\ ~ failed' => ToSet(ms) = db.marks
    PROVE  MarksInv'
<1>1. marks' = ms /\ mode' = "normal" /\ cursor = 0 /\ UNCHANGED <<cursor, lists>>
  BY DEF Listed, MarksInv, ModeOK
<1>2. QueueOK' /\ AskOK'
  BY NothingAsked
<1>3. TypeOK'
  BY <1>1 DEF MarksInv, TypeOK, UniqueMarks, lists, meta
<1>4. DbOK(db)'
  BY DEF MarksInv, DbOK
<1>5. Mirror'
  BY <1>1 DEF Mirror
<1>6. ModeOK' /\ OverlayCurrent'
  BY <1>1 DEF MarksInv, ModeOK, OverlayCurrent, lists
<1> QED
  BY <1>2, <1>3, <1>4, <1>5, <1>6 DEF MarksInv

LEMMA NoMarks == UniqueMarks(<<>>)
BY DEF UniqueMarks

LEMMA WorkerListsKeepsMarks ==
    ASSUME MarksInv, WorkerLists
    PROVE  MarksInv'
<1>1. worker = "running" /\ queue # <<>> /\ Head(queue).op = "list"
  BY DEF WorkerLists, Serves
<1>2. Tail(queue) = <<>> /\ wait = "list"
  <2>1. ~ Persists(Head(queue))
    BY <1>1 DEF Persists
  <2> QED
    BY <1>1, <2>1, ServedIsAsked DEF MarksInv
<1>3. queue' = <<>> /\ wait' = "none" /\ UNCHANGED <<db, worker, after, meta>>
  BY <1>2 DEF WorkerLists
<1>4. DbOK(db)
  BY DEF MarksInv
<1>5. ASSUME NEW ms \in ListMarks(db), Listed(ms), UNCHANGED failed
      PROVE  MarksInv'
  <2>1. UniqueMarks(ms) /\ ToSet(ms) = db.marks
    BY <1>4, ListedMarks
  <2>2. failed' \in BOOLEAN
    BY <1>5 DEF MarksInv, TypeOK
  <2> QED
    BY <1>2, <1>3, <1>5, <2>1, <2>2, ListedKeepsMarks
<1>6. CASE Listed(<<>>) /\ failed' = TRUE
  BY <1>2, <1>3, <1>6, NoMarks, ListedKeepsMarks
<1> QED
  BY <1>5, <1>6 DEF WorkerLists

\* An answer to a search or to a request for a transaction leaves the marks alone.
LEMMA AnswerKeepsMarks ==
    ASSUME MarksInv, wait \in {"search", "get"}, queue' = <<>>, wait' = "none",
           UNCHANGED <<db, worker, after, meta, failed>>,
           \/ \E hits : Found(hits)
           \/ \E raw : Opened(raw)
    PROVE  MarksInv'
<1>1. UNCHANGED <<user, overlay, overlaySel>> /\ mode' \in {mode, "normal"}
        /\ query' \in {query, <<>>}
  BY DEF Found, Opened, CloseSearch, lists
<1>2. mode # "marks"
  BY DEF MarksInv, ModeOK
<1>3. QueueOK' /\ AskOK'
  BY NothingAsked
<1>4. TypeOK'
  BY <1>1 DEF MarksInv, TypeOK, user, meta
<1>5. DbOK(db)'
  BY DEF MarksInv, DbOK
<1>6. Mirror'
  BY <1>1 DEF MarksInv, Mirror, user
<1>7. ModeOK' /\ OverlayCurrent'
  BY <1>1, <1>2 DEF MarksInv, ModeOK, OverlayCurrent, user
<1> QED
  BY <1>3, <1>4, <1>5, <1>6, <1>7 DEF MarksInv

LEMMA ReadsKeepMarks ==
    ASSUME MarksInv, WorkerSearches \/ WorkerGets \/ WorkerFailsRead
    PROVE  MarksInv'
<1>1. worker = "running" /\ queue # <<>> /\ Head(queue).op \in {"search", "get"}
  BY DEF WorkerSearches, WorkerGets, WorkerFailsRead, Serves
<1>2. Tail(queue) = <<>> /\ wait \in {"search", "get"}
  <2>1. ~ Persists(Head(queue))
    BY <1>1 DEF Persists
  <2>2. Tail(queue) = <<>> /\ Head(queue) = Asked /\ Asked.op = wait
    BY <1>1, <2>1, ServedIsAsked DEF MarksInv
  <2> QED
    BY <1>1, <2>2
<1>3. queue' = Tail(queue) /\ wait' = "none" /\ UNCHANGED <<db, worker, after, meta, hist>>
  BY DEF WorkerSearches, WorkerGets, WorkerFailsRead
<1>4. (\E hits : Found(hits)) \/ (\E raw : Opened(raw))
  BY Zenon DEF WorkerSearches, WorkerGets, WorkerFailsRead
<1>5. queue' = <<>> /\ UNCHANGED failed
  BY <1>2, <1>3 DEF hist
<1> QED
  BY <1>2, <1>3, <1>4, <1>5, AnswerKeepsMarks

LEMMA HangUpKeepsMarks ==
    ASSUME MarksInv, HangUp
    PROVE  MarksInv'
<1>1. worker = "ended" /\ queue = <<>> /\ UNCHANGED <<db, worker, meta, failed>>
        /\ DbOK(db) /\ failed' \in BOOLEAN
  BY DEF HangUp, hist, MarksInv, QueueOK, TypeOK
<1>2. CASE wait \in {"put", "del", "pin"} /\ Continue(queue)
  <2>1. Continue(<<>>) /\ DbOK(db')
    BY <1>1, <1>2
  <2> QED
    BY <1>1, <1>2, <2>1, ContinueKeepsMarks
<1>3. CASE wait = "list" /\ Listed(<<>>) /\ wait' = "none" /\ UNCHANGED <<queue, after>>
  BY <1>1, <1>3, NoMarks, ListedKeepsMarks
<1>4. CASE wait = "search" /\ Found(<<>>) /\ wait' = "none" /\ UNCHANGED <<queue, after>>
  BY <1>1, <1>4, AnswerKeepsMarks
<1>5. CASE wait = "get" /\ Opened(Null) /\ wait' = "none" /\ UNCHANGED <<queue, after>>
  BY <1>1, <1>5, AnswerKeepsMarks
<1> QED
  BY <1>2, <1>3, <1>4, <1>5 DEF HangUp

LEMMA ReceiveKeepsMarks ==
    ASSUME MarksInv, NEW b \in Blocks, Receive(b)
    PROVE  MarksInv'
<1> DEFINE m == [op |-> "persist", block |-> b]
           r == Append(queue, m)
<1>1. /\ wait = "none" /\ inputs' \in 0 .. MaxInputs /\ Tell(m)
      /\ UNCHANGED <<db, worker, wait, after, mode, user, lists, clock, starts, failed>>
  BY MarksAssumption DEF Receive, MarksInv, TypeOK
<1>2. Persists(m) /\ m.block \in Blocks
  BY DEF Persists
<1> HIDE DEF m
<1>3. QueueOK'
  <2>1. CASE worker = "ended"
    <3>1. queue' = queue
      BY <1>1, <2>1 DEF Tell
    <3> QED
      BY <1>1, <3>1, QueueSame DEF MarksInv
  <2>2. CASE worker # "ended"
    <3>1. queue' = r
      BY <1>1, <2>2 DEF Tell
    <3>2. /\ r \in Seq(ToSet(r)) /\ Len(r) = Len(queue) + 1 /\ Len(queue) \in Nat
          /\ r[Len(r)] = m /\ \A i \in 1 .. Len(queue) : r[i] = queue[i]
      BY Appended DEF MarksInv, QueueOK
    <3> HIDE DEF r
    <3>3. \A i \in 1 .. Len(queue) : Persists(queue[i]) /\ queue[i].block \in Blocks
      BY <1>1 DEF MarksInv, QueueOK
    <3>4. \A i \in 1 .. Len(r) : Persists(r[i]) /\ r[i].block \in Blocks
      BY <1>2, <3>2, <3>3
    <3> QED
      BY <1>1, <2>2, <3>1, <3>2, <3>4 DEF QueueOK, Persists
  <2> QED
    BY <2>1, <2>2
<1>4. TypeOK'
  BY <1>1 DEF MarksInv, TypeOK, user, lists
<1>5. AskOK'
  BY <1>1 DEF AskOK
<1>6. DbOK(db)'
  BY <1>1 DEF MarksInv, DbOK
<1>7. Mirror'
  BY <1>1 DEF MarksInv, Mirror, user
<1>8. ModeOK' /\ OverlayCurrent'
  BY <1>1 DEF MarksInv, ModeOK, OverlayCurrent, user, lists
<1> QED
  BY <1>3, <1>4, <1>5, <1>6, <1>7, <1>8 DEF MarksInv

\* What every key has in common.
LEMMA Pressed ==
    ASSUME MarksInv, NEW in, Key(in)
    PROVE  /\ wait = "none" /\ mode = in /\ inputs' \in 0 .. MaxInputs
           /\ UNCHANGED <<db, worker, clock, starts, failed>>
           /\ DbOK(db)'
           /\ worker # "ended" /\ ~ failed => ToSet(marks) = db.marks
BY MarksAssumption DEF Key, hist, MarksInv, TypeOK, DbOK, Mirror

\* A key that asks the worker nothing.
LEMMA QuietKey ==
    ASSUME MarksInv, NEW in, Key(in), UNCHANGED <<queue, wait, after, marks>>,
           mode' \in {"normal", "search", "marks"}, cursor' \in Nat,
           cursor' = 0 \/ cursor' < Len(marks),
           overlay' \in Seq(Mark), overlaySel' \in Nat, query' \in Queries \cup {<<>>},
           mode' = "marks" => /\ ToSet(overlay') = ToSet(marks)
                              /\ overlaySel' = 0 \/ overlaySel' < Len(overlay')
    PROVE  MarksInv'
<1>1. /\ wait = "none" /\ inputs' \in 0 .. MaxInputs
      /\ UNCHANGED <<db, worker, clock, starts, failed>>
      /\ DbOK(db)'
      /\ worker # "ended" /\ ~ failed => ToSet(marks) = db.marks
  BY Pressed
<1>2. QueueOK' /\ AskOK'
  BY <1>1, QueueSame DEF MarksInv, AskOK
<1>3. TypeOK'
  BY <1>1 DEF MarksInv, TypeOK
<1>4. Mirror'
  BY <1>1 DEF Mirror
<1>5. ModeOK' /\ OverlayCurrent'
  BY <1>1 DEF ModeOK, OverlayCurrent
<1> QED
  BY <1>1, <1>2, <1>3, <1>4, <1>5 DEF MarksInv

LEMMA QuietKeysKeepMarks ==
    ASSUME MarksInv,
           KeyJump \/ KeyOpenMarks \/ KeyMarksMove \/ KeyCloseMarks \/ KeySearch \/ KeyCloseSearch
    PROVE  MarksInv'
<1>1. /\ marks \in Seq(Mark) /\ Len(marks) \in Nat /\ overlay \in Seq(Mark)
      /\ cursor \in Nat /\ overlaySel \in Nat /\ query \in Queries \cup {<<>>}
      /\ cursor = 0 \/ cursor < Len(marks)
      /\ mode \in {"load", "normal", "search", "marks", "quit"}
  BY DEF MarksInv, TypeOK, ModeOK
<1>2. CASE KeyJump
  <2>1. Key("normal") /\ mode = "normal" /\ UNCHANGED <<queue, wait, after, mode, marks, lists>>
    BY <1>2 DEF KeyJump, Key
  <2>2. Len(marks) \in Nat \ {0}
    BY <1>1, <1>2, EmptySeq DEF KeyJump
  <2>3. cursor' \in Nat /\ cursor' < Len(marks)
    <3>1. CASE cursor' = (cursor + 1) % Len(marks)
      <4>1. \A a \in Nat, n \in Nat \ {0} : a % n \in Nat /\ a % n < n
        OBVIOUS
      <4> QED
        BY <1>1, <2>2, <3>1, <4>1
    <3>2. CASE cursor' = IF cursor = 0 THEN Len(marks) - 1 ELSE cursor - 1
      BY <1>1, <2>2, <3>2
    <3> QED
      BY <1>2, <3>1, <3>2 DEF KeyJump
  <2> QED
    BY <1>1, <2>1, <2>3, QuietKey DEF lists
<1>3. CASE KeyOpenMarks
  <2>1. /\ Key("normal") /\ mode' = "marks" /\ overlay' = List(marks) /\ overlaySel' = 0
        /\ UNCHANGED <<queue, wait, after, user, query>>
    BY <1>3 DEF KeyOpenMarks
  <2>2. overlay' \in Seq(Mark) /\ ToSet(overlay') = ToSet(marks)
    BY <1>1, <2>1, ListHasTheMarks
  <2> QED
    BY <1>1, <2>1, <2>2, QuietKey DEF user
<1>4. CASE KeyMarksMove
  <2>1. /\ Key("marks") /\ mode = "marks" /\ wait = "none"
        /\ UNCHANGED <<queue, wait, after, mode, user, overlay, query>>
    BY <1>4 DEF KeyMarksMove, Key
  <2>2. ToSet(overlay) = ToSet(marks) /\ (overlaySel = 0 \/ overlaySel < Len(overlay))
    BY <2>1 DEF MarksInv, OverlayCurrent
  <2>3. overlaySel' \in Nat /\ overlaySel' < Len(overlay)
    BY <1>1, <1>4, <2>2 DEF KeyMarksMove
  <2> QED
    BY <1>1, <2>1, <2>2, <2>3, QuietKey DEF user
<1>5. CASE KeyCloseMarks
  <2>1. /\ Key("marks") /\ mode' = "normal" /\ overlay' = <<>> /\ overlaySel' = 0
        /\ UNCHANGED <<queue, wait, after, user, query>>
    BY <1>5 DEF KeyCloseMarks
  <2>2. overlay' \in Seq(Mark)
    BY <2>1
  <2> QED
    BY <1>1, <2>1, <2>2, QuietKey DEF user
<1>6. CASE KeySearch
  <2>1. /\ Key("normal") /\ mode' = "search" /\ query' = <<>>
        /\ UNCHANGED <<queue, wait, after, user, overlay, overlaySel>>
    BY <1>6 DEF KeySearch
  <2> QED
    BY <1>1, <2>1, QuietKey DEF user
<1>7. CASE KeyCloseSearch
  <2>1. /\ Key("search") /\ mode' = "normal" /\ query' = <<>>
        /\ UNCHANGED <<queue, wait, after, user, overlay, overlaySel>>
    BY <1>7 DEF KeyCloseSearch, CloseSearch
  <2> QED
    BY <1>1, <2>1, QuietKey DEF user
<1> QED
  BY <1>2, <1>3, <1>4, <1>5, <1>6, <1>7

\* A key that asks the worker for something: q is what the marks and the rows are
\* both told.
LEMMA AskingKey ==
    ASSUME MarksInv, NEW in, Key(in), NEW m, Ask(m),
           m.op \in {"put", "del", "pin", "search", "get"},
           m.op = "put" => m.mark \in Mark,
           m.op = "pin" => m.pinned \in BOOLEAN,
           m.op = "search" => m.query = query,
           UNCHANGED <<mode, lists>>, after' \in ToSet(LABELS) \cup {Null, "reopen"},
           UniqueMarks(marks'), cursor' \in Nat, cursor' = 0 \/ cursor' < Len(marks'),
           mode = "marks" => m.op = "del" /\ after' = "reopen",
           ToSet(marks) = db.marks =>
               /\ m.op \in {"search", "get"} => ToSet(marks') = db.marks
               /\ m.op = "put" => ToSet(marks') = PutMark(db, m.mark).marks
               /\ m.op = "del" => ToSet(marks') = DelMark(db, m.label).marks
               /\ m.op = "pin" => ToSet(marks') = SetPinned(db, m.label, m.pinned).marks
    PROVE  MarksInv'
<1>1. /\ wait = "none" /\ inputs' \in 0 .. MaxInputs
      /\ UNCHANGED <<db, worker, clock, starts, failed>>
      /\ DbOK(db)'
      /\ worker # "ended" /\ ~ failed => ToSet(marks) = db.marks
  BY Pressed
<1>2. QueueOK' /\ wait' = m.op /\ (worker # "ended" => Asked' = m)
  BY <1>1, AskKeepsQueue DEF MarksInv
<1>3. TypeOK'
  BY <1>1, <1>2 DEF MarksInv, TypeOK, lists, UniqueMarks
<1>4. AskOK'
  BY <1>1, <1>2 DEF AskOK, lists
<1>5. Mirror'
  BY <1>1, <1>2 DEF Mirror
<1>6. ModeOK' /\ OverlayCurrent'
  BY <1>1, <1>2 DEF MarksInv, ModeOK, OverlayCurrent, lists
<1> QED
  BY <1>1, <1>2, <1>3, <1>4, <1>5, <1>6 DEF MarksInv

\* The mark that add_or_replace writes for a context.
NewMark(l, c) ==
    [label |-> l, pane |-> c.pane, height |-> c.height, tx |-> c.tx, when |-> clock,
     pinned |-> \E i \in Labelled(l) : marks[i].pinned]

LEMMA NewMarkIsAMark ==
    ASSUME MarksInv, NEW l \in ToSet(LABELS), NEW c \in Contexts
    PROVE  NewMark(l, c) \in Mark /\ NewMark(l, c).label = l
<1>1. c.pane \in 0 .. 2 /\ c.height \in Nat \cup {Null} /\ clock \in 0 .. MaxClock
  BY MarksAssumption DEF MarksInv, TypeOK
<1> DEFINE p == \E i \in Labelled(l) : marks[i].pinned
<1>2. p \in BOOLEAN
  BY Zenon
<1>3. NewMark(l, c) = [label |-> l, pane |-> c.pane, height |-> c.height, tx |-> c.tx,
                       when |-> clock, pinned |-> p]
  BY Zenon DEF NewMark
<1>4. c.tx \in {d.tx : d \in Contexts} \cup {Null}
  OBVIOUS
<1> HIDE DEF p
<1> QED
  BY <1>1, <1>2, <1>3, <1>4 DEF Mark

LEMMA AddingKeepsMarks ==
    ASSUME MarksInv, Key("normal"), NEW c \in Contexts, AddOrReplace(NextAutoLabel, c),
           after' \in ToSet(LABELS) \cup {Null, "reopen"}, UNCHANGED <<mode, lists>>
    PROVE  MarksInv'
<1> DEFINE l == NextAutoLabel
           m == NewMark(l, c)
           a == [op |-> "put", mark |-> m]
<1>1. UniqueMarks(marks) /\ mode = "normal" /\ DbOK(db)
  BY DEF MarksInv, TypeOK, UniqueMarks, Key
<1>2. l \in ToSet(LABELS)
  BY <1>1, NextLabelIsALabel DEF UniqueMarks
<1> HIDE DEF l
<1>3. m \in Mark /\ m.label = l
  BY <1>2, NewMarkIsAMark
<1>4. /\ marks' = IF Labelled(l) = {} THEN Append(marks, m)
                  ELSE [i \in DOMAIN marks |-> IF i \in Labelled(l) THEN m ELSE marks[i]]
      /\ cursor' = 0
      /\ Ask([op |-> "put", mark |-> m])
  <2>1. AddOrReplace(l, c)
    BY DEF l
  <2> QED
    BY <2>1, Zenon DEF AddOrReplace, NewMark
<1> HIDE DEF m
<1>5. UniqueMarks(marks') /\ ToSet(marks') = {n \in ToSet(marks) : n.label # m.label} \cup {m}
  BY <1>1, <1>3, <1>4, PutMatches
<1>6. PutMark(db, m).marks = {n \in db.marks : n.label # m.label} \cup {m}
  BY <1>1, <1>3, PutKeepsRows
<1>7. a.op = "put" /\ a.mark = m /\ Ask(a)
  BY <1>4
<1> HIDE DEF a
<1> QED
  BY <1>1, <1>3, <1>4, <1>5, <1>6, <1>7, AskingKey

LEMMA KeyMarkKeepsMarks ==
    ASSUME MarksInv, NEW c \in Contexts, KeyMark(c)
    PROVE  MarksInv'
BY AddingKeepsMarks DEF KeyMark, MarksInv, TypeOK

LEMMA KeyPinKeepsMarks ==
    ASSUME MarksInv, NEW c \in Contexts, KeyPin(c)
    PROVE  MarksInv'
<1> DEFINE same == {i \in DOMAIN marks : SameContext(marks[i], c)}
           k == CHOOSE i \in same : \A j \in same : i <= j
           m == marks[k]
           a == [op |-> "pin", label |-> m.label, pinned |-> ~ m.pinned]
<1>1. Key("normal") /\ UNCHANGED <<mode, lists>>
  BY DEF KeyPin
<1>2. /\ UniqueMarks(marks) /\ mode = "normal" /\ DbOK(db)
      /\ cursor \in Nat /\ (cursor = 0 \/ cursor < Len(marks))
      /\ after \in ToSet(LABELS) \cup {Null, "reopen"}
  BY <1>1 DEF MarksInv, TypeOK, ModeOK, UniqueMarks, Key
<1>3. CASE same # {} /\ Pin(m.label, ~ m.pinned)
           /\ Ask([op |-> "pin", label |-> m.label, pinned |-> ~ m.pinned])
           /\ UNCHANGED <<after, cursor>>
  <2>1. same \subseteq Nat /\ same \subseteq DOMAIN marks /\ \A i \in DOMAIN marks : marks[i] \in Mark
    BY <1>2 DEF UniqueMarks
  <2> HIDE DEF same
  <2>2. k \in same
    BY <1>3, <2>1, LeastExists, Zenon
  <2> HIDE DEF k
  <2>3. m \in Mark
    BY <2>1, <2>2
  <2> HIDE DEF m
  <2>4. (~ m.pinned) \in BOOLEAN
    <3>1. \A b \in BOOLEAN : (~ b) \in BOOLEAN
      OBVIOUS
    <3>2. m.pinned \in BOOLEAN
      BY <2>3 DEF Mark
    <3> QED
      BY <3>1, <3>2, Zenon
  <2> DEFINE p == ~ m.pinned
             l == m.label
  <2>5. Pin(l, p) /\ a.op = "pin" /\ a.label = l /\ a.pinned = p /\ Ask(a) /\ p \in BOOLEAN
    BY <1>3, <2>4, Zenon
  <2> HIDE DEF a, p, l
  <2>6. /\ UniqueMarks(marks') /\ Len(marks') = Len(marks)
        /\ ToSet(marks') = {Pinned(n, l, p) : n \in ToSet(marks)}
    BY <1>2, <2>5, PinMatches
  <2>7. SetPinned(db, l, p).marks = {Pinned(n, l, p) : n \in db.marks}
    BY <1>2, <2>5, PinKeepsRows
  <2>8. cursor' = cursor /\ after' = after
    BY <1>3
  <2> QED
    BY <1>1, <1>2, <2>5, <2>6, <2>7, <2>8, AskingKey
<1>4. CASE same = {} /\ AddOrReplace(NextAutoLabel, c) /\ after' = NextAutoLabel
  <2>1. NextAutoLabel \in ToSet(LABELS)
    BY <1>2, NextLabelIsALabel DEF UniqueMarks
  <2> QED
    BY <1>1, <1>4, <2>1, AddingKeepsMarks
<1> QED
  BY <1>3, <1>4, Zenon DEF KeyPin

LEMMA KeyDeleteKeepsMarks ==
    ASSUME MarksInv, KeyDelete
    PROVE  MarksInv'
<1> DEFINE l == overlay[overlaySel + 1].label
           left == Without(l)
           a == [op |-> "del", label |-> l]
<1>1. Key("marks") /\ UNCHANGED <<mode, lists>> /\ RemoveByLabel(l) /\ after' = "reopen"
  BY DEF KeyDelete
<1>2. /\ UniqueMarks(marks) /\ DbOK(db)
      /\ cursor \in Nat /\ (cursor = 0 \/ cursor < Len(marks))
  BY DEF MarksInv, TypeOK, ModeOK, UniqueMarks
<1> HIDE DEF l
<1>3. /\ marks' = left
      /\ cursor' = IF cursor >= Len(left) /\ cursor > 0 THEN Len(left) - 1 ELSE cursor
      /\ Ask(a)
  BY <1>1 DEF RemoveByLabel
<1>4. a.op = "del" /\ a.label = l
  OBVIOUS
<1> HIDE DEF left, a
<1>5. /\ UniqueMarks(left) /\ Len(left) >= Len(marks) - 1
      /\ ToSet(left) = {n \in ToSet(marks) : n.label # l}
  BY <1>2, WithoutMatches DEF left
<1>6. Len(left) \in Nat /\ Len(marks) \in Nat
  BY <1>2, <1>5 DEF UniqueMarks
<1>7. cursor' \in Nat /\ (cursor' = 0 \/ cursor' < Len(left))
  BY <1>2, <1>3, <1>5, <1>6
<1>8. DelMark(db, l).marks = {n \in db.marks : n.label # l}
  BY <1>2, DelKeepsRows
<1> QED
  BY <1>1, <1>3, <1>4, <1>5, <1>7, <1>8, AskingKey

LEMMA KeyEnterKeepsMarks ==
    ASSUME MarksInv, KeyEnter
    PROVE  MarksInv'
<1>1. Key("search") /\ mode = "search" /\ UNCHANGED <<after, mode, user, lists>>
  BY DEF KeyEnter, Key
<1>2. /\ UniqueMarks(marks) /\ cursor \in Nat /\ (cursor = 0 \/ cursor < Len(marks))
      /\ after \in ToSet(LABELS) \cup {Null, "reopen"}
  BY DEF MarksInv, TypeOK, ModeOK, UniqueMarks
<1>3. ASSUME NEW m, Ask(m), m.op \in {"search", "get"}, m.op = "search" => m.query = query
      PROVE  MarksInv'
  BY <1>1, <1>2, <1>3, AskingKey DEF user
<1>4. CASE Ask([op |-> "get", hash |-> results[resultSel + 1].hash])
  <2> DEFINE a == [op |-> "get", hash |-> results[resultSel + 1].hash]
  <2>1. a.op = "get" /\ Ask(a)
    BY <1>4
  <2> HIDE DEF a
  <2> QED
    BY <1>3, <2>1
<1>5. CASE Ask([op |-> "search", query |-> query])
  <2> DEFINE a == [op |-> "search", query |-> query]
  <2>1. a.op = "search" /\ a.query = query /\ Ask(a)
    BY <1>5
  <2> HIDE DEF a
  <2> QED
    BY <1>3, <2>1
<1> QED
  BY <1>4, <1>5 DEF KeyEnter

LEMMA QuitKeepsMarks ==
    ASSUME MarksInv, Quit
    PROVE  MarksInv'
<1>1. /\ wait = "none" /\ mode' = "quit"
      /\ UNCHANGED <<db, worker, queue, wait, after, user, lists, meta, hist>>
  BY DEF Quit
<1>2. QueueOK' /\ AskOK'
  BY <1>1, QueueSame DEF MarksInv, AskOK
<1>3. TypeOK'
  BY <1>1 DEF MarksInv, TypeOK, user, lists, meta, hist
<1>4. DbOK(db)'
  BY <1>1 DEF MarksInv, DbOK
<1>5. Mirror'
  BY <1>1 DEF MarksInv, Mirror, user, hist
<1>6. ModeOK' /\ OverlayCurrent'
  BY <1>1 DEF MarksInv, ModeOK, OverlayCurrent, user, lists
<1> QED
  BY <1>2, <1>3, <1>4, <1>5, <1>6 DEF MarksInv

\* The channel of a worker that has just been started and asked for the marks.
LEMMA ListIsAsked ==
    LET q == <<[op |-> "list"]>>
    IN  q \in Seq(ToSet(q)) /\ Len(q) = 1 /\ q[1].op = "list"
<1> DEFINE m == [op |-> "list"]
           q == <<m>>
<1>1. m.op = "list"
  OBVIOUS
<1> HIDE DEF m
<1>2. q \in Seq({m}) /\ Len(q) = 1 /\ q[1] = m
  OBVIOUS
<1> HIDE DEF q
<1>3. q \in Seq(ToSet(q))
  BY <1>2, SelfTyped
<1> QED
  BY <1>1, <1>2, <1>3 DEF q, m

LEMMA RestartKeepsMarks ==
    ASSUME MarksInv, Restart
    PROVE  MarksInv'
<1>1. /\ worker' = "starting" /\ queue' = <<[op |-> "list"]>>
      /\ wait' = "list" /\ after' = Null /\ mode' = "load"
      /\ marks' = <<>> /\ cursor' = 0
      /\ overlay' = <<>> /\ overlaySel' = 0 /\ query' = <<>>
      /\ failed' = FALSE /\ UNCHANGED <<db, clock, inputs>>
      /\ starts' \in 1 .. MaxStarts
  BY MarksAssumption DEF Restart, Start, MarksInv, TypeOK
<1>2. queue' \in Seq(ToSet(queue')) /\ Len(queue') = 1 /\ queue'[1].op = "list"
  BY <1>1, ListIsAsked, Zenon
<1>3. QueueOK'
  BY <1>1, <1>2 DEF QueueOK, Asked
<1>4. TypeOK'
  <2> DEFINE none == <<>>
  <2>1. none \in Seq(Mark) /\ none \in Queries \cup {<<>>} /\ DOMAIN none = {}
    OBVIOUS
  <2>2. marks' = none /\ overlay' = none /\ query' = none
    BY <1>1
  <2> HIDE DEF none
  <2> QED
    BY <1>1, <2>1, <2>2 DEF MarksInv, TypeOK
<1>5. AskOK' /\ Mirror'
  BY <1>1 DEF AskOK, Mirror
<1>6. DbOK(db)'
  BY <1>1 DEF MarksInv, DbOK
<1>7. ModeOK' /\ OverlayCurrent'
  BY <1>1 DEF ModeOK, OverlayCurrent
<1> QED
  BY <1>3, <1>4, <1>5, <1>6, <1>7 DEF MarksInv

LEMMA InitMarks ==
    ASSUME Init
    PROVE  MarksInv
<1>1. /\ worker = "starting" /\ queue = <<[op |-> "list"]>>
      /\ wait = "list" /\ after = Null /\ mode = "load"
      /\ marks = <<>> /\ cursor = 0
      /\ overlay = <<>> /\ overlaySel = 0 /\ query = <<>>
      /\ clock = 0 /\ inputs = 0 /\ starts = 1 /\ failed = FALSE
  BY DEF Init
<1>2. db = [blocks |-> [b \in {} |-> {}], marks |-> {}]
  BY Zenon DEF Init, EmptyDb
<1>3. DbOK(db)
  <2>1. db \in [blocks : {db.blocks}, marks : {db.marks}] /\ db.marks = {}
    BY <1>2
  <2>2. IsFiniteSet({})
    BY FS_EmptySet
  <2> QED
    BY <2>1, <2>2 DEF DbOK
<1>4. queue \in Seq(ToSet(queue)) /\ Len(queue) = 1 /\ queue[1].op = "list"
  BY <1>1, ListIsAsked, Zenon
<1>5. QueueOK
  BY <1>1, <1>4 DEF QueueOK, Asked
<1>6. TypeOK
  <2> DEFINE none == <<>>
  <2>1. none \in Seq(Mark) /\ none \in Queries \cup {<<>>} /\ DOMAIN none = {}
    OBVIOUS
  <2>2. marks = none /\ overlay = none /\ query = none
    BY <1>1
  <2>3. clock \in 0 .. MaxClock /\ inputs \in 0 .. MaxInputs /\ starts \in 1 .. MaxStarts
    BY <1>1, MarksAssumption
  <2> HIDE DEF none
  <2> QED
    BY <1>1, <1>3, <2>1, <2>2, <2>3 DEF TypeOK, DbOK
<1>7. AskOK /\ Mirror
  BY <1>1 DEF AskOK, Mirror
<1>8. ModeOK /\ OverlayCurrent
  BY <1>1 DEF ModeOK, OverlayCurrent
<1> QED
  BY <1>3, <1>5, <1>6, <1>7, <1>8 DEF MarksInv
-----------------------------------------------------------------------------
(* The search *)

\* The rows of a table of blocks that a parsed query selects.
Hits(f, q) ==
    UNION {{[height |-> h, hash |-> t.hash] : t \in {u \in f[h] : Matches(h, u, q)}}
           : h \in DOMAIN f}

HitOf(h, t) == [height |-> h, hash |-> t.hash]

LEMMA HitsAreFinite ==
    ASSUME NEW f, FiniteBlocks(f), NEW q
    PROVE  IsFiniteSet(Hits(f, q)) /\ \A x \in Hits(f, q) : x.height \in Nat
<1> DEFINE Of(h) == {HitOf(h, t) : t \in {u \in f[h] : Matches(h, u, q)}}
           S == {Of(h) : h \in DOMAIN f}
<1>1. Hits(f, q) = UNION S
  BY DEF Hits, HitOf
<1>2. ASSUME NEW h \in DOMAIN f PROVE IsFiniteSet(Of(h))
  <2> DEFINE T == {u \in f[h] : Matches(h, u, q)}
             g == [t \in T |-> HitOf(h, t)]
  <2>1. IsFiniteSet(f[h]) /\ T \in SUBSET f[h]
    BY DEF FiniteBlocks
  <2> HIDE DEF T
  <2>2. IsFiniteSet(T)
    BY <2>1, FS_Subset
  <2>3. DOMAIN g = T /\ {g[t] : t \in T} = {HitOf(h, t) : t \in T}
    OBVIOUS
  <2> HIDE DEF g
  <2>4. IsFiniteSet({HitOf(h, t) : t \in T})
    BY <2>2, <2>3, ImageIsFinite
  <2> QED
    BY <2>4 DEF T
<1>3. \A h \in DOMAIN f : \A x \in Of(h) : x.height = h
  BY DEF HitOf
<1> HIDE DEF Of
<1>4. IsFiniteSet(S)
  <2> DEFINE g == [h \in DOMAIN f |-> Of(h)]
  <2>1. DOMAIN g = DOMAIN f /\ S = {g[h] : h \in DOMAIN f}
    OBVIOUS
  <2> HIDE DEF g, S
  <2> QED
    BY <2>1, ImageIsFinite DEF FiniteBlocks
<1>5. \A T \in S : IsFiniteSet(T)
  BY <1>2
<1>6. \A x \in UNION S : x.height \in Nat
  BY <1>3 DEF FiniteBlocks
<1> HIDE DEF S
<1>7. IsFiniteSet(UNION S)
  BY <1>4, <1>5, FS_UNION
<1> QED
  BY <1>1, <1>6, <1>7

SortedHits(s) == \A i, j \in DOMAIN s : i < j => s[i].height >= s[j].height

\* A finite set of hits can be listed with the newest first.
LEMMA HitsCanBeSorted ==
    ASSUME NEW S, IsFiniteSet(S), \A x \in S : x.height \in Nat
    PROVE  \E s \in SetToSeqs(S) : SortedHits(s)
<1> DEFINE n == Cardinality(S)
           D == 1 .. n
<1>1. n \in Nat /\ ExistsBijection(1 .. n, S)
  BY FS_CardinalityType
<1> HIDE DEF n
<1>2. PICK e : e \in [D -> S] /\ \A i, j \in D : e[i] = e[j] => i = j
  BY <1>1 DEF ExistsBijection, Bijection, Injection, IsInjective
<1> DEFINE B == {x \in D \X D : \/ e[x[1]].height > e[x[2]].height
                                \/ e[x[1]].height = e[x[2]].height /\ x[1] < x[2]}
<1>3. \A i \in D : e[i].height \in Nat
  BY <1>2
<1>4. PICK p \in [D -> D] :
          /\ \A i, j \in D : p[i] = p[j] => i = j
          /\ \A i, j \in D : i < j => <<p[i], p[j]>> \in B
  <2>1. B \in SUBSET ((1 .. n) \X (1 .. n))
    OBVIOUS
  <2>2. \A i \in 1 .. n : <<i, i>> \notin B
    BY <1>3
  <2>3. \A i, j \in 1 .. n : i # j => <<i, j>> \in B \/ <<j, i>> \in B
    BY <1>1, <1>3
  <2>4. \A i, j, k \in 1 .. n : <<i, j>> \in B /\ <<j, k>> \in B => <<i, k>> \in B
    BY <1>1, <1>3
  <2> HIDE DEF B
  <2> QED
    BY <1>1, <2>1, <2>2, <2>3, <2>4, SortingExists
<1> DEFINE s == [k \in D |-> e[p[k]]]
<1>5. ASSUME NEW i \in D, NEW j \in D, i < j PROVE e[p[i]].height >= e[p[j]].height
  <2>1. \/ e[p[i]].height > e[p[j]].height
        \/ e[p[i]].height = e[p[j]].height
    BY <1>4, <1>5
  <2>2. e[p[i]].height \in Nat /\ e[p[j]].height \in Nat
    BY <1>3, <1>4
  <2> QED
    BY <2>1, <2>2
<1>6. s \in [D -> S] /\ \A i, j \in D : i # j => s[i] # s[j]
  BY <1>2, <1>4
<1>7. DOMAIN s = D /\ \A i \in D : s[i] = e[p[i]]
  OBVIOUS
<1> HIDE DEF s, D
<1>8. SortedHits(s)
  BY <1>5, <1>7 DEF SortedHits
<1>9. s \in SetToSeqs(S)
  BY <1>6 DEF SetToSeqs, D, n
<1> QED
  BY <1>8, <1>9

\* What search_db returns: hits only, as many as there are up to the limit, and
\* none that is left out is newer.
LEMMA SearchFinds ==
    ASSUME NEW d, FiniteBlocks(d.blocks), NEW toks
    PROVE  LET r == Search(d, toks)
               S == Hits(d.blocks, ParseQuery(toks))
           IN  /\ ToSet(r) \subseteq S
               /\ Len(r) = (IF Cardinality(S) < HitLimit THEN Cardinality(S) ELSE HitLimit)
               /\ \A i \in DOMAIN r, x \in S \ ToSet(r) : r[i].height >= x.height
<1> DEFINE S == Hits(d.blocks, ParseQuery(toks))
           list == CHOOSE s \in SetToSeqs(S) :
                      \A i, j \in DOMAIN s : i < j => s[i].height >= s[j].height
           n == Cardinality(S)
           k == IF n < HitLimit THEN n ELSE HitLimit
           r == SubSeq(list, 1, k)
<1>1. Search(d, toks) = SubSeq(list, 1, IF Len(list) < HitLimit THEN Len(list) ELSE HitLimit)
  BY Zenon DEF Search, Hits
<1>2. IsFiniteSet(S) /\ \A x \in S : x.height \in Nat
  BY HitsAreFinite
<1> HIDE DEF S
<1>3. list \in SetToSeqs(S) /\ SortedHits(list)
  <2>1. \E s \in SetToSeqs(S) : SortedHits(s)
    BY <1>2, HitsCanBeSorted
  <2> QED
    BY <2>1, Zenon DEF SortedHits
<1> HIDE DEF list
<1>4. list \in Seq(S) /\ Len(list) = n /\ ToSet(list) = S
  BY <1>2, <1>3, InjectionIsOnto
<1>5. n \in Nat
  BY <1>2, FS_CardinalityType
<1> HIDE DEF n
<1>6. k \in Nat /\ k <= n
  BY <1>5, HitLimitAssumption
<1>7. Search(d, toks) = r
  BY <1>1, <1>4
<1> HIDE DEF k
<1>8. /\ r \in Seq(S) /\ Len(r) = k /\ DOMAIN r = 1 .. k
      /\ \A i \in 1 .. k : r[i] = list[i]
  BY <1>4, <1>5, <1>6
<1> HIDE DEF r
<1>9. ToSet(r) \subseteq S
  BY <1>8 DEF ToSet
<1>10. ASSUME NEW i \in DOMAIN r, NEW x \in S \ ToSet(r) PROVE r[i].height >= x.height
  <2>1. DOMAIN list = 1 .. n
    BY <1>4, <1>5
  <2>2. PICK j \in 1 .. n : x = list[j]
    BY <1>4, <2>1 DEF ToSet
  <2>3. ~ (j \in 1 .. k)
    <3>1. j \in 1 .. k => r[j] = list[j] /\ j \in DOMAIN r
      BY <1>8
    <3>2. \A q \in DOMAIN r : r[q] \in ToSet(r)
      BY DEF ToSet
    <3> QED
      BY <2>2, <3>1, <3>2
  <2>4. i \in 1 .. n /\ i < j /\ r[i] = list[i]
    BY <1>5, <1>6, <1>8, <2>2, <2>3
  <2> QED
    BY <1>3, <2>1, <2>2, <2>4 DEF SortedHits
<1> QED
  BY <1>7, <1>8, <1>9, <1>10 DEF k, n, S
-----------------------------------------------------------------------------
(* The blocks: a lemma for each way a step changes them or the channel *)

NoBlockIn(q) == \A i \in 1 .. Len(q) : ~ Persists(q[i])

\* The blocks received, when one more is.
LEMMA KnownMember ==
    ASSUME NEW log, NEW n, NEW r
    PROVE  r \in Known(log, n) <=>
              \E i \in 1 .. n : \E b \in log[i] : \E t \in b.txs :
                  /\ r = [height |-> b.height, tx |-> t]
                  /\ ~ Outdated(log, i, n, b.height, t.hash)
BY DEF Known

LEMMA RowsMember ==
    ASSUME NEW f, NEW r
    PROVE  r \in RowsOf(f) <=>
              \E h \in DOMAIN f : \E t \in f[h] : r = [height |-> h, tx |-> t]
BY DEF RowsOf

\* What is known after a block: its own transactions, and of the others those of
\* another height that it does not have.
LEMMA KnownGrows ==
    ASSUME NEW log, NEW n \in Nat, NEW b, log[n + 1] = {b}, NEW r
    PROVE  r \in Known(log, n + 1) <=>
              \/ \E t \in b.txs : r = [height |-> b.height, tx |-> t]
              \/ /\ r \in Known(log, n)
                 /\ r.height # b.height /\ r.tx.hash \notin {t.hash : t \in b.txs}
<1>1. ASSUME NEW i \in 1 .. n, NEW height, NEW hash
      PROVE  Outdated(log, i, n + 1, height, hash) <=>
                \/ Outdated(log, i, n, height, hash)
                \/ b.height = height \/ hash \in {t.hash : t \in b.txs}
  <2> DEFINE P(j) == \E c \in log[j] : c.height = height \/ hash \in {t.hash : t \in c.txs}
  <2>1. \A j : j \in i + 1 .. n + 1 <=> j \in i + 1 .. n \/ j = n + 1
    OBVIOUS
  <2>2. P(n + 1) <=> b.height = height \/ hash \in {t.hash : t \in b.txs}
    OBVIOUS
  <2>3. /\ Outdated(log, i, n + 1, height, hash) <=> \E j \in i + 1 .. n + 1 : P(j)
        /\ Outdated(log, i, n, height, hash) <=> \E j \in i + 1 .. n : P(j)
    BY Zenon DEF Outdated
  <2> HIDE DEF P
  <2> QED
    BY <2>1, <2>2, <2>3
<1>2. \A height, hash : ~ Outdated(log, n + 1, n + 1, height, hash)
  BY DEF Outdated
<1>3. ASSUME r \in Known(log, n + 1)
      PROVE  \/ \E t \in b.txs : r = [height |-> b.height, tx |-> t]
             \/ /\ r \in Known(log, n)
                /\ r.height # b.height /\ r.tx.hash \notin {t.hash : t \in b.txs}
  <2>1. PICK i \in 1 .. n + 1 : \E c \in log[i] : \E t \in c.txs :
                 /\ r = [height |-> c.height, tx |-> t]
                 /\ ~ Outdated(log, i, n + 1, c.height, t.hash)
    BY <1>3, KnownMember
  <2>2. PICK c \in log[i] : \E t \in c.txs :
                 /\ r = [height |-> c.height, tx |-> t]
                 /\ ~ Outdated(log, i, n + 1, c.height, t.hash)
    BY <2>1
  <2>3. PICK t \in c.txs : /\ r = [height |-> c.height, tx |-> t]
                           /\ ~ Outdated(log, i, n + 1, c.height, t.hash)
    BY <2>2
  <2>4. r.height = c.height /\ r.tx = t
    BY <2>3
  <2>5. CASE i = n + 1
    BY <2>3, <2>5
  <2>6. CASE i \in 1 .. n
    <3>1. ~ Outdated(log, i, n, c.height, t.hash)
      BY <1>1, <2>3, <2>6
    <3>2. r.height # b.height /\ r.tx.hash \notin {u.hash : u \in b.txs}
      BY <1>1, <2>3, <2>4, <2>6
    <3>3. r \in Known(log, n)
      BY <2>3, <2>6, <3>1, KnownMember
    <3> QED
      BY <3>2, <3>3
  <2> QED
    BY <2>5, <2>6
<1>4. ASSUME NEW t \in b.txs, r = [height |-> b.height, tx |-> t]
      PROVE  r \in Known(log, n + 1)
  <2>1. n + 1 \in 1 .. n + 1 /\ b \in log[n + 1]
    OBVIOUS
  <2> QED
    BY <1>2, <1>4, <2>1, KnownMember
<1>5. ASSUME r \in Known(log, n), r.height # b.height,
             r.tx.hash \notin {t.hash : t \in b.txs}
      PROVE  r \in Known(log, n + 1)
  <2>1. PICK i \in 1 .. n : \E c \in log[i] : \E t \in c.txs :
                 /\ r = [height |-> c.height, tx |-> t]
                 /\ ~ Outdated(log, i, n, c.height, t.hash)
    BY <1>5, KnownMember
  <2>2. PICK c \in log[i] : \E t \in c.txs :
                 /\ r = [height |-> c.height, tx |-> t]
                 /\ ~ Outdated(log, i, n, c.height, t.hash)
    BY <2>1
  <2>3. PICK t \in c.txs : /\ r = [height |-> c.height, tx |-> t]
                           /\ ~ Outdated(log, i, n, c.height, t.hash)
    BY <2>2
  <2>4. r.height = c.height /\ r.tx = t /\ i \in 1 .. n + 1
    BY <2>3
  <2>5. ~ Outdated(log, i, n + 1, c.height, t.hash)
    BY <1>1, <1>5, <2>3, <2>4
  <2> QED
    BY <2>3, <2>4, <2>5, KnownMember
<1> QED
  BY <1>3, <1>4, <1>5

\* What the first n blocks hold does not depend on the later ones.
LEMMA KnownOfPrefix ==
    ASSUME NEW f, NEW g, NEW n \in Nat, \A i \in 1 .. n : f[i] = g[i]
    PROVE  Known(f, n) = Known(g, n)
<1>1. ASSUME NEW i \in 1 .. n, NEW height, NEW hash
      PROVE  Outdated(f, i, n, height, hash) <=> Outdated(g, i, n, height, hash)
  <2>1. \A j \in i + 1 .. n : j \in 1 .. n
    OBVIOUS
  <2>2. \A j \in i + 1 .. n : f[j] = g[j]
    BY <2>1
  <2> QED
    BY <2>2, Zenon DEF Outdated
<1>2. ASSUME NEW r \in Known(f, n) PROVE r \in Known(g, n)
  <2>1. PICK i \in 1 .. n : \E b \in f[i] : \E t \in b.txs :
                 /\ r = [height |-> b.height, tx |-> t]
                 /\ ~ Outdated(f, i, n, b.height, t.hash)
    BY KnownMember
  <2> QED
    BY <1>1, <2>1, KnownMember
<1>3. ASSUME NEW r \in Known(g, n) PROVE r \in Known(f, n)
  <2>1. PICK i \in 1 .. n : \E b \in g[i] : \E t \in b.txs :
                 /\ r = [height |-> b.height, tx |-> t]
                 /\ ~ Outdated(g, i, n, b.height, t.hash)
    BY KnownMember
  <2> QED
    BY <1>1, <2>1, KnownMember
<1> QED
  BY <1>2, <1>3

\* A block is written: its own transactions, and of the others those of another
\* height that it does not have.
LEMMA RowsGrow ==
    ASSUME NEW f, NEW b, NEW r
    PROVE  r \in RowsOf(Written(f, b)) <=>
              \/ \E t \in b.txs : r = [height |-> b.height, tx |-> t]
              \/ /\ r \in RowsOf(f)
                 /\ r.height # b.height /\ r.tx.hash \notin {t.hash : t \in b.txs}
<1> DEFINE F == Written(f, b)
<1>1. /\ DOMAIN F = DOMAIN f \cup {b.height} /\ F[b.height] = b.txs
      /\ \A h \in DOMAIN f : h # b.height =>
            F[h] = {t \in f[h] : t.hash \notin {u.hash : u \in b.txs}}
  BY DEF Written
<1> HIDE DEF F
<1>2. ASSUME r \in RowsOf(F)
      PROVE  \/ \E t \in b.txs : r = [height |-> b.height, tx |-> t]
             \/ /\ r \in RowsOf(f)
                /\ r.height # b.height /\ r.tx.hash \notin {t.hash : t \in b.txs}
  <2>1. PICK h \in DOMAIN F : \E t \in F[h] : r = [height |-> h, tx |-> t]
    BY <1>2, RowsMember
  <2>2. PICK t \in F[h] : r = [height |-> h, tx |-> t]
    BY <2>1
  <2>3. r.height = h /\ r.tx = t
    BY <2>2
  <2>4. CASE h = b.height
    BY <1>1, <2>2, <2>4
  <2>5. CASE h # b.height
    <3>1. h \in DOMAIN f /\ t \in f[h] /\ t.hash \notin {u.hash : u \in b.txs}
      BY <1>1, <2>5
    <3>2. r \in RowsOf(f)
      BY <2>2, <3>1, RowsMember
    <3> QED
      BY <2>3, <2>5, <3>1, <3>2
  <2> QED
    BY <2>4, <2>5
<1>3. ASSUME NEW t \in b.txs, r = [height |-> b.height, tx |-> t]
      PROVE  r \in RowsOf(F)
  BY <1>1, <1>3, RowsMember
<1>4. ASSUME r \in RowsOf(f), r.height # b.height,
             r.tx.hash \notin {t.hash : t \in b.txs}
      PROVE  r \in RowsOf(F)
  <2>1. PICK h \in DOMAIN f : \E t \in f[h] : r = [height |-> h, tx |-> t]
    BY <1>4, RowsMember
  <2>2. PICK t \in f[h] : r = [height |-> h, tx |-> t]
    BY <2>1
  <2>3. r.height = h /\ r.tx = t
    BY <2>2
  <2>4. h \in DOMAIN F /\ t \in F[h]
    BY <1>1, <1>4, <2>3
  <2> QED
    BY <2>2, <2>4, RowsMember
<1> QED
  BY <1>2, <1>3, <1>4 DEF F

LEMMA BlocksStay ==
    ASSUME SearchInv, UNCHANGED <<received, queue>>, db'.blocks = db.blocks,
           worker = "ended" => worker' = "ended"
    PROVE  SearchInv'
<1>1. \A k : StoredTo(k) => StoredTo(k)'
  BY Zenon DEF StoredTo, Persists
<1> QED
  BY <1>1 DEF SearchInv, FiniteBlocks

\* The worker ends, and the channel drops what was on its way.
LEMMA BlocksLost ==
    ASSUME SearchInv, UNCHANGED received, db'.blocks = db.blocks, worker' = "ended"
    PROVE  SearchInv'
BY DEF SearchInv, FiniteBlocks

\* With no block on its way everything received is in the database.
LEMMA AllStored ==
    ASSUME SearchInv, worker # "ended", NoBlockIn(queue)
    PROVE  /\ Len(received) \in Nat \ {0}
           /\ RowsOf(db.blocks) = Known(received, Len(received))
<1>1. PICK k \in Nat : StoredTo(k)
  BY DEF SearchInv
<1>2. Len(received) \in Nat /\ k \in 1 .. Len(received)
  BY <1>1, LenProperties DEF SearchInv, StoredTo
<1>3. \A i \in 1 .. Len(received) - k : FALSE
  BY <1>1 DEF StoredTo, NoBlockIn
<1>4. k = Len(received)
  BY <1>2, <1>3
<1> QED
  BY <1>1, <1>2, <1>4 DEF StoredTo

\* The worker serves a message that is no block, the last one in the channel.
LEMMA BlocksServed ==
    ASSUME SearchInv, UNCHANGED received, db'.blocks = db.blocks,
           worker = "ended" => worker' = "ended", NoBlockIn(queue), NoBlockIn(queue')
    PROVE  SearchInv'
<1>1. ASSUME worker' # "ended" PROVE StoredTo(Len(received))'
  <2>1. /\ Len(received) \in Nat \ {0}
        /\ RowsOf(db.blocks) = Known(received, Len(received))
    BY <1>1, AllStored
  <2>2. (RowsOf(db.blocks) = Known(received, Len(received)))'
    BY <2>1
  <2>3. Len(received') \in 1 .. Len(received') /\ \A i \in 1 .. Len(received') - Len(received') : FALSE
    BY <2>1
  <2>4. \A i \in 1 .. Len(queue') : ~ Persists(queue[i])'
    BY DEF NoBlockIn, Persists
  <2> QED
    BY <2>2, <2>3, <2>4 DEF StoredTo
<1>2. Len(received') \in Nat
  BY LenProperties DEF SearchInv
<1> QED
  BY <1>1, <1>2 DEF SearchInv, FiniteBlocks

\* The loop sends a message that is no block.
LEMMA BlocksAsked ==
    ASSUME QueueOK, SearchInv, UNCHANGED <<received, db, worker>>, NEW m, Tell(m), ~ Persists(m)
    PROVE  SearchInv'
<1>1. CASE worker = "ended"
  BY <1>1, BlocksStay DEF Tell
<1>2. CASE worker # "ended"
  <2> DEFINE r == Append(queue, m)
             l == Len(queue)
  <2>1. queue' = r
    BY <1>2 DEF Tell
  <2>2. /\ Len(r) = l + 1 /\ l \in Nat
        /\ r[Len(r)] = m /\ \A i \in 1 .. l : r[i] = queue[i]
    BY Appended DEF QueueOK
  <2>3. PICK k \in Nat : StoredTo(k)
    BY <1>2 DEF SearchInv
  <2> DEFINE n == Len(received) - k
  <2>4. /\ k \in 1 .. Len(received) /\ RowsOf(db.blocks) = Known(received, k)
        /\ \A i \in 1 .. n : /\ i \in 1 .. l /\ Persists(queue[i])
                             /\ received[k + i] = {queue[i].block}
        /\ \A i \in 1 .. l : Persists(queue[i]) => i <= n
    BY <2>3 DEF StoredTo
  <2> HIDE DEF r, l, n
  <2>5. \A i \in 1 .. n : /\ i \in 1 .. Len(r) /\ Persists(r[i])
                          /\ received[k + i] = {r[i].block}
    BY <2>2, <2>4
  <2>6. ASSUME NEW i \in 1 .. Len(r), Persists(r[i]) PROVE i <= n
    <3>1. i \in 1 .. l \/ r[i] = m
      BY <2>2
    <3> QED
      BY <2>2, <2>4, <2>6, <3>1
  <2>7. StoredTo(k)'
    <3>1. (k \in 1 .. Len(received) /\ RowsOf(db.blocks) = Known(received, k))'
      BY <2>4
    <3>2. n = Len(received') - k
      BY DEF n
    <3>3. \A i : Persists(queue[i])' <=> Persists(r[i])
      BY <2>1 DEF Persists
    <3>4. \A i \in 1 .. n : /\ i \in 1 .. Len(queue') /\ Persists(queue[i])'
                            /\ received'[k + i] = {queue'[i].block}
      BY <2>1, <2>5, <3>3
    <3>5. \A i \in 1 .. Len(queue') : Persists(queue[i])' => i <= n
      BY <2>1, <2>6, <3>3
    <3> QED
      BY <3>1, <3>2, <3>4, <3>5 DEF StoredTo
  <2> QED
    BY <2>7 DEF SearchInv
<1> QED
  BY <1>1, <1>2

\* The worker writes the first block of the channel.
LEMMA BlocksWritten ==
    ASSUME MarksInv, SearchInv, worker = "running", queue # <<>>, Persists(Head(queue)),
           db' = Persist(db, Head(queue).block), queue' = Tail(queue),
           UNCHANGED <<worker, received>>
    PROVE  SearchInv'
<1> DEFINE r == Tail(queue)
           l == Len(queue)
<1>b. PICK b : b = queue[1].block
  OBVIOUS
<1> DEFINE F == Written(db.blocks, b)
<1>1. /\ Len(r) = l - 1 /\ l \in Nat \ {0}
      /\ Head(queue) = queue[1] /\ \A i \in 1 .. l - 1 : r[i] = queue[i + 1]
  BY Dropped DEF MarksInv, QueueOK
<1>2. queue' = r
  OBVIOUS
<1> HIDE DEF r
<1>3. \A i \in 1 .. l : \/ Persists(queue[i]) /\ queue[i].block \in Blocks
                        \/ wait # "none" /\ i = l
  BY DEF MarksInv, QueueOK
<1>p. queue[1].op = "persist"
  BY <1>1 DEF Persists
<1>4. b \in Blocks
  <2>1. wait # "none" => queue[l].op = wait /\ wait # "persist"
    BY DEF MarksInv, QueueOK, Asked, TypeOK
  <2>2. 1 \in 1 .. l
    BY <1>1
  <2> QED
    BY <1>b, <1>3, <1>p, <2>1, <2>2
<1>5. b.height \in Nat /\ IsFiniteSet(b.txs)
  BY <1>4, MarksAssumption
<1>6. db'.blocks = F
  <2>1. DbOK(db) /\ db' = Persist(db, b)
    BY <1>b, <1>1 DEF MarksInv
  <2> QED
    BY <2>1, PersistKeepsRows
<1>7. PICK k \in Nat : StoredTo(k)
  BY DEF SearchInv
<1> DEFINE n == Len(received) - k
<1>8. /\ k \in 1 .. Len(received) /\ Len(received) \in Nat
      /\ RowsOf(db.blocks) = Known(received, k)
      /\ \A i \in 1 .. n : /\ i \in 1 .. l /\ Persists(queue[i])
                           /\ received[k + i] = {queue[i].block}
      /\ \A i \in 1 .. l : Persists(queue[i]) => i <= n
  BY <1>7, LenProperties DEF StoredTo, SearchInv
<1>9. 1 <= n /\ n \in Nat /\ received[k + 1] = {b} /\ k + 1 \in 1 .. Len(received)
  <2>1. 1 <= n
    BY <1>1, <1>8, <1>p DEF Persists
  <2>2. 1 \in 1 .. n /\ n \in Nat /\ k + 1 \in 1 .. Len(received)
    BY <1>8, <2>1
  <2> QED
    BY <1>b, <1>8, <2>1, <2>2
<1>10. FiniteBlocks(F)
  <2>0. FiniteBlocks(db.blocks)
    BY DEF SearchInv
  <2>1. IsFiniteSet(DOMAIN db.blocks \cup {b.height})
    BY <2>0, FS_AddElement DEF FiniteBlocks
  <2>2. /\ DOMAIN F = DOMAIN db.blocks \cup {b.height} /\ F[b.height] = b.txs
        /\ \A h \in DOMAIN db.blocks : h # b.height => F[h] \in SUBSET db.blocks[h]
    BY DEF Written
  <2> HIDE DEF F
  <2>3. \A h \in DOMAIN F : h \in Nat /\ IsFiniteSet(F[h])
    BY <1>5, <2>0, <2>2, FS_Subset DEF FiniteBlocks
  <2> QED
    BY <2>1, <2>2, <2>3 DEF FiniteBlocks
<1>11. RowsOf(F) = Known(received, k + 1)
  <2>1. \A x : x \in RowsOf(F) <=>
                \/ \E t \in b.txs : x = [height |-> b.height, tx |-> t]
                \/ /\ x \in RowsOf(db.blocks)
                   /\ x.height # b.height /\ x.tx.hash \notin {t.hash : t \in b.txs}
    BY RowsGrow
  <2>2. \A x : x \in Known(received, k + 1) <=>
                \/ \E t \in b.txs : x = [height |-> b.height, tx |-> t]
                \/ /\ x \in Known(received, k)
                   /\ x.height # b.height /\ x.tx.hash \notin {t.hash : t \in b.txs}
    BY <1>9, KnownGrows
  <2> HIDE DEF F
  <2>3. \A x : x \in RowsOf(F) <=> x \in Known(received, k + 1)
    BY <1>8, <2>1, <2>2
  <2> QED
    BY <2>3
<1> HIDE DEF F, n, l
<1>12. StoredTo(k + 1)'
  <2>1. (k + 1 \in 1 .. Len(received) /\ RowsOf(db.blocks) = Known(received, k + 1))'
    BY <1>6, <1>9, <1>11
  <2>2. Len(received') - (k + 1) = n - 1 /\ \A i \in 1 .. n - 1 : (k + 1) + i = k + (i + 1)
    BY <1>8, <1>9 DEF n
  <2>3. \A i : Persists(queue[i])' <=> Persists(r[i])
    BY <1>2 DEF Persists
  <2>4. ASSUME NEW i \in 1 .. n - 1
        PROVE  /\ i \in 1 .. Len(queue') /\ Persists(queue[i])'
               /\ received'[(k + 1) + i] = {queue'[i].block}
    <3>1. i + 1 \in 1 .. n
      BY <1>9
    <3>2. i + 1 \in 1 .. l /\ Persists(queue[i + 1]) /\ received[k + (i + 1)] = {queue[i + 1].block}
      BY <1>8, <3>1
    <3>3. i \in 1 .. l - 1 /\ r[i] = queue[i + 1]
      BY <1>1, <3>2
    <3> QED
      BY <1>1, <1>2, <2>2, <2>3, <3>2, <3>3
  <2>5. ASSUME NEW i \in 1 .. Len(queue'), Persists(queue[i])' PROVE i <= n - 1
    <3>1. i \in 1 .. l - 1 /\ Persists(r[i])
      BY <1>1, <1>2, <2>3, <2>5
    <3>2. i + 1 \in 1 .. l /\ Persists(queue[i + 1])
      BY <1>1, <3>1
    <3>3. i + 1 <= n
      BY <1>8, <3>2
    <3> QED
      BY <1>9, <3>3
  <2> QED
    BY <2>1, <2>2, <2>4, <2>5 DEF StoredTo
<1> QED
  BY <1>6, <1>10, <1>12 DEF SearchInv, FiniteBlocks

LEMMA ReceiveKeepsBlocks ==
    ASSUME MarksInv, SearchInv, NEW b \in Blocks, Receive(b)
    PROVE  SearchInv'
<1> DEFINE m == [op |-> "persist", block |-> b]
           r == Append(queue, m)
           l == Len(queue)
           log == Append(received, {b})
<1>1. Tell(m) /\ received' = log /\ UNCHANGED <<db, worker>> /\ wait = "none"
  BY DEF Receive
<1>2. m.op = "persist" /\ m.block = b
  OBVIOUS
<1> HIDE DEF m
<1>3. /\ log \in Seq(ToSet(log)) /\ Len(log) = Len(received) + 1 /\ Len(received) \in Nat
      /\ log[Len(log)] = {b} /\ \A i \in 1 .. Len(received) : log[i] = received[i]
  BY Appended DEF SearchInv
<1> HIDE DEF log
<1>4. FiniteBlocks(db.blocks)' /\ (received \in Seq(ToSet(received)))'
  BY <1>1, <1>3 DEF SearchInv, FiniteBlocks
<1>5. ASSUME worker # "ended" PROVE \E k \in Nat : StoredTo(k)'
  <2>1. queue' = r
    BY <1>1, <1>5 DEF Tell
  <2>2. /\ Len(r) = l + 1 /\ l \in Nat
        /\ r[Len(r)] = m /\ \A i \in 1 .. l : r[i] = queue[i]
    BY Appended DEF MarksInv, QueueOK
  <2>3. PICK k \in Nat : StoredTo(k)
    BY <1>5 DEF SearchInv
  <2> DEFINE n == Len(received) - k
  <2>4. /\ k \in 1 .. Len(received) /\ RowsOf(db.blocks) = Known(received, k)
        /\ \A i \in 1 .. n : /\ i \in 1 .. l /\ Persists(queue[i])
                             /\ received[k + i] = {queue[i].block}
        /\ \A i \in 1 .. l : Persists(queue[i]) => i <= n
    BY <2>3 DEF StoredTo
  <2>5. \A i \in 1 .. l : Persists(queue[i])
    BY <1>1 DEF MarksInv, QueueOK
  <2> HIDE DEF r, l
  <2>6. n = l
    <3>1. n \in Nat
      BY <1>3, <2>4
    <3>2. l # 0 => l \in 1 .. l
      BY <2>2
    <3>3. n # 0 => n \in 1 .. n
      BY <3>1
    <3> HIDE DEF n
    <3>4. l <= n
      BY <2>2, <2>4, <2>5, <3>1, <3>2
    <3>5. n <= l
      BY <2>2, <2>4, <3>1, <3>3
    <3> QED
      BY <2>2, <3>1, <3>4, <3>5
  <2>7. Known(log, k) = Known(received, k)
    <3>1. \A i \in 1 .. k : log[i] = received[i]
      BY <1>3, <2>4
    <3> QED
      BY <3>1, KnownOfPrefix
  <2>8. Len(log) - k = l + 1 /\ k + (l + 1) = Len(log)
    <3>1. Len(log) = Len(received) + 1 /\ Len(received) - k = l
      BY <1>3, <2>6
    <3>2. Len(received) \in Nat /\ k \in Nat /\ l \in Nat
      BY <1>3, <2>2
    <3> QED
      BY <3>1, <3>2
  <2>9. ASSUME NEW i \in 1 .. l + 1
        PROVE  i \in 1 .. Len(r) /\ Persists(r[i]) /\ log[k + i] = {r[i].block}
    <3>1. CASE i = l + 1
      BY <1>2, <1>3, <2>2, <2>8, <3>1 DEF Persists
    <3>2. CASE i \in 1 .. l
      <4>1. i \in 1 .. Len(r) /\ r[i] = queue[i]
        BY <2>2, <3>2
      <4>2. Persists(queue[i]) /\ received[k + i] = {queue[i].block}
        BY <2>4, <2>6, <3>2
      <4>3. k + i \in 1 .. Len(received)
        BY <1>3, <2>2, <2>4, <2>6, <3>2
      <4> QED
        BY <1>3, <4>1, <4>2, <4>3
    <3> QED
      BY <2>2, <3>1, <3>2
  <2>10. StoredTo(k)'
    <3>1. (k \in 1 .. Len(received))'
      BY <1>1, <1>3, <2>4
    <3>2. (RowsOf(db.blocks) = Known(received, k))'
      BY <1>1, <2>4, <2>7
    <3>3. Len(received') - k = l + 1
      BY <1>1, <2>8
    <3>4. \A i : Persists(queue[i])' <=> Persists(r[i])
      BY <2>1 DEF Persists
    <3>5. \A i \in 1 .. l + 1 : /\ i \in 1 .. Len(queue') /\ Persists(queue[i])'
                                /\ received'[k + i] = {queue'[i].block}
      BY <1>1, <2>1, <2>9, <3>4
    <3>6. \A i \in 1 .. Len(queue') : Persists(queue[i])' => i <= l + 1
      BY <2>1, <2>2
    <3> QED
      BY <3>1, <3>2, <3>3, <3>5, <3>6 DEF StoredTo
  <2> QED
    BY <2>10
<1> QED
  BY <1>1, <1>4, <1>5 DEF SearchInv

LEMMA NoneBefore ==
    ASSUME NEW S
    PROVE  <<S>> \in Seq(ToSet(<<S>>)) /\ Len(<<S>>) = 1 /\ <<S>>[1] = S
<1> DEFINE s == <<S>>
<1>1. s \in Seq({S}) /\ Len(s) = 1 /\ s[1] = S
  OBVIOUS
<1> HIDE DEF s
<1> QED
  BY <1>1, SelfTyped DEF s

\* Only what is in the database survives a restart, and the channel is new.
LEMMA FreshStart ==
    ASSUME NEW S, received = <<S>>, RowsOf(db.blocks) = Known(received, 1),
           queue = <<[op |-> "list"]>>, FiniteBlocks(db.blocks)
    PROVE  SearchInv
<1>1. Len(queue) = 1 /\ queue[1].op = "list"
  BY ListIsAsked, Zenon
<1>2. \A i \in 1 .. Len(queue) : ~ Persists(queue[i])
  BY <1>1 DEF Persists
<1>3. received \in Seq(ToSet(received)) /\ Len(received) = 1
  BY NoneBefore
<1>4. StoredTo(1)
  BY <1>2, <1>3 DEF StoredTo
<1> QED
  BY <1>3, <1>4 DEF SearchInv

LEMMA KnownAtStart ==
    ASSUME NEW f
    PROVE  Known(<<{[height |-> h, txs |-> f[h]] : h \in DOMAIN f}>>, 1) = RowsOf(f)
<1> DEFINE S == {[height |-> h, txs |-> f[h]] : h \in DOMAIN f}
           log == <<S>>
<1>1. log[1] = S
  BY NoneBefore
<1> HIDE DEF log
<1>2. \A height, hash : ~ Outdated(log, 1, 1, height, hash)
  BY DEF Outdated
<1>3. \A i : i \in 1 .. 1 <=> i = 1
  OBVIOUS
<1>4. ASSUME NEW r PROVE r \in Known(log, 1) <=> r \in RowsOf(f)
  <2>0. r \in Known(log, 1) <=>
              \E i \in 1 .. 1 : \E b \in log[i] : \E t \in b.txs :
                  /\ r = [height |-> b.height, tx |-> t]
                  /\ ~ Outdated(log, i, 1, b.height, t.hash)
    BY KnownMember
  <2>1. r \in Known(log, 1) <=> \E b \in S : \E t \in b.txs : r = [height |-> b.height, tx |-> t]
    <3> HIDE DEF S
    <3> QED
      BY <1>1, <1>2, <1>3, <2>0
  <2>2. r \in RowsOf(f) <=> \E h \in DOMAIN f : \E t \in f[h] : r = [height |-> h, tx |-> t]
    BY RowsMember
  <2>3. ASSUME NEW b \in S PROVE b.height \in DOMAIN f /\ b.txs = f[b.height]
    <3>1. PICK h \in DOMAIN f : b = [height |-> h, txs |-> f[h]]
      BY Zenon
    <3> QED
      BY <3>1
  <2>4. ASSUME NEW h \in DOMAIN f PROVE \E b \in S : b.height = h /\ b.txs = f[h]
    <3>1. [height |-> h, txs |-> f[h]] \in S
      BY Zenon
    <3> HIDE DEF S
    <3> QED
      BY <3>1
  <2> HIDE DEF S
  <2> QED
    BY <2>1, <2>2, <2>3, <2>4
<1> QED
  BY <1>4 DEF log

LEMMA RestartKeepsBlocks ==
    ASSUME SearchInv, Restart
    PROVE  SearchInv'
<1> DEFINE S == {[height |-> h, txs |-> db.blocks[h]] : h \in DOMAIN db.blocks}
<1>1. received' = <<S>> /\ UNCHANGED db /\ queue' = <<[op |-> "list"]>>
  BY DEF Restart, Start
<1>2. Known(<<S>>, 1) = RowsOf(db.blocks)
  BY KnownAtStart
<1> HIDE DEF S
<1>3. (RowsOf(db.blocks) = Known(received, 1))'
  BY <1>1, <1>2
<1>4. FiniteBlocks(db.blocks)'
  BY <1>1 DEF SearchInv, FiniteBlocks
<1>5. Len(queue') = 1 /\ queue'[1].op = "list"
  BY <1>1, ListIsAsked, Zenon
<1>6. \A i \in 1 .. Len(queue') : ~ Persists(queue[i])'
  BY <1>5 DEF Persists
<1>7. (received \in Seq(ToSet(received)))' /\ Len(received') = 1
  BY <1>1, NoneBefore, Zenon
<1>8. StoredTo(1)'
  BY <1>3, <1>6, <1>7 DEF StoredTo
<1> QED
  BY <1>4, <1>7, <1>8 DEF SearchInv

LEMMA InitBlocks ==
    ASSUME Init
    PROVE  SearchInv
<1>1. db.blocks = [b \in {} |-> {}] /\ received = <<{}>> /\ queue = <<[op |-> "list"]>>
  <2>1. db = [blocks |-> [b \in {} |-> {}], marks |-> {}]
    BY Zenon DEF Init, EmptyDb
  <2>2. db.blocks = [b \in {} |-> {}]
    BY <2>1
  <2> QED
    BY <2>2, Zenon DEF Init
<1>2. DOMAIN db.blocks = {}
  BY <1>1
<1>3. {[height |-> h, txs |-> db.blocks[h]] : h \in DOMAIN db.blocks} = {}
  BY <1>2
<1>4. RowsOf(db.blocks) = Known(received, 1)
  BY <1>1, <1>3, KnownAtStart
<1>5. FiniteBlocks(db.blocks)
  BY <1>2, FS_EmptySet DEF FiniteBlocks
<1> QED
  BY <1>1, <1>4, <1>5, FreshStart

\* A message that is no block is the only one in the channel when it is served.
LEMMA ServedAlone ==
    ASSUME QueueOK, worker = "running", queue # <<>>, ~ Persists(Head(queue))
    PROVE  NoBlockIn(queue)
<1>1. Len(queue) = 1 /\ Head(queue) = Asked
  BY ServedIsAsked
<1>2. Head(queue) = queue[1]
  BY <1>1 DEF Asked
<1> QED
  BY <1>1, <1>2 DEF NoBlockIn

LEMMA NothingIn ==
    ASSUME queue' = <<>>
    PROVE  NoBlockIn(queue')
<1>1. Len(queue') = 0
  OBVIOUS
<1> QED
  BY <1>1 DEF NoBlockIn

\* After an answer about the marks the channel is empty or has the next question.
LEMMA ContinuesWithoutBlocks ==
    ASSUME Continue(<<>>)
    PROVE  NoBlockIn(queue')
<1> DEFINE m == [op |-> "pin", label |-> after, pinned |-> TRUE]
<1>1. queue' = <<>> \/ queue' = Append(<<>>, m)
  BY Zenon DEF Continue
<1>2. m.op = "pin"
  OBVIOUS
<1> HIDE DEF m
<1>3. ASSUME queue' = Append(<<>>, m) PROVE NoBlockIn(queue')
  <2>1. Len(queue') = 1 /\ queue'[1] = m
    BY <1>3
  <2> QED
    BY <1>2, <2>1 DEF NoBlockIn, Persists
<1> QED
  BY <1>1, <1>3, NothingIn

LEMMA WorkerWritesKeepsBlocks ==
    ASSUME MarksInv, SearchInv, WorkerWrites
    PROVE  SearchInv'
<1> DEFINE m == Head(queue)
<1>1. worker = "running" /\ queue # <<>> /\ m.op \in {"put", "del", "pin"}
        /\ UNCHANGED <<worker, meta, received>> /\ Continue(Tail(queue))
  BY DEF WorkerWrites, Serves
<1>2. ~ Persists(m)
  BY <1>1 DEF Persists
<1>3. Tail(queue) = <<>> /\ m = Asked /\ Asked.op = wait
  BY <1>1, <1>2, ServedIsAsked DEF MarksInv
<1>4. Continue(<<>>)
  BY <1>1, <1>3
<1>5. NoBlockIn(queue) /\ NoBlockIn(queue')
  BY <1>1, <1>2, <1>4, ServedAlone, ContinuesWithoutBlocks DEF MarksInv
<1>6. DbOK(db) /\ (m.op = "put" => m.mark \in Mark) /\ (m.op = "pin" => m.pinned \in BOOLEAN)
  BY <1>1, <1>3 DEF MarksInv, AskOK
<1>7. CASE db' = CASE m.op = "put" -> PutMark(db, m.mark)
                   [] m.op = "del" -> DelMark(db, m.label)
                   [] m.op = "pin" -> SetPinned(db, m.label, m.pinned)
  <2> HIDE DEF m
  <2>1. "put" # "del" /\ "put" # "pin" /\ "del" # "pin"
    OBVIOUS
  <2>2. m.op = "put" => db' = PutMark(db, m.mark)
    BY <1>7, <2>1, Zenon
  <2>3. m.op = "del" => db' = DelMark(db, m.label)
    BY <1>7, <2>1, Zenon
  <2>4. m.op = "pin" => db' = SetPinned(db, m.label, m.pinned)
    BY <1>7, <2>1, Zenon
  <2>5. db'.blocks = db.blocks
    BY <1>1, <1>6, <2>2, <2>3, <2>4, PutKeepsRows, DelKeepsRows, PinKeepsRows
  <2> QED
    BY <1>1, <1>5, <2>5, BlocksServed
<1>8. CASE UNCHANGED db
  BY <1>1, <1>5, <1>8, BlocksServed
<1> QED
  BY <1>7, <1>8 DEF WorkerWrites

LEMMA AnswersKeepBlocks ==
    ASSUME MarksInv, SearchInv, WorkerLists \/ WorkerSearches \/ WorkerGets \/ WorkerFailsRead
    PROVE  SearchInv'
<1>1. worker = "running" /\ queue # <<>> /\ Head(queue).op \in {"list", "search", "get"}
        /\ queue' = Tail(queue) /\ UNCHANGED <<db, worker, received>>
  BY DEF WorkerLists, WorkerSearches, WorkerGets, WorkerFailsRead, Serves, hist
<1>2. ~ Persists(Head(queue))
  BY <1>1 DEF Persists
<1>3. NoBlockIn(queue) /\ queue' = <<>>
  BY <1>1, <1>2, ServedAlone, ServedIsAsked DEF MarksInv
<1>4. NoBlockIn(queue')
  BY <1>3, NothingIn
<1> QED
  BY <1>1, <1>3, <1>4, BlocksServed

LEMMA HangUpKeepsBlocks ==
    ASSUME MarksInv, SearchInv, HangUp
    PROVE  SearchInv'
<1>1. worker = "ended" /\ queue = <<>> /\ UNCHANGED <<db, worker, received>>
  BY DEF HangUp, hist, MarksInv, QueueOK
<1>2. NoBlockIn(queue)
  BY <1>1 DEF NoBlockIn
<1>3. NoBlockIn(queue')
  <2>1. CASE Continue(queue)
    <3>1. Continue(<<>>)
      BY <1>1, <2>1
    <3> QED
      BY <3>1, ContinuesWithoutBlocks
  <2>2. CASE UNCHANGED queue
    BY <1>1, <2>2, NothingIn
  <2> QED
    BY <2>1, <2>2 DEF HangUp
<1> QED
  BY <1>1, <1>2, <1>3, BlocksServed

\* A key asks something of the worker, or changes nothing that it knows of.
LEMMA KeysKeepBlocks ==
    ASSUME MarksInv, SearchInv, NEW in, Key(in),
           UNCHANGED queue \/ \E m : Ask(m) /\ ~ Persists(m)
    PROVE  SearchInv'
<1>1. UNCHANGED <<db, worker, received>>
  BY DEF Key, hist
<1>2. CASE UNCHANGED queue
  BY <1>1, <1>2, BlocksStay
<1>3. CASE \E m : Ask(m) /\ ~ Persists(m)
  BY <1>1, <1>3, BlocksAsked DEF Ask, MarksInv
<1> QED
  BY <1>2, <1>3

LEMMA NoBlockIsAsked ==
    ASSUME NEW m, Ask(m), m.op # "persist"
    PROVE  \E q : Ask(q) /\ ~ Persists(q)
BY DEF Persists

LEMMA AddingAsks ==
    ASSUME NEW l, NEW c, AddOrReplace(l, c)
    PROVE  \E m : Ask(m) /\ ~ Persists(m)
<1> DEFINE a == [op |-> "put", mark |-> NewMark(l, c)]
<1>1. Ask(a)
  BY Zenon DEF AddOrReplace, NewMark
<1>2. a.op = "put"
  OBVIOUS
<1> HIDE DEF a
<1> QED
  BY <1>1, <1>2, NoBlockIsAsked

LEMMA OtherKeysAsk ==
    ASSUME KeyDelete \/ KeyEnter \/ \E c \in Contexts : KeyMark(c) \/ KeyPin(c)
    PROVE  \E m : Ask(m) /\ ~ Persists(m)
<1>1. CASE KeyDelete
  <2> DEFINE a == [op |-> "del", label |-> overlay[overlaySel + 1].label]
  <2>1. Ask(a)
    BY <1>1 DEF KeyDelete, RemoveByLabel
  <2>2. a.op = "del"
    OBVIOUS
  <2> HIDE DEF a
  <2> QED
    BY <2>1, <2>2, NoBlockIsAsked
<1>2. CASE KeyEnter
  <2> DEFINE a == [op |-> "get", hash |-> results[resultSel + 1].hash]
             b == [op |-> "search", query |-> query]
  <2>1. Ask(a) \/ Ask(b)
    BY <1>2 DEF KeyEnter
  <2>2. a.op = "get" /\ b.op = "search"
    OBVIOUS
  <2> HIDE DEF a, b
  <2> QED
    BY <2>1, <2>2, NoBlockIsAsked
<1>3. ASSUME NEW c \in Contexts, KeyMark(c)
      PROVE  \E m : Ask(m) /\ ~ Persists(m)
  BY <1>3, AddingAsks DEF KeyMark
<1>4. ASSUME NEW c \in Contexts, KeyPin(c)
      PROVE  \E m : Ask(m) /\ ~ Persists(m)
  <2> DEFINE same == {i \in DOMAIN marks : SameContext(marks[i], c)}
             m == marks[CHOOSE i \in same : \A j \in same : i <= j]
             a == [op |-> "pin", label |-> m.label, pinned |-> ~ m.pinned]
  <2>1. Ask(a) \/ AddOrReplace(NextAutoLabel, c)
    BY <1>4, Zenon DEF KeyPin
  <2>2. a.op = "pin"
    OBVIOUS
  <2> HIDE DEF a
  <2> QED
    BY <2>1, <2>2, NoBlockIsAsked, AddingAsks
<1> QED
  BY <1>1, <1>2, <1>3, <1>4
-----------------------------------------------------------------------------
(* The theorems *)

LEMMA InitInvariant == Init => IInv
BY InitMarks, InitBlocks DEF IInv

LEMMA NextKeepsMarks ==
    ASSUME MarksInv, [Next]_vars
    PROVE  MarksInv'
<1>1. CASE WorkerStarts \/ WorkerPersists \/ WorkerWrites \/ WorkerLists
  BY <1>1, WorkerStartsKeepsMarks, WorkerPersistsKeepsMarks, WorkerWritesKeepsMarks,
     WorkerListsKeepsMarks
<1>2. CASE WorkerSearches \/ WorkerGets \/ WorkerFailsRead \/ HangUp
  BY <1>2, ReadsKeepMarks, HangUpKeepsMarks
<1>3. CASE \E b \in Blocks : Receive(b)
  BY <1>3, ReceiveKeepsMarks
<1>4. CASE Tick
  BY <1>4, TickKeepsMarks
<1>5. CASE \E c \in Contexts : KeyMark(c) \/ KeyPin(c)
  BY <1>5, KeyMarkKeepsMarks, KeyPinKeepsMarks
<1>6. CASE \/ KeyJump \/ KeyOpenMarks \/ KeyMarksMove \/ KeyCloseMarks
           \/ KeySearch \/ KeyCloseSearch
  BY <1>6, QuietKeysKeepMarks
<1>7. CASE KeySearchMove \/ \E q \in Queries : KeyType(q)
  BY <1>7, TypingKeepsMarks
<1>8. CASE KeyDelete \/ KeyEnter
  BY <1>8, KeyDeleteKeepsMarks, KeyEnterKeepsMarks
<1>9. CASE Quit \/ Restart
  BY <1>9, QuitKeepsMarks, RestartKeepsMarks
<1>10. CASE UNCHANGED vars
  BY <1>10, MarksStuttering
<1> QED
  BY <1>1, <1>2, <1>3, <1>4, <1>5, <1>6, <1>7, <1>8, <1>9, <1>10 DEF Next

LEMMA NextKeepsBlocks ==
    ASSUME MarksInv, SearchInv, [Next]_vars
    PROVE  SearchInv'
<1>1. CASE WorkerStarts
  <2>1. UNCHANGED <<db, received>> /\ worker = "starting"
    BY <1>1 DEF WorkerStarts, hist
  <2>2. CASE UNCHANGED queue
    BY <2>1, <2>2, BlocksStay
  <2>3. CASE worker' = "ended" /\ queue' = <<>>
    BY <2>1, <2>3, BlocksLost
  <2> QED
    BY <1>1, <2>2, <2>3 DEF WorkerStarts
<1>2. CASE WorkerPersists
  <2>1. worker = "running" /\ queue # <<>> /\ Persists(Head(queue)) /\ UNCHANGED received
    BY <1>2 DEF WorkerPersists, Serves, Persists, hist
  <2>2. CASE db' = Persist(db, Head(queue).block) /\ queue' = Tail(queue) /\ UNCHANGED worker
    BY <2>1, <2>2, BlocksWritten
  <2>3. CASE worker' = "ended" /\ queue' = <<>> /\ UNCHANGED db
    BY <2>1, <2>3, BlocksLost
  <2> QED
    BY <1>2, <2>2, <2>3 DEF WorkerPersists
<1>3. CASE WorkerWrites
  BY <1>3, WorkerWritesKeepsBlocks
<1>4. CASE WorkerLists \/ WorkerSearches \/ WorkerGets \/ WorkerFailsRead
  BY <1>4, AnswersKeepBlocks
<1>5. CASE HangUp
  BY <1>5, HangUpKeepsBlocks
<1>6. CASE \E b \in Blocks : Receive(b)
  BY <1>6, ReceiveKeepsBlocks
<1>7. CASE Tick \/ Quit
  <2>1. UNCHANGED <<db, worker, queue, received>>
    BY <1>7 DEF Tick, Quit, hist
  <2> QED
    BY <2>1, BlocksStay
<1>8. CASE \/ KeyJump \/ KeyOpenMarks \/ KeyMarksMove \/ KeyCloseMarks
           \/ KeySearch \/ KeyCloseSearch \/ KeySearchMove
           \/ \E q \in Queries : KeyType(q)
  <2>1. (\E in : Key(in)) /\ UNCHANGED queue
    BY <1>8 DEF KeyJump, KeyOpenMarks, KeyMarksMove, KeyCloseMarks, KeySearch, KeyCloseSearch,
                KeySearchMove, KeyType
  <2> QED
    BY <2>1, KeysKeepBlocks
<1>9. CASE KeyDelete \/ KeyEnter \/ \E c \in Contexts : KeyMark(c) \/ KeyPin(c)
  <2>1. \E in : Key(in)
    BY <1>9, Zenon DEF KeyDelete, KeyEnter, KeyMark, KeyPin
  <2>2. \E m : Ask(m) /\ ~ Persists(m)
    BY <1>9, OtherKeysAsk
  <2> QED
    BY <2>1, <2>2, KeysKeepBlocks
<1>10. CASE Restart
  BY <1>10, RestartKeepsBlocks
<1>11. CASE UNCHANGED vars
  <2>1. UNCHANGED <<db, worker, queue, received>>
    BY <1>11 DEF vars, hist
  <2> QED
    BY <2>1, BlocksStay
<1> QED
  BY <1>1, <1>2, <1>3, <1>4, <1>5, <1>6, <1>7, <1>8, <1>9, <1>10, <1>11 DEF Next

LEMMA NextInvariant == IInv /\ [Next]_vars => IInv'
BY NextKeepsMarks, NextKeepsBlocks DEF IInv

\* The invariant holds of every behaviour, with any number of labels, contexts,
\* blocks, queries and restarts, a transaction in several blocks included, and
\* with any failure of the worker.
THEOREM InductiveInvariant == Spec => []IInv
<1>1. Init => IInv
  BY InitInvariant
<1>2. IInv /\ [Next]_vars => IInv'
  BY NextInvariant
<1> QED
  BY <1>1, <1>2, PTL DEF Spec

\* The variables keep their types, the index that '[' and ']' move is that of a
\* mark, and no two marks share a label: add_or_replace, remove_by_label and
\* load_from_persistence of src/marks.rs.
THEOREM TypesHold == Spec => []TypeOK
<1>1. IInv => TypeOK
  BY DEF IInv, MarksInv
<1> QED
  BY <1>1, InductiveInvariant, PTL

\* While the worker runs and no statement has failed, the marks in memory and in
\* the database agree between two keys: what JumpMarks tells the worker
\* (src/marks.rs) is what its statements do (src/history.rs).
THEOREM MarksAgree == Spec => []MarksMirrored
<1>1. IInv => MarksMirrored
  BY DEF IInv, MarksInv, Mirror, MarksMirrored
<1> QED
  BY <1>1, InductiveInvariant, PTL

\* The list of marks on screen is the current one after each key that changes it,
\* and its selection is in it.
THEOREM OverlayIsCurrent == Spec => []OverlayCurrent
<1>1. IInv => OverlayCurrent
  BY DEF IInv, MarksInv
<1> QED
  BY <1>1, InductiveInvariant, PTL

\* The hits of a table are those of its rows.
LEMMA HitsOfRows ==
    ASSUME NEW f, NEW q
    PROVE  Hits(f, q) = {[height |-> r.height, hash |-> r.tx.hash] :
                            r \in {k \in RowsOf(f) : Matches(k.height, k.tx, q)}}
<1> DEFINE T == {[height |-> r.height, hash |-> r.tx.hash] :
                    r \in {k \in RowsOf(f) : Matches(k.height, k.tx, q)}}
<1>1. ASSUME NEW x \in Hits(f, q) PROVE x \in T
  <2>1. PICK h \in DOMAIN f : \E t \in f[h] :
                Matches(h, t, q) /\ x = [height |-> h, hash |-> t.hash]
    BY DEF Hits
  <2>2. PICK t \in f[h] : Matches(h, t, q) /\ x = [height |-> h, hash |-> t.hash]
    BY <2>1
  <2>3. PICK r : r = [height |-> h, tx |-> t]
    OBVIOUS
  <2>4. r \in RowsOf(f) /\ r.height = h /\ r.tx = t
    BY <2>3, RowsMember
  <2> QED
    BY <2>2, <2>4
<1>2. ASSUME NEW x \in T PROVE x \in Hits(f, q)
  <2>1. PICK r \in RowsOf(f) : /\ Matches(r.height, r.tx, q)
                               /\ x = [height |-> r.height, hash |-> r.tx.hash]
    OBVIOUS
  <2>2. PICK h \in DOMAIN f : \E t \in f[h] : r = [height |-> h, tx |-> t]
    BY RowsMember
  <2>3. PICK t \in f[h] : r = [height |-> h, tx |-> t]
    BY <2>2
  <2>4. r.height = h /\ r.tx = t
    BY <2>3
  <2> QED
    BY <2>1, <2>4 DEF Hits
<1> QED
  BY <1>1, <1>2

\* A search finds what was received before it, at the height where it was received
\* last: the blocks were written before it is served, in the order of the channel,
\* and what search_db returns are the newest of their rows that match, up to the
\* limit.
THEOREM SearchesAreCurrent == Spec => SearchIsCurrent
<1> DEFINE q == ParseQuery(query)
           rows == Known(received, Len(received))
           found == {[height |-> r.height, hash |-> r.tx.hash] :
                        r \in {k \in rows : Matches(k.height, k.tx, q)}}
           Body == /\ ToSet(results') \subseteq found
                   /\ Len(results') = (IF Cardinality(found) < HitLimit THEN Cardinality(found)
                                                                         ELSE HitLimit)
                   /\ \A i \in DOMAIN results', x \in found \ ToSet(results') :
                         results'[i].height >= x.height
<1>1. ASSUME IInv, WorkerSearches PROVE Body
  <2>1. worker = "running" /\ queue # <<>> /\ Head(queue).op = "search"
          /\ results' = Search(db, Head(queue).query)
    BY <1>1 DEF WorkerSearches, Serves, Found
  <2>2. QueueOK /\ AskOK /\ SearchInv
    BY <1>1 DEF IInv, MarksInv
  <2>3. ~ Persists(Head(queue))
    BY <2>1 DEF Persists
  <2>4. Head(queue) = Asked /\ Asked.op = wait /\ NoBlockIn(queue)
    BY <2>1, <2>2, <2>3, ServedIsAsked, ServedAlone
  <2>5. Head(queue).query = query
    BY <2>1, <2>2, <2>4 DEF AskOK
  <2>6. results' = Search(db, query)
    BY <2>1, <2>5
  <2>7. FiniteBlocks(db.blocks) /\ rows = RowsOf(db.blocks)
    BY <2>1, <2>2, <2>4, AllStored DEF SearchInv
  <2> HIDE DEF rows
  <2>8. found = Hits(db.blocks, q)
    BY <2>7, HitsOfRows
  <2> HIDE DEF found
  <2> QED
    BY <2>6, <2>7, <2>8, SearchFinds
<1>2. IInv /\ [Next]_vars => [WorkerSearches => Body]_vars
  BY <1>1
<1> QED
  BY <1>2, InductiveInvariant, PTL DEF Spec, SearchIsCurrent
=============================================================================
