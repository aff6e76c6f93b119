----------------------- MODULE CalendarCoverage_proofs -----------------------
(***************************************************************************)
(* Proofs about the range arithmetic of CalendarCoverage, for any number   *)
(* of ranges: what missing_coverage_ranges does not report as missing is   *)
(* covered by one of the ranges it was given, and what it reports by none. *)
(*                                                                         *)
(* The folds are recursive functions.  That they exist, and what they      *)
(* return, is proved by the least number at which it would be wrong.       *)
(***************************************************************************)
EXTENDS CalendarCoverage, SequenceTheorems, FiniteSetTheorems, TLAPS

\* A set of natural numbers has a least element; a bounded one a greatest.
LEMMA FirstOf ==
  ASSUME NEW S \in SUBSET Nat, S # {}
  PROVE  \E m \in S : \A x \in S : m <= x
<1> DEFINE R == {ss \in Nat \X Nat : ss[1] < ss[2]}
<1>1. IsWellFoundedOn(R, Nat)
  BY NatLessThanWellFounded DEF OpToRel
<1>2. PICK m \in S : \A y \in S : ~(<<y, m>> \in R)
  <2> HIDE DEF R
  <2> QED BY <1>1, WFMin
<1>3. \A y \in S : ~(y < m)
  BY <1>2
<1> QED BY <1>3

LEMMA MaxOf ==
  ASSUME NEW n \in Nat, NEW S \in SUBSET (0 .. n), S # {}
  PROVE  Max(S) \in S /\ \A x \in S : Max(S) >= x
<1> DEFINE T == {n - x : x \in S}
<1>1. T \in SUBSET Nat /\ T # {}
  <2>1. \A x \in S : n - x \in Nat
    OBVIOUS
  <2> QED BY <2>1
<1> HIDE DEF T
<1>2. PICK t \in T : \A y \in T : t <= y
  BY <1>1, FirstOf
<1>3. PICK m \in S : t = n - m
  BY DEF T
<1>4. ASSUME NEW x \in S PROVE m >= x
  <2>1. n - x \in T
    BY DEF T
  <2>2. n - m <= n - x /\ x \in Int /\ m \in Int
    BY <1>2, <1>3, <2>1
  <2> QED BY <2>2
<1> QED BY <1>4 DEF Max

-----------------------------------------------------------------------------
(***************************************************************************)
(* Sorting                                                                 *)
(***************************************************************************)
Ranges == [from : Nat, to : Nat]
Bounded(n) == [from : 0 .. n, to : 0 .. n]

LEMMA EarlierOrders ==
  ASSUME NEW a \in Ranges, NEW b \in Ranges, NEW c \in Ranges
  PROVE  /\ a # b => Earlier(a, b) \/ Earlier(b, a)
         /\ Earlier(a, b) /\ Earlier(b, c) => Earlier(a, c)
         /\ ~Earlier(a, a)
<1>1. a = b <=> a.from = b.from /\ a.to = b.to
  BY DEF Ranges
<1>2. /\ a.from \in Nat /\ a.to \in Nat /\ b.from \in Nat /\ b.to \in Nat
      /\ c.from \in Nat /\ c.to \in Nat
  BY DEF Ranges
<1> QED BY <1>1, <1>2 DEF Earlier

\* A set of ranges has a latest one.
LEMMA LatestOf ==
  ASSUME NEW n \in Nat, NEW R \in SUBSET Bounded(n), R # {}
  PROVE  \E l \in R : \A r \in R \ {l} : Earlier(r, l)
<1> DEFINE froms == {r.from : r \in R}
           last == Max(froms)
           tos == {r.to : r \in {q \in R : q.from = last}}
<1>1. last \in froms /\ \A x \in froms : last >= x
  <2>1. froms \in SUBSET (0 .. n) /\ froms # {}
    BY DEF Bounded
  <2> HIDE DEF froms
  <2> QED BY <2>1, MaxOf
<1> HIDE DEF last
<1>2. Max(tos) \in tos /\ \A x \in tos : Max(tos) >= x
  <2>1. tos \in SUBSET (0 .. n) /\ tos # {}
    BY <1>1 DEF Bounded
  <2> HIDE DEF tos
  <2> QED BY <2>1, MaxOf
<1>3. PICK l \in R : l.from = last /\ l.to = Max(tos)
  BY <1>2
<1>4. ASSUME NEW r \in R, r # l PROVE Earlier(r, l)
  <2>1. r.from \in Nat /\ r.to \in Nat /\ l.from \in Nat /\ l.to \in Nat
        /\ (r.from # l.from \/ r.to # l.to)
    BY <1>4 DEF Bounded
  <2>2. r.from <= l.from
    BY <1>1, <1>3, <2>1
  <2>3. r.from = l.from => r.to \in tos
    BY <1>3
  <2>4. r.from = l.from => r.to <= l.to
    BY <1>2, <1>3, <2>1, <2>3
  <2> QED BY <2>1, <2>2, <2>4 DEF Earlier
<1> QED BY <1>4

Sorted(s, R, n) ==
  /\ s \in [1 .. n -> R]
  /\ \A i, j \in 1 .. n : i < j => Earlier(s[i], s[j])

\* A finite set of ranges can be sorted.
LEMMA SortExists ==
  ASSUME NEW n \in Nat, NEW R \in SUBSET Bounded(n), IsFiniteSet(R)
  PROVE  \E s : Sorted(s, R, Cardinality(R))
<1> DEFINE Bad == {m \in Nat : \E S \in SUBSET R : Cardinality(S) = m /\ ~\E s : Sorted(s, S, m)}
<1>1. Bad = {}
  <2> SUFFICES ASSUME Bad # {} PROVE FALSE
    OBVIOUS
  <2>1. PICK m \in Bad : \A k \in Bad : m <= k
    <3>1. Bad \in SUBSET Nat
      OBVIOUS
    <3> HIDE DEF Bad
    <3> QED BY <3>1, FirstOf
  <2>2. PICK S \in SUBSET R : Cardinality(S) = m /\ ~\E s : Sorted(s, S, m)
    OBVIOUS
  <2>3. IsFiniteSet(S) /\ m \in Nat
    BY FS_Subset
  <2>4. S # {}
    <3> SUFFICES ASSUME S = {} PROVE FALSE
      OBVIOUS
    <3>1. m = 0
      BY <2>2, FS_EmptySet
    <3>2. Sorted(<<>>, S, m)
      BY <3>1 DEF Sorted
    <3> QED BY <2>2, <3>2
  <2>5. PICK l \in S : \A r \in S \ {l} : Earlier(r, l)
    BY <2>4, LatestOf
  <2> DEFINE T == S \ {l}
  <2>6. m - 1 \in Nat /\ Cardinality(T) = m - 1 /\ T \in SUBSET R
    <3>1. Cardinality(T) = m - 1 /\ IsFiniteSet(T)
      BY <2>2, <2>3, FS_RemoveElement
    <3> QED BY <3>1, FS_CardinalityType
  <2>7. PICK s : Sorted(s, T, m - 1)
    <3>1. m - 1 \notin Bad
      <4> HIDE DEF Bad
      <4> QED BY <2>1, <2>3, <2>6
    <3> QED BY <2>6, <3>1
  <2> DEFINE t == [i \in 1 .. m |-> IF i = m THEN l ELSE s[i]]
  <2>8. Sorted(t, S, m)
    <3>1. \A i \in 1 .. m : i # m => i \in 1 .. m - 1
      BY <2>3
    <3>2. t \in [1 .. m -> S]
      BY <2>7, <3>1 DEF Sorted
    <3>3. ASSUME NEW i \in 1 .. m, NEW j \in 1 .. m, i < j PROVE Earlier(t[i], t[j])
      <4>1. i # m /\ t[i] = s[i] /\ i \in 1 .. m - 1 /\ s[i] \in T
        BY <2>3, <2>7, <3>3, <3>1 DEF Sorted
      <4>2. CASE j = m
        BY <2>5, <4>1, <4>2
      <4>3. CASE j # m
        BY <2>7, <3>1, <3>3, <4>1, <4>3 DEF Sorted
      <4> QED BY <4>2, <4>3
    <3> QED BY <3>2, <3>3 DEF Sorted
  <2> QED BY <2>2, <2>8
<1>2. Cardinality(R) \in Nat
  BY FS_CardinalityType
<1> QED BY <1>1, <1>2

LEMMA OrderedSorts ==
  ASSUME NEW n \in Nat, NEW R \in SUBSET Bounded(n), IsFiniteSet(R)
  PROVE  Sorted(Ordered(R), R, Cardinality(R))
<1> DEFINE m == Cardinality(R)
<1>1. PICK s : Sorted(s, R, m)
  BY SortExists
<1>2. s \in [1 .. m -> R] /\ \A i, j \in DOMAIN s : i < j => Earlier(s[i], s[j])
  BY <1>1 DEF Sorted
<1>3. /\ Ordered(R) \in [1 .. m -> R]
      /\ \A i, j \in DOMAIN Ordered(R) : i < j => Earlier(Ordered(R)[i], Ordered(R)[j])
  BY <1>2 DEF Ordered
<1> QED BY <1>3 DEF Sorted

-----------------------------------------------------------------------------
(***************************************************************************)
(* Folding a sequence from the left                                        *)
(***************************************************************************)
FoldOf(g, n, S, base, F) ==
  /\ g \in [SUBSET (1 .. n) -> S]
  /\ \A s \in SUBSET (1 .. n) :
       g[s] = IF s = {} THEN base ELSE F[<<g[s \ {Max(s)}], Max(s)>>]

\* The recursive function of a fold over 1 .. n exists.
LEMMA FoldExists ==
  ASSUME NEW n \in Nat, NEW S, NEW base \in S, NEW F \in [S \X (1 .. n) -> S]
  PROVE  \E g : FoldOf(g, n, S, base, F)
<1> DEFINE Folds(g, m) == FoldOf(g, m, S, base, F)
           Bad == {m \in 0 .. n : ~\E g : Folds(g, m)}
<1>0. \A m \in 0 .. n : \A s \in SUBSET (1 .. m) :
        s # {} => Max(s) \in s /\ \A x \in s : Max(s) >= x
  <2> SUFFICES ASSUME NEW m \in 0 .. n, NEW s \in SUBSET (1 .. m), s # {}
               PROVE  Max(s) \in s /\ \A x \in s : Max(s) >= x
    OBVIOUS
  <2>1. m \in Nat /\ s \in SUBSET (0 .. m)
    OBVIOUS
  <2> QED BY <2>1, MaxOf
<1>1. Bad = {}
  <2> SUFFICES ASSUME Bad # {} PROVE FALSE
    OBVIOUS
  <2>1. PICK m \in Bad : \A k \in Bad : m <= k
    <3>1. Bad \in SUBSET Nat
      OBVIOUS
    <3> HIDE DEF Bad
    <3> QED BY <3>1, FirstOf
  <2>2. m # 0
    <3> SUFFICES ASSUME m = 0 PROVE FALSE
      OBVIOUS
    <3> DEFINE g == [s \in SUBSET (1 .. 0) |-> base]
    <3>1. \A s \in SUBSET (1 .. 0) : s = {}
      OBVIOUS
    <3>2. Folds(g, 0)
      BY <3>1 DEF FoldOf
    <3> QED BY <3>2
  <2>3. m \in 1 .. n /\ m - 1 \in 0 .. n
    BY <2>2
  <2>4. PICK g : Folds(g, m - 1)
    <3>1. m - 1 \notin Bad
      <4> HIDE DEF Bad
      <4> QED BY <2>1, <2>3
    <3> QED BY <2>3, <3>1
  <2> DEFINE h == [s \in SUBSET (1 .. m) |->
                     IF m \in s THEN F[<<g[s \ {m}], m>>] ELSE g[s]]
  <2>5. \A s \in SUBSET (1 .. m) : s \ {m} \in SUBSET (1 .. (m - 1))
    BY <2>3
  <2>6. \A s \in SUBSET (1 .. m) : m \in s => Max(s) = m
    <3> SUFFICES ASSUME NEW s \in SUBSET (1 .. m), m \in s PROVE Max(s) = m
      OBVIOUS
    <3>1. Max(s) \in s /\ Max(s) >= m
      BY <1>0, <2>3
    <3>2. Max(s) \in 1 .. m
      BY <3>1
    <3> HIDE DEF Max
    <3> QED BY <2>3, <3>1, <3>2
  <2>7. h \in [SUBSET (1 .. m) -> S]
    <3> SUFFICES ASSUME NEW s \in SUBSET (1 .. m)
                 PROVE  (IF m \in s THEN F[<<g[s \ {m}], m>>] ELSE g[s]) \in S
      OBVIOUS
    <3>1. g[s \ {m}] \in S
      BY <2>4, <2>5 DEF FoldOf
    <3>2. m \notin s => g[s] \in S
      <4>1. m \notin s => s \ {m} = s
        OBVIOUS
      <4> QED BY <3>1, <4>1
    <3> QED BY <2>3, <3>1, <3>2
  <2>8. ASSUME NEW s \in SUBSET (1 .. m)
        PROVE  h[s] = IF s = {} THEN base ELSE F[<<h[s \ {Max(s)}], Max(s)>>]
    <3>1. CASE m \in s
      <4>1. Max(s) = m /\ s \ {m} \in SUBSET (1 .. m) /\ s # {}
        BY <2>6, <3>1
      <4>2. h[s \ {m}] = g[s \ {m}]
        BY <4>1
      <4> QED BY <3>1, <4>1, <4>2
    <3>2. CASE m \notin s
      <4>1. s \in SUBSET (1 .. (m - 1))
        BY <2>5, <3>2
      <4>2. h[s] = g[s]
        BY <3>2
      <4>3. CASE s = {}
        BY <2>4, <4>1, <4>2, <4>3 DEF FoldOf
      <4>4. CASE s # {}
        <5>1. s \ {Max(s)} \in SUBSET (1 .. m) /\ m \notin s \ {Max(s)}
          BY <3>2
        <5>2. h[s \ {Max(s)}] = g[s \ {Max(s)}]
          BY <5>1
        <5>3. g[s] = F[<<g[s \ {Max(s)}], Max(s)>>]
          BY <2>4, <4>1, <4>4 DEF FoldOf
        <5> QED BY <4>2, <4>4, <5>2, <5>3
      <4> QED BY <4>3, <4>4
    <3> QED BY <3>1, <3>2
  <2>9. Folds(h, m)
    BY <2>7, <2>8 DEF FoldOf
  <2>10. ~\E f : Folds(f, m)
    OBVIOUS
  <2> HIDE DEF Folds, h
  <2> QED BY <2>9, <2>10
<1>2. n \in 0 .. n
  OBVIOUS
<1>3. PICK g : Folds(g, n)
  BY <1>1, <1>2
<1> QED BY <1>3

\* Going through 1 .. n one by one.
LEMMA UpTo ==
  ASSUME NEW k \in Nat, k # 0
  PROVE  Max(1 .. k) = k /\ (1 .. k) \ {k} = 1 .. (k - 1) /\ 1 .. k # {}
<1>1. 1 .. k \in SUBSET (0 .. k) /\ k \in 1 .. k
  OBVIOUS
<1>2. Max(1 .. k) \in 1 .. k /\ Max(1 .. k) >= k
  BY <1>1, MaxOf
<1> QED BY <1>1, <1>2

-----------------------------------------------------------------------------
\* Joining ranges one by one.
Merges == Seq(Ranges) \ {<<>>}

LEMMA JoinedType ==
  ASSUME NEW m \in Merges, NEW r \in Ranges
  PROVE  Joined(m, r) \in Merges
<1> DEFINE last == m[Len(m)]
<1>1. m \in Seq(Ranges) /\ Len(m) \in 1 .. Len(m) /\ Len(m) \in DOMAIN m
  BY DEF Merges
<1>2. last \in Ranges
  BY <1>1, ElementOfSeq
<1>3. Larger(last.to, r.to) \in Nat
  BY <1>2 DEF Larger, Ranges
<1> DEFINE longer == [last EXCEPT !.to = Larger(last.to, r.to)]
<1>4. longer \in Ranges
  BY <1>2, <1>3 DEF Ranges
<1>5. Joined(m, r) = [m EXCEPT ![Len(m)] = longer] \/ Joined(m, r) = Append(m, r)
  BY DEF Joined
<1> HIDE DEF longer
<1>6. [m EXCEPT ![Len(m)] = longer] \in Merges
  <2>1. /\ [m EXCEPT ![Len(m)] = longer] \in Seq(Ranges)
        /\ Len([m EXCEPT ![Len(m)] = longer]) = Len(m)
    BY <1>1, <1>4, ExceptSeq
  <2> QED BY <1>1, <2>1 DEF Merges
<1>7. Append(m, r) \in Merges
  <2>1. Append(m, r) \in Seq(Ranges) /\ Append(m, r) # <<>>
    BY <1>1, AppendProperties
  <2> QED BY <2>1 DEF Merges
<1> QED BY <1>5, <1>6, <1>7

\* A fold goes through the sequence step by step.
LEMMA JoinedChain ==
  ASSUME NEW base \in Merges, NEW q \in Seq(Ranges)
  PROVE  \E w : /\ w[0] = base
                /\ \A k \in 1 .. Len(q) : w[k] = Joined(w[k - 1], q[k])
                /\ FoldLeft(Joined, base, q) = w[Len(q)]
<1> DEFINE n == Len(q)
           F == [p \in Merges \X (1 .. n) |-> Joined(p[1], q[p[2]])]
           Iterates(g) ==
             g = [s \in SUBSET DOMAIN q |->
                    IF s = {} THEN base ELSE Joined(g[s \ {Max(s)}], q[Max(s)])]
           iter == CHOOSE g : Iterates(g)
<1>1. n \in Nat /\ DOMAIN q = 1 .. n
  OBVIOUS
<1>2. F \in [Merges \X (1 .. n) -> Merges]
  <2>1. \A i \in 1 .. n : q[i] \in Ranges
    OBVIOUS
  <2> QED BY <2>1, JoinedType
<1>3. PICK g : FoldOf(g, n, Merges, base, F)
  <2>1. n \in Nat /\ base \in Merges /\ F \in [Merges \X (1 .. n) -> Merges]
    BY <1>1, <1>2
  <2> QED BY <2>1, FoldExists
<1>4. ASSUME NEW s \in SUBSET (1 .. n), s # {}
      PROVE  F[<<g[s \ {Max(s)}], Max(s)>>] = Joined(g[s \ {Max(s)}], q[Max(s)])
  <2>1. s \in SUBSET (0 .. n)
    BY <1>1
  <2>2. Max(s) \in 1 .. n /\ s \ {Max(s)} \in SUBSET (1 .. n)
    BY <1>1, <1>4, <2>1, MaxOf
  <2>3. g[s \ {Max(s)}] \in Merges
    BY <1>3, <2>2 DEF FoldOf
  <2> HIDE DEF Max, n
  <2> QED BY <2>2, <2>3
<1>5. Iterates(g)
  <2> HIDE DEF F, n
  <2> QED BY <1>1, <1>3, <1>4 DEF FoldOf
<1>6. Iterates(iter)
  <2> HIDE DEF Iterates
  <2> QED BY <1>5
<1>7. FoldLeft(Joined, base, q) = iter[DOMAIN q]
  BY DEF FoldLeft, MapThenFoldSet
<1> HIDE DEF iter
<1> DEFINE w == [k \in 0 .. n |-> iter[1 .. k]]
<1>8. w[0] = base
  <2>1. 1 .. 0 = {} /\ 0 \in 0 .. n
    BY <1>1
  <2> QED BY <1>6, <2>1
<1>9. ASSUME NEW k \in 1 .. n PROVE w[k] = Joined(w[k - 1], q[k])
  <2>1. k \in Nat /\ k # 0 /\ k \in 0 .. n /\ k - 1 \in 0 .. n
    BY <1>1
  <2>2. Max(1 .. k) = k /\ (1 .. k) \ {k} = 1 .. (k - 1) /\ 1 .. k # {}
    BY <2>1, UpTo
  <2>3. 1 .. k \in SUBSET DOMAIN q
    BY <1>1
  <2>4. iter[1 .. k] = Joined(iter[(1 .. k) \ {Max(1 .. k)}], q[Max(1 .. k)])
    <3> DEFINE s == 1 .. k
    <3>1. s \in SUBSET DOMAIN q /\ s # {}
      BY <2>2, <2>3
    <3> HIDE DEF s
    <3>2. iter[s] = Joined(iter[s \ {Max(s)}], q[Max(s)])
      BY <1>6, <3>1
    <3> QED BY <3>2 DEF s
  <2> QED BY <2>1, <2>2, <2>4
<1>10. FoldLeft(Joined, base, q) = w[n]
  <2>1. n \in 0 .. n
    BY <1>1
  <2> HIDE DEF n
  <2> QED BY <1>1, <1>7, <2>1
<1> HIDE DEF w
<1> QED BY <1>8, <1>9, <1>10

-----------------------------------------------------------------------------
\* The days of a sequence of ranges are days of the ranges it was made of.
Within(m, R) == \A j \in DOMAIN m : \A d \in Int : Covers(m[j], d) => \E r \in R : Covers(r, d)

LEMMA JoinedWithin ==
  ASSUME NEW R \in SUBSET Ranges, NEW m \in Merges, Within(m, R), NEW r \in R
  PROVE  Within(Joined(m, r), R)
<1> DEFINE last == m[Len(m)]
           longer == [last EXCEPT !.to = Larger(last.to, r.to)]
<1>1. /\ m \in Seq(Ranges) /\ Len(m) \in Nat /\ Len(m) \in DOMAIN m /\ DOMAIN m = 1 .. Len(m)
  BY DEF Merges
<1>2. last \in Ranges /\ r \in Ranges
  BY <1>1, ElementOfSeq
<1>3. CASE r.from <= last.to + 1
  <2>1. Joined(m, r) = [m EXCEPT ![Len(m)] = longer]
    BY <1>3 DEF Joined
  <2>2. longer.from = last.from /\ longer.to = Larger(last.to, r.to)
    BY <1>2 DEF Ranges
  <2>3. ASSUME NEW d \in Int, Covers(longer, d) PROVE Covers(last, d) \/ Covers(r, d)
    <3>1. /\ last.from \in Nat /\ last.to \in Nat /\ r.from \in Nat /\ r.to \in Nat
      BY <1>2 DEF Ranges
    <3>2. last.from <= d /\ d <= Larger(last.to, r.to)
      BY <2>2, <2>3 DEF Covers
    <3> HIDE DEF last
    <3> QED BY <1>3, <3>1, <3>2 DEF Covers, Larger
  <2>4. \A d \in Int : Covers(longer, d) => \E q \in R : Covers(q, d)
    BY <1>1, <2>3 DEF Within
  <2> HIDE DEF longer
  <2>5. DOMAIN Joined(m, r) = DOMAIN m
        /\ \A j \in DOMAIN m : Joined(m, r)[j] = IF j = Len(m) THEN longer ELSE m[j]
    BY <2>1
  <2> QED BY <2>4, <2>5 DEF Within
<1>4. CASE ~(r.from <= last.to + 1)
  <2>1. Joined(m, r) = Append(m, r)
    BY <1>4 DEF Joined
  <2>2. /\ DOMAIN Append(m, r) = 1 .. (Len(m) + 1)
        /\ \A j \in 1 .. (Len(m) + 1) : Append(m, r)[j] = IF j = Len(m) + 1 THEN r ELSE m[j]
    BY <1>1, <1>2, AppendProperties
  <2>3. \A j \in 1 .. (Len(m) + 1) : j = Len(m) + 1 \/ j \in DOMAIN m
    BY <1>1
  <2>4. \A j \in DOMAIN Joined(m, r) : Joined(m, r)[j] = r \/ (j \in DOMAIN m /\ Joined(m, r)[j] = m[j])
    BY <2>1, <2>2, <2>3
  <2> QED BY <2>4 DEF Within
<1> QED BY <1>3, <1>4

\* merge_date_ranges makes up no day.
LEMMA MergedWithin ==
  ASSUME NEW n \in Nat, NEW R \in SUBSET Bounded(n), IsFiniteSet(R)
  PROVE  MergedRanges(R) \in Seq(Ranges) /\ Within(MergedRanges(R), R)
<1> DEFINE q == Ordered(R)
           size == Cardinality(R)
           base == <<q[1]>>
           rest == Tail(q)
<1>0. R \subseteq Ranges
  BY DEF Ranges, Bounded
<1>1. CASE R = {}
  <2>1. MergedRanges(R) = <<>>
    BY <1>1 DEF MergedRanges
  <2> QED BY <2>1 DEF Within
<1>2. CASE R # {}
  <2>1. size \in Nat /\ size # 0
    BY <1>2, FS_CardinalityType, FS_EmptySet
  <2>2. q \in [1 .. size -> R]
    BY OrderedSorts DEF Sorted
  <2> HIDE DEF q, size
  <2>3. q \in Seq(R) /\ Len(q) = size /\ q # <<>>
    BY <2>1, <2>2
  <2>4. q[1] \in R /\ rest \in Seq(R)
    BY <2>1, <2>2, <2>3, HeadTailProperties
  <2>5. base \in Merges /\ rest \in Seq(Ranges) /\ Len(rest) \in Nat
    <3>1. base \in Seq(Ranges) /\ base # <<>>
      BY <1>0, <2>4
    <3>2. rest \in Seq(Ranges) /\ Len(rest) \in Nat
      <4> HIDE DEF rest
      <4> QED BY <1>0, <2>4
    <3> QED BY <3>1, <3>2 DEF Merges
  <2>6. Within(base, R)
    <3>1. DOMAIN base = {1} /\ base[1] = q[1]
      OBVIOUS
    <3> HIDE DEF base
    <3> QED BY <2>4, <3>1 DEF Within
  <2>7. MergedRanges(R) = FoldLeft(Joined, base, rest)
    BY <1>2 DEF MergedRanges, q
  <2> HIDE DEF base, rest
  <2>8. PICK w : /\ w[0] = base
                 /\ \A k \in 1 .. Len(rest) : w[k] = Joined(w[k - 1], rest[k])
                 /\ FoldLeft(Joined, base, rest) = w[Len(rest)]
    BY <2>5, JoinedChain
  <2> DEFINE Bad == {k \in 0 .. Len(rest) : ~(w[k] \in Merges /\ Within(w[k], R))}
  <2>9. Bad = {}
    <3> SUFFICES ASSUME Bad # {} PROVE FALSE
      OBVIOUS
    <3>1. PICK m \in Bad : \A k \in Bad : m <= k
      <4>1. Bad \in SUBSET Nat
        OBVIOUS
      <4> HIDE DEF Bad
      <4> QED BY <4>1, FirstOf
    <3>2. m # 0
      BY <2>5, <2>6, <2>8
    <3>3. m \in 1 .. Len(rest) /\ m - 1 \in 0 .. Len(rest)
      BY <2>5, <3>2
    <3>4. w[m - 1] \in Merges /\ Within(w[m - 1], R)
      <4>1. m - 1 \notin Bad
        <5> HIDE DEF Bad
        <5> QED BY <2>5, <3>1, <3>3
      <4> QED BY <3>3, <4>1
    <3>5. rest[m] \in R
      BY <2>4, <3>3 DEF rest
    <3>6. w[m] = Joined(w[m - 1], rest[m])
      BY <2>8, <3>3
    <3>7. rest[m] \in Ranges
      BY <1>0, <3>5
    <3>8. w[m] \in Merges /\ Within(w[m], R)
      BY <1>0, <3>4, <3>5, <3>6, <3>7, JoinedType, JoinedWithin
    <3> QED BY <3>8
  <2>10. Len(rest) \in 0 .. Len(rest)
    BY <2>5
  <2>11. w[Len(rest)] \in Merges /\ Within(w[Len(rest)], R)
    BY <2>9, <2>10
  <2> QED BY <2>7, <2>8, <2>11 DEF Merges
<1> QED BY <1>1, <1>2

-----------------------------------------------------------------------------
-----------------------------------------------------------------------------
(***************************************************************************)
(* The days that are missing                                               *)
(***************************************************************************)
Walks == [at : Int, gaps : SUBSET [from : Int, to : Int]]

LEMMA PassedType ==
  ASSUME NEW from \in Int, NEW to \in Int, NEW walk \in Walks, NEW r \in Ranges
  PROVE  Passed(from, to, walk, r) \in Walks
<1> DEFINE first == Larger(r.from, from)
           past == Larger(walk.at, Smaller(PastRange(r), to + 1))
           more == IF first > walk.at
                   THEN walk.gaps \union {[from |-> walk.at, to |-> first - 1]} ELSE walk.gaps
<1>1. walk.at \in Int /\ walk.gaps \in SUBSET [from : Int, to : Int] /\ r.from \in Int /\ r.to \in Int
  BY DEF Walks, Ranges
<1>2. first \in Int /\ past \in Int
  BY <1>1 DEF Larger, Smaller, PastRange
<1>3. more \in SUBSET [from : Int, to : Int]
  <2> HIDE DEF first
  <2> QED BY <1>1, <1>2
<1>4. Passed(from, to, walk, r) \in {walk, [at |-> past, gaps |-> more]}
  BY DEF Passed
<1> HIDE DEF past, more
<1> QED BY <1>2, <1>3, <1>4 DEF Walks

\* Without a gap so far, every day up to the place of the walk is covered.
Found(walk, from, R) ==
  walk.gaps = {} => \A d \in from .. (walk.at - 1) : \E r \in R : Covers(r, d)

LEMMA PassedFound ==
  ASSUME NEW R, NEW from \in Int, NEW to \in Int, NEW walk \in Walks, Found(walk, from, R),
         NEW r \in Ranges, \A d \in Int : Covers(r, d) => \E q \in R : Covers(q, d)
  PROVE  Found(Passed(from, to, walk, r), from, R)
<1> DEFINE first == Larger(r.from, from)
           past == Larger(walk.at, Smaller(PastRange(r), to + 1))
           more == IF first > walk.at
                   THEN walk.gaps \union {[from |-> walk.at, to |-> first - 1]} ELSE walk.gaps
<1>1. walk.at \in Int /\ r.from \in Int /\ r.to \in Int
  BY DEF Walks, Ranges
<1>2. CASE r.to < from \/ r.from > to
  BY <1>2 DEF Passed
<1>3. CASE ~(r.to < from \/ r.from > to)
  <2>1. Passed(from, to, walk, r) = [at |-> past, gaps |-> more]
    BY <1>3 DEF Passed
  <2>2. ASSUME more = {}, NEW d \in from .. (past - 1)
        PROVE  \E q \in R : Covers(q, d)
    <3>1. walk.gaps = {} /\ ~(first > walk.at)
      BY <2>2
    <3>2. r.from <= walk.at /\ past \in Int
      BY <1>1, <3>1 DEF Larger, Smaller, PastRange
    <3>3. CASE d < walk.at
      BY <1>1, <3>1, <3>2, <3>3 DEF Found
    <3>4. CASE ~(d < walk.at)
      <4>1. d <= r.to
        BY <1>1, <3>2, <3>4 DEF Larger, Smaller, PastRange
      <4>2. Covers(r, d)
        BY <1>1, <3>2, <3>4, <4>1 DEF Covers
      <4> QED BY <3>2, <4>2
    <3> QED BY <3>3, <3>4
  <2> HIDE DEF past, more
  <2> QED BY <2>1, <2>2 DEF Found
<1> QED BY <1>2, <1>3

LEMMA PassedChain ==
  ASSUME NEW from \in Int, NEW to \in Int, NEW base \in Walks, NEW q \in Seq(Ranges)
  PROVE  \E w : /\ w[0] = base
                /\ \A k \in 1 .. Len(q) : w[k] = Passed(from, to, w[k - 1], q[k])
                /\ Walked(from, to, base, q) = w[Len(q)]
<1> DEFINE n == Len(q)
           F == [p \in Walks \X (1 .. n) |-> Passed(from, to, p[1], q[p[2]])]
           Iterates(g) ==
             g = [s \in SUBSET DOMAIN q |->
                    IF s = {} THEN base ELSE Passed(from, to, g[s \ {Max(s)}], q[Max(s)])]
           iter == CHOOSE g : Iterates(g)
<1>1. n \in Nat /\ DOMAIN q = 1 .. n
  OBVIOUS
<1>2. F \in [Walks \X (1 .. n) -> Walks]
  <2>1. \A i \in 1 .. n : q[i] \in Ranges
    OBVIOUS
  <2> QED BY <2>1, PassedType
<1>3. PICK g : FoldOf(g, n, Walks, base, F)
  <2>1. n \in Nat /\ base \in Walks /\ F \in [Walks \X (1 .. n) -> Walks]
    BY <1>1, <1>2
  <2> QED BY <2>1, FoldExists
<1>4. ASSUME NEW s \in SUBSET (1 .. n), s # {}
      PROVE  F[<<g[s \ {Max(s)}], Max(s)>>] = Passed(from, to, g[s \ {Max(s)}], q[Max(s)])
  <2>1. s \in SUBSET (0 .. n)
    BY <1>1
  <2>2. Max(s) \in 1 .. n /\ s \ {Max(s)} \in SUBSET (1 .. n)
    BY <1>1, <1>4, <2>1, MaxOf
  <2>3. g[s \ {Max(s)}] \in Walks
    BY <1>3, <2>2 DEF FoldOf
  <2> HIDE DEF Max, n
  <2> QED BY <2>2, <2>3
<1>5. Iterates(g)
  <2> HIDE DEF F, n
  <2> QED BY <1>1, <1>3, <1>4 DEF FoldOf
<1>6. Iterates(iter)
  <2> HIDE DEF Iterates
  <2> QED BY <1>5
<1>7. Walked(from, to, base, q) = iter[DOMAIN q]
  BY DEF Walked, FoldLeft, MapThenFoldSet
<1> HIDE DEF iter
<1> DEFINE w == [k \in 0 .. n |-> iter[1 .. k]]
<1>8. w[0] = base
  <2>1. 1 .. 0 = {} /\ 0 \in 0 .. n
    BY <1>1
  <2> QED BY <1>6, <2>1
<1>9. ASSUME NEW k \in 1 .. n PROVE w[k] = Passed(from, to, w[k - 1], q[k])
  <2>1. k \in Nat /\ k # 0 /\ k \in 0 .. n /\ k - 1 \in 0 .. n
    BY <1>1
  <2>2. Max(1 .. k) = k /\ (1 .. k) \ {k} = 1 .. (k - 1) /\ 1 .. k # {}
    BY <2>1, UpTo
  <2>3. 1 .. k \in SUBSET DOMAIN q
    BY <1>1
  <2>4. iter[1 .. k] = Passed(from, to, iter[(1 .. k) \ {Max(1 .. k)}], q[Max(1 .. k)])
    <3> DEFINE s == 1 .. k
    <3>1. s \in SUBSET DOMAIN q /\ s # {}
      BY <2>2, <2>3
    <3> HIDE DEF s
    <3>2. iter[s] = Passed(from, to, iter[s \ {Max(s)}], q[Max(s)])
      BY <1>6, <3>1
    <3> QED BY <3>2 DEF s
  <2> QED BY <2>1, <2>2, <2>4
<1>10. Walked(from, to, base, q) = w[n]
  <2>1. n \in 0 .. n
    BY <1>1
  <2> HIDE DEF n
  <2> QED BY <1>1, <1>7, <2>1
<1> HIDE DEF w
<1> QED BY <1>8, <1>9, <1>10

\* What missing_coverage_ranges does not report is covered by a range it was
\* given, in whatever order the ranges come, overlap, touch or leave gaps.
THEOREM NotMissingIsCovered ==
  ASSUME NEW n \in Nat, NEW R \in SUBSET Bounded(n), IsFiniteSet(R),
         NEW from \in Int, NEW to \in Int, MissingRanges(from, to, R) = {}
  PROVE  \A d \in from .. to : \E r \in R : Covers(r, d)
<1> DEFINE q == MergedRanges(R)
           base == [at |-> from, gaps |-> {}]
           done == Walked(from, to, base, q)
<1>1. q \in Seq(Ranges) /\ Within(q, R)
  BY MergedWithin
<1>2. base \in Walks /\ Found(base, from, R)
  BY DEF Walks, Found
<1>3. done.gaps = {} /\ ~(done.at <= to)
  <2>1. done.gaps \union (IF done.at <= to THEN {[from |-> done.at, to |-> to]} ELSE {}) = {}
    BY DEF MissingRanges
  <2> HIDE DEF done
  <2> QED BY <2>1
<1> HIDE DEF q, base
<1>4. PICK w : /\ w[0] = base
               /\ \A k \in 1 .. Len(q) : w[k] = Passed(from, to, w[k - 1], q[k])
               /\ done = w[Len(q)]
  BY <1>1, <1>2, PassedChain
<1> HIDE DEF done
<1>5. Len(q) \in Nat /\ DOMAIN q = 1 .. Len(q)
  BY <1>1
<1> DEFINE Bad == {k \in 0 .. Len(q) : ~(w[k] \in Walks /\ Found(w[k], from, R))}
<1>6. Bad = {}
  <2> SUFFICES ASSUME Bad # {} PROVE FALSE
    OBVIOUS
  <2>1. PICK m \in Bad : \A k \in Bad : m <= k
    <3>1. Bad \in SUBSET Nat
      OBVIOUS
    <3> HIDE DEF Bad
    <3> QED BY <3>1, FirstOf
  <2>2. m # 0
    BY <1>2, <1>4
  <2>3. m \in 1 .. Len(q) /\ m - 1 \in 0 .. Len(q)
    BY <1>5, <2>2
  <2>4. w[m - 1] \in Walks /\ Found(w[m - 1], from, R)
    <3>1. m - 1 \notin Bad
      <4> HIDE DEF Bad
      <4> QED BY <1>5, <2>1, <2>3
    <3> QED BY <2>3, <3>1
  <2>5. q[m] \in Ranges /\ \A d \in Int : Covers(q[m], d) => \E r \in R : Covers(r, d)
    BY <1>1, <1>5, <2>3 DEF Within
  <2>6. w[m] = Passed(from, to, w[m - 1], q[m])
    BY <1>4, <2>3
  <2>7. w[m] \in Walks /\ Found(w[m], from, R)
    BY <2>4, <2>5, <2>6, PassedType, PassedFound
  <2> QED BY <2>7
<1>7. done \in Walks /\ Found(done, from, R)
  <2>1. Len(q) \in 0 .. Len(q)
    BY <1>5
  <2> QED BY <1>4, <1>6, <2>1
<1>8. done.at \in Int
  BY <1>7 DEF Walks
<1>9. \A d \in from .. to : d \in from .. (done.at - 1)
  BY <1>3, <1>8
<1> QED BY <1>3, <1>7, <1>9 DEF Found

-----------------------------------------------------------------------------
-----------------------------------------------------------------------------
(***************************************************************************)
(* And nothing is reported that is covered                                 *)
(***************************************************************************)
\* Sorting loses no range.
LEMMA OrderedAll ==
  ASSUME NEW n \in Nat, NEW R \in SUBSET Bounded(n), IsFiniteSet(R), NEW r \in R
  PROVE  \E i \in 1 .. Cardinality(R) : Ordered(R)[i] = r
<1> DEFINE q == Ordered(R)
           size == Cardinality(R)
<1>1. size \in Nat
  BY FS_CardinalityType
<1>2. q \in [1 .. size -> R] /\ \A i, j \in 1 .. size : i < j => Earlier(q[i], q[j])
  BY OrderedSorts DEF Sorted
<1>3. R \subseteq Ranges
  BY DEF Ranges, Bounded
<1> HIDE DEF q, size
<1>4. \A i, j \in 1 .. size : q[i] = q[j] => i = j
  <2> SUFFICES ASSUME NEW i \in 1 .. size, NEW j \in 1 .. size, q[i] = q[j] PROVE i = j
    OBVIOUS
  <2>1. q[i] \in Ranges /\ i \in Int /\ j \in Int
    BY <1>1, <1>2, <1>3
  <2>2. ~Earlier(q[i], q[j]) /\ ~Earlier(q[j], q[i])
    BY <2>1, EarlierOrders
  <2>3. ~(i < j) /\ ~(j < i)
    BY <1>2, <2>2
  <2> QED BY <2>1, <2>3
<1>5. q \in Injection(1 .. size, R)
  BY <1>2, <1>4 DEF Injection, IsInjective
<1>6. IsFiniteSet(1 .. size) /\ Cardinality(1 .. size) = Cardinality(R)
  <2>1. Cardinality(1 .. size) = size
    BY <1>1, FS_Interval
  <2> QED BY <1>1, <2>1, FS_Interval DEF size
<1>7. q \in Surjection(1 .. size, R)
  BY <1>5, <1>6, FS_Injection
<1> QED BY <1>7 DEF Surjection, q, size

Rising(m) == \A i, j \in DOMAIN m : i < j => m[i].from <= m[j].from
Has(m, d) == \E j \in DOMAIN m : Covers(m[j], d)

\* Joining a range that begins no earlier than the last one loses no day.
LEMMA JoinedKeeps ==
  ASSUME NEW m \in Merges, NEW r \in Ranges, Rising(m), m[Len(m)].from <= r.from
  PROVE  /\ Rising(Joined(m, r)) /\ Joined(m, r)[Len(Joined(m, r))].from <= r.from
         /\ \A d \in Int : Has(m, d) \/ Covers(r, d) => Has(Joined(m, r), d)
<1> DEFINE last == m[Len(m)]
           longer == [last EXCEPT !.to = Larger(last.to, r.to)]
           J == Joined(m, r)
<1>1. /\ m \in Seq(Ranges) /\ Len(m) \in Nat /\ Len(m) \in DOMAIN m /\ DOMAIN m = 1 .. Len(m)
  BY DEF Merges
<1>2. last \in Ranges /\ \A i \in DOMAIN m : m[i] \in Ranges
  BY <1>1, ElementOfSeq
<1>3. /\ last.from \in Nat /\ last.to \in Nat /\ r.from \in Nat /\ r.to \in Nat
      /\ \A i \in DOMAIN m : m[i].from \in Nat /\ m[i].to \in Nat
  BY <1>2 DEF Ranges
<1>4. \A i \in DOMAIN m : m[i].from <= last.from
  <2> SUFFICES ASSUME NEW i \in DOMAIN m PROVE m[i].from <= last.from
    OBVIOUS
  <2>1. i = Len(m) \/ i < Len(m)
    BY <1>1
  <2> QED BY <1>1, <1>3, <2>1 DEF Rising
<1>5. CASE r.from <= last.to + 1
  <2>1. J = [m EXCEPT ![Len(m)] = longer]
    BY <1>5 DEF Joined
  <2>2. longer.from = last.from /\ longer.to = Larger(last.to, r.to)
    BY <1>2 DEF Ranges
  <2>3. ASSUME NEW d \in Int, Covers(last, d) \/ Covers(r, d) PROVE Covers(longer, d)
    <3> HIDE DEF last, longer
    <3> QED BY <1>3, <2>2, <2>3 DEF Covers, Larger, last
  <2> HIDE DEF longer, J
  <2>4. DOMAIN J = DOMAIN m /\ Len(J) = Len(m)
        /\ \A j \in DOMAIN m : J[j] = IF j = Len(m) THEN longer ELSE m[j]
    <3>1. DOMAIN J = DOMAIN m /\ \A j \in DOMAIN m : J[j] = IF j = Len(m) THEN longer ELSE m[j]
      BY <2>1
    <3>2. longer \in Ranges
      BY <1>2, <1>3, <2>2 DEF longer, Ranges, Larger
    <3>3. Len(J) = Len(m)
      BY <1>1, <2>1, <3>2, ExceptSeq
    <3> QED BY <3>1, <3>3
  <2>5. \A j \in DOMAIN m : J[j].from = m[j].from
    BY <2>2, <2>4
  <2>6. Rising(J)
    BY <2>4, <2>5 DEF Rising
  <2>7. J[Len(J)].from <= r.from
    BY <1>1, <2>4, <2>5
  <2>8. ASSUME NEW d \in Int, Has(m, d) \/ Covers(r, d) PROVE Has(J, d)
    <3>1. CASE Covers(r, d)
      BY <1>1, <2>3, <2>4, <3>1 DEF Has
    <3>2. CASE Has(m, d)
      <4>1. PICK j \in DOMAIN m : Covers(m[j], d)
        BY <3>2 DEF Has
      <4>2. Covers(J[j], d)
        BY <2>3, <2>4, <4>1
      <4> QED BY <2>4, <4>2 DEF Has
    <3> QED BY <2>8, <3>1, <3>2
  <2> QED BY <2>6, <2>7, <2>8 DEF J
<1>6. CASE ~(r.from <= last.to + 1)
  <2>1. J = Append(m, r)
    BY <1>6 DEF Joined
  <2>2. /\ DOMAIN Append(m, r) = 1 .. (Len(m) + 1) /\ Len(Append(m, r)) = Len(m) + 1
        /\ \A j \in 1 .. (Len(m) + 1) : Append(m, r)[j] = IF j = Len(m) + 1 THEN r ELSE m[j]
    BY <1>1, <1>2, AppendProperties
  <2> HIDE DEF J, last
  <2>3. /\ DOMAIN J = 1 .. (Len(m) + 1) /\ Len(J) = Len(m) + 1 /\ J[Len(m) + 1] = r
        /\ \A j \in DOMAIN m : j \in DOMAIN J /\ J[j] = m[j]
    BY <1>1, <2>1, <2>2
  <2>4. Rising(J)
    <3> SUFFICES ASSUME NEW i \in DOMAIN J, NEW j \in DOMAIN J, i < j PROVE J[i].from <= J[j].from
      BY DEF Rising
    <3>1. i \in DOMAIN m
      BY <1>1, <2>3
    <3>2. J[i].from = m[i].from
      BY <2>3, <3>1
    <3>3. CASE j \in DOMAIN m
      BY <2>3, <3>1, <3>2, <3>3 DEF Rising
    <3>4. CASE j = Len(m) + 1
      <4>1. m[i].from <= r.from
        BY <1>3, <1>4, <3>1 DEF last
      <4> QED BY <2>3, <3>2, <3>4, <4>1
    <3> QED BY <1>1, <2>3, <3>3, <3>4
  <2>5. J[Len(J)].from <= r.from
    BY <1>3, <2>3
  <2>6. ASSUME NEW d \in Int, Has(m, d) \/ Covers(r, d) PROVE Has(J, d)
    <3>1. Len(m) + 1 \in DOMAIN J
      BY <1>1, <2>3
    <3> QED BY <2>3, <2>6, <3>1 DEF Has
  <2> QED BY <2>4, <2>5, <2>6 DEF J
<1> QED BY <1>5, <1>6

\* merge_date_ranges loses no day, and leaves the ranges in order.
LEMMA MergedKeeps ==
  ASSUME NEW n \in Nat, NEW R \in SUBSET Bounded(n), IsFiniteSet(R)
  PROVE  /\ Rising(MergedRanges(R))
         /\ \A r \in R : \A d \in Int : Covers(r, d) => Has(MergedRanges(R), d)
<1> DEFINE q == Ordered(R)
           size == Cardinality(R)
           base == <<q[1]>>
           rest == Tail(q)
<1>0. R \subseteq Ranges
  BY DEF Ranges, Bounded
<1>1. CASE R = {}
  <2>1. MergedRanges(R) = <<>>
    BY <1>1 DEF MergedRanges
  <2> QED BY <1>1, <2>1 DEF Rising
<1>2. CASE R # {}
  <2>1. size \in Nat /\ size # 0
    BY <1>2, FS_CardinalityType, FS_EmptySet
  <2>2. /\ q \in [1 .. size -> R] /\ \A i, j \in 1 .. size : i < j => Earlier(q[i], q[j])
        /\ \A r \in R : \E i \in 1 .. size : q[i] = r
    BY OrderedSorts, OrderedAll DEF Sorted
  <2> HIDE DEF q, size
  <2>3. q \in Seq(R) /\ Len(q) = size /\ q # <<>>
    BY <2>1, <2>2
  <2>4. q[1] \in R /\ rest \in Seq(R) /\ Len(rest) = size - 1
        /\ \A i \in 1 .. Len(rest) : rest[i] = q[i + 1]
    BY <2>1, <2>2, <2>3, HeadTailProperties
  <2>5. base \in Merges /\ rest \in Seq(Ranges) /\ Len(rest) \in Nat
    <3>1. base \in Seq(Ranges) /\ base # <<>>
      BY <1>0, <2>4
    <3>2. rest \in Seq(Ranges) /\ Len(rest) \in Nat
      <4> HIDE DEF rest
      <4> QED BY <1>0, <2>4
    <3> QED BY <3>1, <3>2 DEF Merges
  <2>6. \A i, j \in 1 .. size : i < j => q[i].from <= q[j].from
    <3> SUFFICES ASSUME NEW i \in 1 .. size, NEW j \in 1 .. size, i < j
                 PROVE  q[i].from <= q[j].from
      OBVIOUS
    <3>1. q[i] \in Ranges /\ q[j] \in Ranges /\ Earlier(q[i], q[j])
      BY <1>0, <2>2
    <3> QED BY <3>1 DEF Earlier, Ranges
  <2>7. MergedRanges(R) = FoldLeft(Joined, base, rest)
    BY <1>2 DEF MergedRanges, q
  <2>8. DOMAIN base = {1} /\ base[1] = q[1] /\ Len(base) = 1
    OBVIOUS
  <2> HIDE DEF base, rest
  <2>9. PICK w : /\ w[0] = base
                 /\ \A k \in 1 .. Len(rest) : w[k] = Joined(w[k - 1], rest[k])
                 /\ FoldLeft(Joined, base, rest) = w[Len(rest)]
    BY <2>5, JoinedChain
  <2> DEFINE Good(k) ==
               /\ w[k] \in Merges /\ Rising(w[k]) /\ w[k][Len(w[k])].from <= q[k + 1].from
               /\ \A i \in 1 .. (k + 1) : \A d \in Int : Covers(q[i], d) => Has(w[k], d)
             Bad == {k \in 0 .. Len(rest) : ~Good(k)}
  <2>10. Good(0)
    <3>1. q[1].from <= q[1].from
      BY <1>0, <2>4 DEF Ranges
    <3>2. \A i \in 1 .. (0 + 1) : i = 1
      OBVIOUS
    <3>3. \A d \in Int : Covers(q[1], d) => Has(base, d)
      BY <2>8 DEF Has
    <3>4. Rising(base)
      BY <2>8 DEF Rising
    <3>5. w[0] \in Merges /\ Rising(w[0])
      BY <2>5, <2>9, <3>4
    <3>6. w[0][Len(w[0])].from <= q[0 + 1].from
      <4>1. base[Len(base)] = q[1]
        BY <2>8
      <4>2. w[0][Len(w[0])] = q[1]
        BY <2>9, <4>1
      <4>3. 0 + 1 = 1
        OBVIOUS
      <4> QED BY <3>1, <4>2, <4>3
    <3>7. \A i \in 1 .. (0 + 1) : \A d \in Int : Covers(q[i], d) => Has(w[0], d)
      BY <2>9, <3>2, <3>3
    <3> QED BY <3>5, <3>6, <3>7
  <2>11. Bad = {}
    <3> SUFFICES ASSUME Bad # {} PROVE FALSE
      OBVIOUS
    <3>1. PICK m \in Bad : \A k \in Bad : m <= k
      <4>1. Bad \in SUBSET Nat
        OBVIOUS
      <4> HIDE DEF Bad
      <4> QED BY <4>1, FirstOf
    <3>2. m # 0
      <4>1. ~Good(m)
        OBVIOUS
      <4> HIDE DEF Good
      <4> QED BY <2>10, <4>1
    <3>3. m \in 1 .. Len(rest) /\ m - 1 \in 0 .. Len(rest) /\ m - 1 + 1 = m
          /\ m \in 1 .. size /\ m + 1 \in 1 .. size
      BY <2>1, <2>4, <3>2
    <3>4. Good(m - 1)
      <4>1. m - 1 \notin Bad
        <5> HIDE DEF Bad
        <5> QED BY <3>1, <3>3
      <4> HIDE DEF Good
      <4> QED BY <3>3, <4>1
    <3> DEFINE u == w[m - 1]
               r == q[m + 1]
    <3>5. rest[m] = r /\ r \in Ranges
      BY <1>0, <2>2, <2>4, <3>3
    <3>6. w[m] = Joined(u, r)
      BY <2>9, <3>3, <3>5
    <3>7. u \in Merges /\ Rising(u) /\ u[Len(u)].from <= q[m].from
          /\ \A i \in 1 .. m : \A d \in Int : Covers(q[i], d) => Has(u, d)
      BY <3>3, <3>4
    <3>8. u[Len(u)].from <= r.from
      <4>1. q[m].from <= r.from
        BY <2>6, <3>3
      <4>2. q[m].from \in Nat /\ r.from \in Nat /\ u[Len(u)].from \in Nat
        <5>1. q[m] \in Ranges
          BY <1>0, <2>2, <3>3
        <5>2. u[Len(u)] \in Ranges
          <6>1. u \in Seq(Ranges) /\ Len(u) \in 1 .. Len(u)
            <7> HIDE DEF u
            <7> QED BY <3>7 DEF Merges
          <6> HIDE DEF u
          <6> QED BY <6>1, ElementOfSeq
        <5> QED BY <3>5, <5>1, <5>2 DEF Ranges
      <4> HIDE DEF u, r
      <4> QED BY <3>7, <4>1, <4>2
    <3> HIDE DEF u, r
    <3>9. /\ w[m] \in Merges /\ Rising(w[m]) /\ w[m][Len(w[m])].from <= r.from
          /\ \A d \in Int : Has(u, d) \/ Covers(r, d) => Has(w[m], d)
      BY <3>5, <3>6, <3>7, <3>8, JoinedType, JoinedKeeps
    <3>10. ASSUME NEW i \in 1 .. (m + 1), NEW d \in Int, Covers(q[i], d) PROVE Has(w[m], d)
      <4>1. i \in 1 .. m \/ i = m + 1
        BY <3>3
      <4> QED BY <3>7, <3>9, <3>10, <4>1 DEF r
    <3>11. Good(m)
      BY <3>9, <3>10 DEF r
    <3> HIDE DEF Good
    <3> QED BY <3>11
  <2>12. Good(Len(rest))
    <3>1. Len(rest) \in 0 .. Len(rest)
      BY <2>5
    <3> HIDE DEF Good
    <3> QED BY <2>11, <3>1
  <2>13. Len(rest) + 1 = size
    BY <2>1, <2>4
  <2>14. ASSUME NEW r \in R, NEW d \in Int, Covers(r, d) PROVE Has(MergedRanges(R), d)
    <3>1. PICK i \in 1 .. size : q[i] = r
      BY <2>2
    <3> QED BY <2>7, <2>9, <2>12, <2>13, <2>14, <3>1
  <2> QED BY <2>7, <2>9, <2>12, <2>14
<1> QED BY <1>1, <1>2

-----------------------------------------------------------------------------
\* The walk has passed the first k ranges, and its gaps are between from and to
\* and free of all of them.
Free(walk, from, to, q, k) ==
  /\ walk \in Walks /\ from <= walk.at
  /\ \A g \in walk.gaps : \A d \in g.from .. g.to : from <= d /\ d <= to /\ ~Has(q, d)
  /\ \A j \in 1 .. k : q[j].to < walk.at \/ q[j].from > to \/ walk.at > to

LEMMA PassedFree ==
  ASSUME NEW from \in Int, NEW to \in Int, NEW q \in Seq(Ranges), Rising(q),
         NEW k \in 1 .. Len(q), NEW walk, Free(walk, from, to, q, k - 1)
  PROVE  Free(Passed(from, to, walk, q[k]), from, to, q, k)
<1> DEFINE r == q[k]
           first == Larger(r.from, from)
           past == Larger(walk.at, Smaller(PastRange(r), to + 1))
           gap == [from |-> walk.at, to |-> first - 1]
           more == IF first > walk.at THEN walk.gaps \union {gap} ELSE walk.gaps
           next == Passed(from, to, walk, r)
<1>1. /\ Len(q) \in Nat /\ DOMAIN q = 1 .. Len(q) /\ k \in DOMAIN q /\ k \in Nat
      /\ \A j \in DOMAIN q : q[j] \in Ranges
      /\ \A j \in 1 .. k : j = k \/ j \in 1 .. (k - 1)
  OBVIOUS
<1>2. /\ walk \in Walks /\ walk.at \in Int /\ r.from \in Nat /\ r.to \in Nat /\ r \in Ranges
      /\ \A j \in DOMAIN q : q[j].from \in Nat /\ q[j].to \in Nat
  BY <1>1 DEF Free, Walks, Ranges
<1>3. next \in Walks
  BY <1>2, PassedType
<1>4. CASE r.to < from \/ r.from > to
  <2>1. next = walk
    BY <1>4 DEF Passed
  <2>2. r.to < walk.at \/ r.from > to
    BY <1>2, <1>4 DEF Free
  <2> HIDE DEF next, r
  <2>3. \A j \in 1 .. k : q[j].to < walk.at \/ q[j].from > to \/ walk.at > to
    BY <1>1, <2>2 DEF Free, r
  <2>4. Free(walk, from, to, q, k)
    BY <2>3 DEF Free
  <2> QED BY <2>1, <2>4 DEF next, r
<1>5. CASE ~(r.to < from \/ r.from > to)
  <2>1. next = [at |-> past, gaps |-> more]
    BY <1>5 DEF Passed
  <2>2. past \in Int /\ walk.at <= past /\ (r.to < past \/ past > to)
    BY <1>2 DEF Larger, Smaller, PastRange
  <2>3. ASSUME first > walk.at, NEW d \in gap.from .. gap.to
        PROVE  from <= d /\ d <= to /\ ~Has(q, d)
    <3>1. first = r.from /\ walk.at <= d /\ d < r.from /\ from <= d /\ d <= to /\ walk.at <= to /\ d \in Int
      BY <1>2, <1>5, <2>3 DEF Larger, Free
    <3>2. ASSUME NEW j \in DOMAIN q PROVE ~Covers(q[j], d)
      <4>1. CASE j < k
        <5>1. q[j].to < walk.at \/ q[j].from > to \/ walk.at > to
          <6>1. j \in 1 .. (k - 1)
            BY <1>1, <4>1
          <6> QED BY <6>1 DEF Free
        <5> HIDE DEF first, gap, r
        <5> QED BY <1>2, <3>1, <5>1 DEF Covers
      <4>2. CASE j >= k
        <5>1. r.from <= q[j].from
          <6>1. j = k \/ k < j
            BY <1>1, <4>2
          <6> QED BY <1>1, <1>2, <6>1 DEF Rising
        <5> HIDE DEF first, gap, r
        <5> QED BY <1>2, <3>1, <5>1 DEF Covers
      <4> QED BY <1>1, <4>1, <4>2
    <3> QED BY <3>1, <3>2 DEF Has
  <2>4. \A g \in more : \A d \in g.from .. g.to : from <= d /\ d <= to /\ ~Has(q, d)
    <3> SUFFICES ASSUME NEW g \in more, NEW d \in g.from .. g.to
                 PROVE  from <= d /\ d <= to /\ ~Has(q, d)
      OBVIOUS
    <3>1. g \in walk.gaps \/ (first > walk.at /\ g = gap)
      OBVIOUS
    <3> HIDE DEF first, gap, more
    <3> QED BY <2>3, <3>1 DEF Free
  <2>5. \A j \in 1 .. k : q[j].to < past \/ q[j].from > to \/ past > to
    <3> SUFFICES ASSUME NEW j \in 1 .. k PROVE q[j].to < past \/ q[j].from > to \/ past > to
      OBVIOUS
    <3>1. CASE j = k
      <4> HIDE DEF past
      <4> QED BY <2>2, <3>1
    <3>2. CASE j \in 1 .. (k - 1)
      <4>1. q[j].to < walk.at \/ q[j].from > to \/ walk.at > to
        BY <3>2 DEF Free
      <4>2. j \in DOMAIN q
        BY <1>1
      <4> HIDE DEF past
      <4> QED BY <1>2, <2>2, <4>1, <4>2
    <3> QED BY <1>1, <3>1, <3>2
  <2>6. from <= past
    <3>1. from <= walk.at
      BY DEF Free
    <3> HIDE DEF past
    <3> QED BY <1>2, <2>2, <3>1
  <2>7. next.at = past /\ next.gaps = more
    <3> HIDE DEF past, more
    <3> QED BY <2>1
  <2> HIDE DEF next, past, more, r
  <2>8. Free(next, from, to, q, k)
    BY <1>3, <2>4, <2>5, <2>6, <2>7 DEF Free
  <2> QED BY <2>8 DEF next, r
<1> QED BY <1>4, <1>5

\* What missing_coverage_ranges reports is in the range asked for, and covered
\* by none of the ranges it was given.
THEOREM MissingIsUncovered ==
  ASSUME NEW n \in Nat, NEW R \in SUBSET Bounded(n), IsFiniteSet(R),
         NEW from \in Int, NEW to \in Int, NEW g \in MissingRanges(from, to, R),
         NEW d \in g.from .. g.to
  PROVE  from <= d /\ d <= to /\ \A r \in R : ~Covers(r, d)
<1> DEFINE q == MergedRanges(R)
           base == [at |-> from, gaps |-> {}]
           done == Walked(from, to, base, q)
<1>1. q \in Seq(Ranges) /\ Rising(q) /\ \A r \in R : \A x \in Int : Covers(r, x) => Has(q, x)
  BY MergedWithin, MergedKeeps
<1>2. g \in done.gaps \/ (done.at <= to /\ g = [from |-> done.at, to |-> to])
  BY DEF MissingRanges
<1> HIDE DEF q
<1>3. base \in Walks /\ Free(base, from, to, q, 0)
  <2>1. base.at = from /\ base.gaps = {} /\ base \in Walks
    BY DEF Walks
  <2> HIDE DEF base
  <2> QED BY <2>1 DEF Free
<1> HIDE DEF base
<1>4. PICK w : /\ w[0] = base
               /\ \A k \in 1 .. Len(q) : w[k] = Passed(from, to, w[k - 1], q[k])
               /\ done = w[Len(q)]
  BY <1>1, <1>3, PassedChain
<1> HIDE DEF done
<1>5. Len(q) \in Nat /\ DOMAIN q = 1 .. Len(q) /\ \A j \in DOMAIN q : q[j] \in Ranges
  BY <1>1
<1> DEFINE Bad == {k \in 0 .. Len(q) : ~Free(w[k], from, to, q, k)}
<1>6. Bad = {}
  <2> SUFFICES ASSUME Bad # {} PROVE FALSE
    OBVIOUS
  <2>1. PICK m \in Bad : \A k \in Bad : m <= k
    <3>1. Bad \in SUBSET Nat
      OBVIOUS
    <3> HIDE DEF Bad
    <3> QED BY <3>1, FirstOf
  <2>2. m # 0
    BY <1>3, <1>4
  <2>3. m \in 1 .. Len(q) /\ m - 1 \in 0 .. Len(q)
    BY <1>5, <2>2
  <2>4. Free(w[m - 1], from, to, q, m - 1)
    <3>1. m - 1 \notin Bad
      <4> HIDE DEF Bad
      <4> QED BY <1>5, <2>1, <2>3
    <3> QED BY <2>3, <3>1
  <2>5. w[m] = Passed(from, to, w[m - 1], q[m])
    BY <1>4, <2>3
  <2>6. Free(w[m], from, to, q, m)
    BY <1>1, <2>3, <2>4, <2>5, PassedFree
  <2> QED BY <2>6
<1>7. Free(done, from, to, q, Len(q))
  <2>1. Len(q) \in 0 .. Len(q)
    BY <1>5
  <2> QED BY <1>4, <1>6, <2>1
<1>8. from <= d /\ d <= to /\ ~Has(q, d)
  <2>1. CASE g \in done.gaps
    BY <1>7, <2>1 DEF Free
  <2>2. CASE done.at <= to /\ g = [from |-> done.at, to |-> to]
    <3>1. done.at \in Int /\ from <= done.at /\ done.at <= d /\ d <= to /\ d \in Int
      BY <1>7, <2>2 DEF Free, Walks
    <3>2. ASSUME NEW j \in DOMAIN q PROVE ~Covers(q[j], d)
      <4>1. q[j].to < done.at \/ q[j].from > to
        <5>1. j \in 1 .. Len(q)
          BY <1>5
        <5> QED BY <1>7, <2>2, <3>1, <5>1 DEF Free
      <4>2. q[j].from \in Nat /\ q[j].to \in Nat
        BY <1>5 DEF Ranges
      <4> QED BY <3>1, <4>1, <4>2 DEF Covers
    <3> QED BY <3>1, <3>2 DEF Has
  <2> QED BY <1>2, <2>1, <2>2
<1>9. d \in Int
  OBVIOUS
<1> QED BY <1>1, <1>8, <1>9
=============================================================================
