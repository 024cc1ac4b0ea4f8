-------------------------- MODULE WordIndexProofs --------------------------
(***************************************************************************)
(* What the sorted index holds, and what the search by prefix and its pages *)
(* return: for every dictionary, keyword and page.                         *)
(*                                                                         *)
(* The order of an index is strict and total; so the number of entries     *)
(* before one is different for each, and of n entries every place has one. *)
(* What starts with a keyword stands together, so the bounds that bisection *)
(* finds cut out the matches, and the place of each among them is known.   *)
(***************************************************************************)
EXTENDS WordIndex, TLAPS, WellFoundedInduction, NaturalsInduction,
        FiniteSetTheorems, FunctionTheorems, SequenceTheorems

-----------------------------------------------------------------------------
(* The order of words.                                                      *)

\* A set of natural numbers has a smallest one.
LEMMA SmallestNat ==
  ASSUME NEW T, T \subseteq Nat, T # {}
  PROVE  \E x \in T : \A y \in T : x <= y
<1>1. IsWellFoundedOn(OpToRel(<, Nat), Nat)
  BY NatLessThanWellFounded
<1>2. PICK x \in T : \A y \in T : ~(<<y, x>> \in OpToRel(<, Nat))
  BY <1>1, WFMin
<1>3. \A y \in T : ~(y < x)
  BY <1>2 DEF OpToRel
<1>4. QED
  BY <1>3

\* The characters of a word are numbers.
LEMMA CharIsNat ==
  ASSUME NEW w \in Words, NEW i \in 1..Len(w)
  PROVE  w[i] \in Nat
<1>1. w[i] \in Chars
  BY DEF Words
<1>2. Chars \subseteq Nat
  BY CharsAssumption
<1>3. QED
  BY <1>1, <1>2

\* A word is not before a keyword it starts with.
LEMMA PrefixNotLess ==
  ASSUME NEW w \in Words, NEW k \in Words, HasPrefix(w, k)
  PROVE  ~Less(w, k)
<1> SUFFICES ASSUME Less(w, k) PROVE FALSE
  OBVIOUS
<1>1. PICK i \in 1..Len(k) : /\ i - 1 <= Len(w)
                             /\ i > Len(w) \/ w[i] < k[i]
  BY DEF Less
<1>2. i <= Len(w) /\ w[i] = k[i]
  BY <1>1 DEF HasPrefix, Words
<1>3. w[i] \in Nat
  BY <1>2, CharIsNat DEF Words
<1>4. QED
  BY <1>1, <1>2, <1>3 DEF Words

\* Where two words differ, or the first one ends, before a place n.
Differ(u, v, n) == {j \in 1..n : j > Len(u) \/ u[j] # v[j]}

\* The first place where u differs from v decides between them.
LEMMA FirstDifference ==
  ASSUME NEW u \in Words, NEW v \in Words, NEW n \in 0..Len(v),
         Differ(u, v, n) # {}
  PROVE  \E j \in Differ(u, v, n) :
           /\ j \in 1..n
           /\ j - 1 <= Len(u)
           /\ \A i \in 1..j - 1 : i <= Len(u) /\ u[i] = v[i]
           /\ \/ j > Len(u)
              \/ j <= Len(u) /\ u[j] < v[j]
              \/ j <= Len(u) /\ v[j] < u[j]
<1>0. Len(u) \in Nat /\ Len(v) \in Nat
  BY DEF Words
<1>1. Differ(u, v, n) \subseteq Nat
  BY DEF Differ
<1>2. PICK j \in Differ(u, v, n) : \A i \in Differ(u, v, n) : j <= i
  BY <1>1, SmallestNat
<1>3. j \in 1..n /\ (j > Len(u) \/ u[j] # v[j])
  BY DEF Differ
<1>4. \A i \in 1..j - 1 : i <= Len(u) /\ u[i] = v[i]
  BY <1>0, <1>2, <1>3 DEF Differ
<1>5. j - 1 <= Len(u)
  BY <1>0, <1>3, <1>4
<1>6. j <= Len(u) => u[j] \in Nat /\ v[j] \in Nat
  BY <1>0, <1>3, CharIsNat
<1>7. QED
  BY <1>0, <1>3, <1>4, <1>5, <1>6

\* Whatever stands between a keyword and a word that starts with it starts with
\* it too.
LEMMA PrefixConvex ==
  ASSUME NEW u \in Words, NEW v \in Words, NEW k \in Words,
         ~Less(u, k), ~Less(v, u), HasPrefix(v, k)
  PROVE  HasPrefix(u, k)
<1>0. Len(u) \in Nat /\ Len(v) \in Nat /\ Len(k) \in Nat
  BY DEF Words
<1> SUFFICES ASSUME ~HasPrefix(u, k) PROVE FALSE
  OBVIOUS
<1>1. Differ(u, k, Len(k)) # {}
  <2>1. CASE Len(k) > Len(u)
    BY <1>0, <2>1 DEF Differ
  <2>2. CASE Len(k) <= Len(u)
    BY <1>0, <2>2 DEF Differ, HasPrefix
  <2>3. QED
    BY <1>0, <2>1, <2>2
<1>2. PICK j \in 1..Len(k) :
           /\ j - 1 <= Len(u)
           /\ \A i \in 1..j - 1 : i <= Len(u) /\ u[i] = k[i]
           /\ \/ j > Len(u)
              \/ j <= Len(u) /\ u[j] < k[j]
              \/ j <= Len(u) /\ k[j] < u[j]
  <2>1. Len(k) \in 0..Len(k)
    BY <1>0
  <2>2. QED
    BY <1>1, <2>1, FirstDifference
<1>3. j <= Len(u) /\ k[j] < u[j]
  BY <1>0, <1>2 DEF Less
<1>4. j <= Len(v) /\ \A i \in 1..j : v[i] = k[i]
  BY <1>0, <1>2 DEF HasPrefix
<1>5. Less(v, u)
  <2>1. j \in 1..Len(u) /\ j - 1 <= Len(v) /\ v[j] < u[j]
    BY <1>0, <1>2, <1>3, <1>4
  <2>2. \A i \in 1..j - 1 : v[i] = u[i]
    BY <1>0, <1>2, <1>4
  <2>3. QED
    BY <2>1, <2>2 DEF Less
<1>6. QED
  BY <1>5

\* "Not before" is transitive.
LEMMA NotLessTransitive ==
  ASSUME NEW a \in Words, NEW b \in Words, NEW c \in Words,
         ~Less(b, a), ~Less(c, b)
  PROVE  ~Less(c, a)
<1>0. Len(a) \in Nat /\ Len(b) \in Nat /\ Len(c) \in Nat
  BY DEF Words
<1> SUFFICES ASSUME Less(c, a) PROVE FALSE
  OBVIOUS
<1>1. PICK i \in 1..Len(a) : /\ i - 1 <= Len(c)
                             /\ \A j \in 1..i - 1 : c[j] = a[j]
                             /\ i > Len(c) \/ c[i] < a[i]
  BY DEF Less
<1>2. CASE Differ(b, a, i - 1) # {}
  <2>1. i - 1 \in 0..Len(a)
    BY <1>0, <1>1
  <2>2. PICK j \in 1..i - 1 :
             /\ j - 1 <= Len(b)
             /\ \A m \in 1..j - 1 : m <= Len(b) /\ b[m] = a[m]
             /\ \/ j > Len(b)
                \/ j <= Len(b) /\ b[j] < a[j]
                \/ j <= Len(b) /\ a[j] < b[j]
    BY <1>0, <1>2, <2>1, FirstDifference
  <2>3. j \in 1..Len(a)
    BY <1>0, <1>1, <2>2
  <2>4. j <= Len(b) /\ a[j] < b[j]
    BY <2>2, <2>3 DEF Less
  <2>5. j - 1 <= Len(c) /\ c[j] = a[j] /\ \A m \in 1..j - 1 : c[m] = b[m]
    BY <1>0, <1>1, <2>2
  <2>6. Less(c, b)
    BY <1>0, <2>2, <2>4, <2>5 DEF Less
  <2>7. QED
    BY <2>6
<1>3. CASE Differ(b, a, i - 1) = {}
  <2>1. i - 1 <= Len(b) /\ \A j \in 1..i - 1 : b[j] = a[j]
    <3>1. \A j \in 1..i - 1 : j <= Len(b) /\ b[j] = a[j]
      BY <1>0, <1>1, <1>3 DEF Differ
    <3>2. QED
      BY <1>0, <1>1, <3>1
  <2>2. i <= Len(b) /\ ~(b[i] < a[i])
    BY <1>0, <1>1, <2>1 DEF Less
  <2>3. \A j \in 1..i - 1 : c[j] = b[j]
    BY <1>1, <2>1
  <2>4. i > Len(c) \/ c[i] < b[i]
    <3>1. a[i] \in Nat /\ b[i] \in Nat /\ (i <= Len(c) => c[i] \in Nat)
      BY <1>0, <1>1, <2>2, CharIsNat
    <3>2. QED
      BY <1>1, <2>2, <3>1
  <2>5. Less(c, b)
    BY <1>0, <1>1, <2>2, <2>3, <2>4 DEF Less
  <2>6. QED
    BY <2>5
<1>4. QED
  BY <1>2, <1>3

\* The lower case of a word is a word as long as it.
LEMMA ToLowerShape ==
  ASSUME NEW w \in Words
  PROVE  ToLower(w) \in Words /\ Len(ToLower(w)) = Len(w)
<1>1. /\ Len(w) \in Nat /\ DOMAIN w = 1..Len(w)
      /\ \A i \in 1..Len(w) : w[i] \in Chars
  BY DEF Words
<1>2. ToLower(w) \in [1..Len(w) -> Chars]
  BY <1>1, CharsAssumption DEF ToLower
<1>. QED
  BY <1>1, <1>2 DEF Words

\* The first and the last character that is no space are places of the word.
LEMMA TrimBounds ==
  ASSUME NEW w \in Words, NEW ink, ink = {i \in DOMAIN w : w[i] # Space},
         ink # {}
  PROVE  /\ (CHOOSE i \in ink : \A j \in ink : i <= j) \in 1..Len(w)
         /\ (CHOOSE i \in ink : \A j \in ink : j <= i) \in 1..Len(w)
<1>1. Len(w) \in Nat /\ ink \subseteq 1..Len(w)
  BY DEF Words
<1>2. \E i \in ink : \A j \in ink : i <= j
  <2>1. ink \subseteq Nat
    BY <1>1
  <2>. QED
    BY <2>1, SmallestNat
<1>3. \E i \in ink : \A j \in ink : j <= i
  <2> DEFINE T == {Len(w) - i : i \in ink}
  <2>1. T \subseteq Nat /\ T # {}
    BY <1>1
  <2>2. PICK m \in T : \A k \in T : m <= k
    BY <2>1, SmallestNat
  <2>3. PICK i \in ink : m = Len(w) - i
    BY <2>2
  <2>4. \A j \in ink : Len(w) - i <= Len(w) - j
    BY <2>2, <2>3
  <2>5. \A j \in ink : i \in Int /\ j \in Int
    BY <1>1
  <2>6. \A j \in ink : j <= i
    BY <1>1, <2>4, <2>5
  <2>. QED
    BY <2>6
<1>. QED
  BY <1>1, <1>2, <1>3

\* Trimming a word leaves a word.
LEMMA TrimShape ==
  ASSUME NEW w \in Words
  PROVE  TrimSpace(w) \in Words
<1> DEFINE ink == {i \in DOMAIN w : w[i] # Space}
           first == CHOOSE i \in ink : \A j \in ink : i <= j
           last == CHOOSE i \in ink : \A j \in ink : j <= i
<1>1. CASE ink = {}
  BY <1>1 DEF TrimSpace, Words
<1>2. CASE ink # {}
  <2>1. TrimSpace(w) = SubSeq(w, first, last)
    BY <1>2 DEF TrimSpace
  <2>2. first \in 1..Len(w) /\ last \in 1..Len(w)
    BY <1>2, TrimBounds
  <2> HIDE DEF first, last
  <2>3. \A i \in first..last : w[i] \in Chars
    BY <2>2 DEF Words
  <2>4. SubSeq(w, first, last) \in Seq(Chars)
    BY <2>2, <2>3, SubSeqProperties
  <2>. QED
    BY <2>1, <2>4 DEF Words
<1>. QED
  BY <1>1, <1>2

\* Of two different words one is before the other.
LEMMA LessTotal ==
  ASSUME NEW u \in Words, NEW v \in Words, u # v
  PROVE  Less(u, v) \/ Less(v, u)
<1>0. Len(u) \in Nat /\ Len(v) \in Nat
  BY DEF Words
<1>1. CASE Differ(u, v, Len(v)) # {}
  <2>1. Len(v) \in 0..Len(v)
    BY <1>0
  <2>2. PICK j \in 1..Len(v) :
             /\ j - 1 <= Len(u)
             /\ \A i \in 1..j - 1 : i <= Len(u) /\ u[i] = v[i]
             /\ \/ j > Len(u)
                \/ j <= Len(u) /\ u[j] < v[j]
                \/ j <= Len(u) /\ v[j] < u[j]
    BY <1>1, <2>1, FirstDifference
  <2>3. CASE j > Len(u) \/ u[j] < v[j]
    BY <2>2, <2>3 DEF Less
  <2>4. CASE j <= Len(u) /\ v[j] < u[j]
    <3>1. j \in 1..Len(u) /\ j - 1 <= Len(v)
      BY <1>0, <2>2, <2>4
    <3>. QED
      BY <2>2, <2>4, <3>1 DEF Less
  <2>. QED
    BY <2>2, <2>3, <2>4
<1>2. CASE Differ(u, v, Len(v)) = {}
  <2>1. \A j \in 1..Len(v) : j <= Len(u) /\ u[j] = v[j]
    BY <1>0, <1>2 DEF Differ
  <2>2. Len(v) <= Len(u)
    BY <1>0, <2>1
  <2>3. Len(v) # Len(u)
    BY <1>0, <2>1 DEF Words
  <2>4. /\ Len(v) + 1 \in 1..Len(u) /\ (Len(v) + 1) - 1 = Len(v)
        /\ Len(v) + 1 > Len(v)
    BY <1>0, <2>2, <2>3
  <2>5. \A j \in 1..(Len(v) + 1) - 1 : v[j] = u[j]
    BY <2>1, <2>4
  <2>. QED
    BY <1>0, <2>4, <2>5 DEF Less
<1>. QED
  BY <1>1, <1>2

\* Of two words at most one is before the other.
LEMMA LessAsymmetric ==
  ASSUME NEW u \in Words, NEW v \in Words, Less(u, v)
  PROVE  ~Less(v, u)
<1>0. Len(u) \in Nat /\ Len(v) \in Nat
  BY DEF Words
<1> SUFFICES ASSUME Less(v, u) PROVE FALSE
  OBVIOUS
<1>1. PICK i \in 1..Len(v) : /\ \A j \in 1..i - 1 : u[j] = v[j]
                             /\ i > Len(u) \/ u[i] < v[i]
  BY DEF Less
<1>2. PICK k \in 1..Len(u) : /\ \A j \in 1..k - 1 : v[j] = u[j]
                             /\ k > Len(v) \/ v[k] < u[k]
  BY DEF Less
<1>3. /\ \A n \in 1..Len(u) : u[n] \in Nat
      /\ \A n \in 1..Len(v) : v[n] \in Nat
  BY CharIsNat
<1>4. CASE i < k
  <2>1. i \in 1..k - 1 /\ i \in 1..Len(u)
    BY <1>0, <1>4
  <2>. QED
    BY <1>0, <1>1, <1>2, <1>3, <2>1
<1>5. CASE k < i
  <2>1. k \in 1..i - 1 /\ k \in 1..Len(v)
    BY <1>0, <1>5
  <2>. QED
    BY <1>0, <1>1, <1>2, <1>3, <2>1
<1>6. CASE i = k
  BY <1>0, <1>1, <1>2, <1>3, <1>6
<1>. QED
  BY <1>0, <1>4, <1>5, <1>6

\* A word before one that is before a third is before that.
LEMMA LessTransitive ==
  ASSUME NEW a \in Words, NEW b \in Words, NEW c \in Words,
         Less(a, b), Less(b, c)
  PROVE  Less(a, c)
<1>1. ~Less(b, a) /\ ~Less(c, b)
  BY LessAsymmetric
<1>2. ~Less(c, a)
  BY <1>1, NotLessTransitive
<1>. QED
  BY <1>1, <1>2, LessTotal

-----------------------------------------------------------------------------
(* The sorted index.                                                        *)

\* The pairs an index is made of.
IndexEntries == [word : Words, normalized : Words]

\* The order of an index is strict and total.
LEMMA BeforeIsOrder ==
  ASSUME NEW x \in IndexEntries, NEW y \in IndexEntries, NEW z \in IndexEntries
  PROVE  /\ x # y => Before(x, y) \/ Before(y, x)
         /\ Before(x, y) => ~Before(y, x)
         /\ Before(x, y) /\ Before(y, z) => Before(x, z)
<1>1. /\ x.word \in Words /\ x.normalized \in Words
      /\ y.word \in Words /\ y.normalized \in Words
      /\ z.word \in Words /\ z.normalized \in Words
  BY DEF IndexEntries
<1>2. x # y => Before(x, y) \/ Before(y, x)
  <2>1. x # y => x.word # y.word \/ x.normalized # y.normalized
    BY DEF IndexEntries
  <2>. QED
    BY <1>1, <2>1, LessTotal DEF Before
<1>3. Before(x, y) => ~Before(y, x)
  BY <1>1, LessAsymmetric DEF Before
<1>4. Before(x, y) /\ Before(y, z) => Before(x, z)
  BY <1>1, LessTransitive DEF Before
<1>. QED
  BY <1>2, <1>3, <1>4

\* The number of entries that come before x.
Rank(x, entries) == Cardinality({y \in entries : Before(y, x)})

\* It tells the entries apart.
LEMMA RankGrows ==
  ASSUME NEW entries \in SUBSET IndexEntries, IsFiniteSet(entries),
         NEW x \in entries
  PROVE  /\ Rank(x, entries) \in 0..Cardinality(entries) - 1
         /\ \A y \in entries :
              Before(x, y) => Rank(x, entries) < Rank(y, entries)
<1> DEFINE Below(y) == {z \in entries : Before(z, y)}
<1>1. \A y \in entries : IsFiniteSet(Below(y)) /\ Cardinality(Below(y)) \in Nat
  <2> TAKE y \in entries
  <2>1. Below(y) \in SUBSET entries
    OBVIOUS
  <2> HIDE DEF Below
  <2>. QED
    BY <2>1, FS_Subset, FS_CardinalityType
<1>2. \A y \in entries : ~Before(y, y)
  BY BeforeIsOrder
<1>3. Rank(x, entries) < Cardinality(entries)
  <2>1. Below(x) \in SUBSET entries /\ Below(x) # entries
    BY <1>2
  <2> HIDE DEF Below
  <2>2. /\ Cardinality(Below(x)) <= Cardinality(entries)
        /\ Cardinality(Below(x)) # Cardinality(entries)
        /\ Cardinality(entries) \in Nat
    BY <2>1, FS_Subset, FS_CardinalityType
  <2>. QED
    BY <1>1, <2>2 DEF Rank, Below
<1>4. ASSUME NEW y \in entries, Before(x, y)
      PROVE  Rank(x, entries) < Rank(y, entries)
  <2>1. Below(x) \in SUBSET Below(y)
    BY <1>4, BeforeIsOrder
  <2>2. x \in Below(y) /\ x \notin Below(x)
    BY <1>2, <1>4
  <2> HIDE DEF Below
  <2>3. /\ Cardinality(Below(x)) <= Cardinality(Below(y))
        /\ Cardinality(Below(x)) # Cardinality(Below(y))
    BY <1>1, <2>1, <2>2, FS_Subset
  <2>. QED
    BY <1>1, <2>3 DEF Rank, Below
<1>5. Rank(x, entries) \in Nat /\ Cardinality(entries) \in Nat
  BY <1>1, FS_CardinalityType DEF Rank
<1>. QED
  BY <1>3, <1>4, <1>5

\* So sortWordIndex has an entry for every place.
LEMMA RanksFill ==
  ASSUME NEW entries \in SUBSET IndexEntries, IsFiniteSet(entries),
         NEW i \in 1..Cardinality(entries)
  PROVE  \E x \in entries : Rank(x, entries) = i - 1
<1> DEFINE n == Cardinality(entries)
           f == [x \in entries |-> Rank(x, entries) + 1]
<1>1. n \in Nat
  BY FS_CardinalityType
<1>2. f \in [entries -> 1..n]
  <2>1. \A x \in entries : Rank(x, entries) + 1 \in 1..n
    BY <1>1, RankGrows
  <2>. QED
    BY <2>1
<1>3. \A x, y \in entries : f[x] = f[y] => x = y
  <2> SUFFICES ASSUME NEW x \in entries, NEW y \in entries, x # y
               PROVE  f[x] # f[y]
    OBVIOUS
  <2>1. Before(x, y) \/ Before(y, x)
    BY BeforeIsOrder
  <2>2. \/ Rank(x, entries) < Rank(y, entries)
        \/ Rank(y, entries) < Rank(x, entries)
    BY <2>1, RankGrows
  <2>3. Rank(x, entries) \in Int /\ Rank(y, entries) \in Int
    BY <1>1, RankGrows
  <2>. QED
    BY <2>2, <2>3
<1> HIDE DEF f
<1>4. f \in Injection(entries, 1..n)
  BY <1>2, <1>3, Fun_IsInj
<1>5. IsFiniteSet(1..n) /\ Cardinality(1..n) = n
  BY <1>1, FS_Interval
<1>6. f \in Surjection(entries, 1..n)
  BY <1>4, <1>5, FS_Injection
<1>7. PICK x \in entries : f[x] = i
  BY <1>6 DEF Surjection
<1>8. Rank(x, entries) \in Int
  BY <1>1, RankGrows
<1>. QED
  BY <1>7, <1>8 DEF f

\* sortWordIndex: every entry has its place, and they stand in order.
THEOREM SortedIsSorted ==
  ASSUME NEW entries \in SUBSET IndexEntries, IsFiniteSet(entries)
  PROVE  LET index == Sorted(entries)
             n == Cardinality(entries)
         IN  /\ n \in Nat
             /\ index \in Bijection(1..n, entries)
             /\ \A i, j \in 1..n : i < j <=> Before(index[i], index[j])
<1> DEFINE index == Sorted(entries)
           n == Cardinality(entries)
<1>1. n \in Nat
  BY FS_CardinalityType
<1>2. \A i \in 1..n : index[i] \in entries /\ Rank(index[i], entries) = i - 1
  <2> TAKE i \in 1..n
  <2>1. \E x \in entries : Cardinality({y \in entries : Before(y, x)}) = i - 1
    BY RanksFill DEF Rank
  <2>. QED
    BY <2>1 DEF Sorted, Rank
<1>3. index \in [1..n -> entries]
  BY <1>2 DEF Sorted
<1> HIDE DEF index
<1>4. \A i, j \in 1..n : i < j <=> Before(index[i], index[j])
  <2> TAKE i, j \in 1..n
  <2>1. /\ index[i] \in entries /\ index[j] \in entries
        /\ Rank(index[i], entries) = i - 1 /\ Rank(index[j], entries) = j - 1
    BY <1>2
  <2>2. Before(index[i], index[j]) => i - 1 < j - 1
    BY <2>1, RankGrows
  <2>3. Before(index[j], index[i]) => j - 1 < i - 1
    BY <2>1, RankGrows
  <2>4. index[i] # index[j] =>
          Before(index[i], index[j]) \/ Before(index[j], index[i])
    BY <2>1, BeforeIsOrder
  <2>5. index[i] = index[j] => i - 1 = j - 1
    BY <2>1
  <2>. QED
    BY <1>1, <2>2, <2>3, <2>4, <2>5
<1>5. \A i, j \in 1..n : index[i] = index[j] => i = j
  BY <1>1, <1>2
<1>6. index \in Injection(1..n, entries)
  BY <1>3, <1>5, Fun_IsInj
<1>7. index \in Surjection(1..n, entries)
  <2>1. IsFiniteSet(1..n) /\ Cardinality(1..n) = n
    BY <1>1, FS_Interval
  <2>. QED
    BY <1>6, <2>1, FS_Injection
<1>8. index \in Bijection(1..n, entries)
  BY <1>6, <1>7 DEF Bijection
<1>. QED
  BY <1>1, <1>4, <1>8 DEF index

-----------------------------------------------------------------------------
(* The search by prefix.                                                    *)

IsIndex(index) ==
  /\ index \in Seq(IndexEntries)
  /\ \A i, j \in 1..Len(index) : i < j => ~Before(index[j], index[i])

\* First finds the first element of a set of places.
LEMMA FirstIsFirst ==
  ASSUME NEW n \in Nat, NEW S, S \subseteq 1..n
  PROVE  /\ First(S, n) \in 1..n + 1
         /\ S # {} => First(S, n) \in S
         /\ \A i \in 1..n : i < First(S, n) => i \notin S
<1>1. CASE S = {}
  BY <1>1 DEF First
<1>2. CASE S # {}
  <2>1. S \subseteq Nat
    OBVIOUS
  <2>2. \E i \in S : \A j \in S : i <= j
    BY <1>2, <2>1, SmallestNat
  <2>3. First(S, n) \in S /\ \A j \in S : First(S, n) <= j
    BY <1>2, <2>2 DEF First
  <2>4. First(S, n) \in 1..n
    BY <2>3
  <2>5. \A i \in S : i \in Nat
    BY <2>1
  <2>6. \A i \in 1..n : i < First(S, n) => i \notin S
    BY <2>3, <2>4, <2>5
  <2>7. QED
    BY <2>3, <2>4, <2>6
<1>3. QED
  BY <1>1, <1>2

\* The entries of an index hold words.
LEMMA EntriesAreWords ==
  ASSUME NEW index, IsIndex(index), NEW i \in 1..Len(index)
  PROVE  index[i].normalized \in Words /\ index[i].word \in Words
<1>1. index[i] \in IndexEntries
  BY DEF IsIndex
<1>2. QED
  BY <1>1 DEF IndexEntries

\* In an index the places sort.Search is asked for are closed upwards: from the
\* first word that is not before the keyword on, none is, and from the first
\* that does not match on, none does (word_index.go:44, 47).  So its bisection
\* finds the first of them.
THEOREM BisectionIsSound ==
  ASSUME NEW index, IsIndex(index), NEW keyword \in Words,
         NEW i \in 1..Len(index), NEW j \in 1..Len(index), i < j,
         ~Less(index[i].normalized, keyword)
  PROVE  /\ ~Less(index[j].normalized, keyword)
         /\ ~HasPrefix(index[i].normalized, keyword)
              => ~HasPrefix(index[j].normalized, keyword)
<1>1. index[i].normalized \in Words /\ index[j].normalized \in Words
  BY EntriesAreWords
<1>2. ~Less(index[j].normalized, index[i].normalized)
  BY DEF IsIndex, Before
<1>3. ~Less(index[j].normalized, keyword)
  BY <1>1, <1>2, NotLessTransitive
<1>4. HasPrefix(index[j].normalized, keyword)
        => HasPrefix(index[i].normalized, keyword)
  BY <1>1, <1>2, PrefixConvex
<1>5. QED
  BY <1>3, <1>4

\* The slice prefixMatches returns holds every word of the index that starts
\* with the keyword, and no other (word_index.go:43).
THEOREM PrefixMatchesExact ==
  ASSUME NEW index, IsIndex(index), NEW keyword \in Words,
         NEW i \in 1..Len(index)
  PROVE  LET start == MatchStart(index, keyword)
         IN  HasPrefix(index[i].normalized, keyword)
               <=> start <= i /\ i < MatchEnd(index, keyword, start)
<1> DEFINE n == Len(index)
           late == {p \in 1..n : ~Less(index[p].normalized, keyword)}
           start == MatchStart(index, keyword)
           other == {p \in start..n : ~HasPrefix(index[p].normalized, keyword)}
           end == MatchEnd(index, keyword, start)
<1>0. n \in Nat /\ i \in 1..n /\ \A p \in 1..n : index[p].normalized \in Words
  <2>1. n \in Nat
    BY DEF IsIndex
  <2>2. QED
    BY <2>1, EntriesAreWords
<1>1. start = First(late, n) /\ end = First(other, n)
  BY DEF MatchStart, MatchEnd
<1>2. /\ start \in 1..n + 1
      /\ late # {} => start \in late
      /\ \A p \in 1..n : p < start => p \notin late
  <2>1. late \subseteq 1..n
    OBVIOUS
  <2>2. QED
    BY <1>0, <1>1, <2>1, FirstIsFirst
<1>3. other \subseteq 1..n
  BY <1>0, <1>2
<1>4. /\ end \in 1..n + 1
      /\ other # {} => end \in other
      /\ \A p \in 1..n : p < end => p \notin other
  <2> HIDE DEF n, other, end
  <2>1. QED
    BY <1>0, <1>1, <1>3, FirstIsFirst
<1>5. ASSUME i < start
      PROVE  ~HasPrefix(index[i].normalized, keyword)
  <2>1. Less(index[i].normalized, keyword)
    BY <1>0, <1>2, <1>5
  <2>2. QED
    BY <1>0, <2>1, PrefixNotLess
<1>6. ASSUME start <= i, i < end
      PROVE  HasPrefix(index[i].normalized, keyword)
  BY <1>0, <1>2, <1>4, <1>6
<1>7. ASSUME start <= i, end <= i
      PROVE  ~HasPrefix(index[i].normalized, keyword)
  <2>1. end \in other
    <3>1. CASE other = {}
      BY <1>0, <1>1, <1>7, <3>1 DEF First
    <3>2. QED
      BY <1>4, <3>1
  <2>2. end \in 1..n /\ start <= end
    BY <1>0, <1>2, <2>1
  <2>3. ~Less(index[end].normalized, keyword)
    <3>1. start \in 1..n
      BY <1>0, <1>2, <2>2
    <3>2. start \in late
      <4>1. CASE late = {}
        BY <1>0, <1>1, <3>1, <4>1 DEF First
      <4>2. QED
        BY <1>2, <4>1
    <3>3. CASE start = end
      BY <3>2, <3>3
    <3>4. CASE start < end
      BY <2>2, <3>1, <3>2, <3>4, BisectionIsSound
    <3>5. QED
      BY <1>0, <1>2, <2>2, <3>3, <3>4
  <2>4. CASE end = i
    BY <2>1, <2>4
  <2>5. CASE end < i
    BY <1>0, <2>1, <2>2, <2>3, <2>5, BisectionIsSound
  <2>6. QED
    BY <1>0, <1>7, <2>2, <2>4, <2>5
<1>8. start \in Int /\ end \in Int /\ i \in Int
  BY <1>0, <1>2, <1>4
<1>9. QED
  BY <1>5, <1>6, <1>7, <1>8

\* The words newWordIndex keeps.
Kept(words) == {TrimSpace(v) : v \in words} \ {<<>>}

\* What is kept of finitely many words, and the entries made of it, are finite.
LEMMA KeptShape ==
  ASSUME NEW words \in SUBSET Words, IsFiniteSet(words)
  PROVE  /\ Kept(words) \in SUBSET Words /\ IsFiniteSet(Kept(words))
         /\ LET entries == {IndexedWord(w) : w \in Kept(words)}
            IN  entries \in SUBSET IndexEntries /\ IsFiniteSet(entries)
<1> DEFINE trimmed == {TrimSpace(v) : v \in words}
           entries == {IndexedWord(w) : w \in Kept(words)}
<1>1. trimmed \in SUBSET Words
  BY TrimShape
<1>2. IsFiniteSet(trimmed)
  <2> DEFINE f == [v \in words |-> TrimSpace(v)]
  <2>1. f \in Surjection(words, trimmed)
    BY DEF Surjection
  <2> HIDE DEF f, trimmed
  <2>. QED
    BY <2>1, FS_Surjection
<1>3. Kept(words) \in SUBSET trimmed
  BY DEF Kept
<1>4. Kept(words) \in SUBSET Words /\ IsFiniteSet(Kept(words))
  <2> HIDE DEF trimmed
  <2>. QED
    BY <1>1, <1>2, <1>3, FS_Subset
<1>5. entries \in SUBSET IndexEntries
  BY <1>4, ToLowerShape DEF IndexedWord, IndexEntries
<1>6. IsFiniteSet(entries)
  <2> DEFINE f == [w \in Kept(words) |-> IndexedWord(w)]
  <2>1. f \in Surjection(Kept(words), entries)
    BY DEF Surjection
  <2> HIDE DEF f, entries
  <2>. QED
    BY <1>4, <2>1, FS_Surjection
<1>. QED
  BY <1>4, <1>5, <1>6

\* newWordIndex: the index of any list of words is sorted and holds each word
\* that is left of the list by TrimSpace once, with its lower case.
THEOREM NewWordIndexIsSorted ==
  ASSUME NEW words \in SUBSET Words, IsFiniteSet(words)
  PROVE  LET index == NewWordIndex(words)
         IN  /\ IsIndex(index)
             /\ \A i \in 1..Len(index) :
                  /\ index[i].word \in Kept(words)
                  /\ index[i] = IndexedWord(index[i].word)
             /\ \A w \in Kept(words) :
                  \E i \in 1..Len(index) : index[i].word = w
             /\ \A i, j \in 1..Len(index) : i < j <=> Before(index[i], index[j])
             /\ \A i, j \in 1..Len(index) :
                  index[i].word = index[j].word => i = j
<1> DEFINE entries == {IndexedWord(w) : w \in Kept(words)}
           index == NewWordIndex(words)
           n == Cardinality(entries)
<1>1. entries \in SUBSET IndexEntries /\ IsFiniteSet(entries)
  BY KeptShape
<1>2. index = Sorted(entries)
  BY DEF NewWordIndex, Kept
<1> HIDE DEF index
<1>3. /\ n \in Nat /\ index \in Bijection(1..n, entries)
      /\ \A i, j \in 1..n : i < j <=> Before(index[i], index[j])
  <2> HIDE DEF entries
  <2>. QED
    BY <1>1, <1>2, SortedIsSorted
<1>4. /\ index \in [1..n -> entries]
      /\ \A i, j \in 1..n : index[i] = index[j] => i = j
      /\ \A x \in entries : \E i \in 1..n : index[i] = x
  <2> HIDE DEF entries
  <2>. QED
    BY <1>3 DEF Bijection, Injection, Surjection, IsInjective
<1>5. Len(index) = n /\ index \in Seq(IndexEntries)
  <2> HIDE DEF entries
  <2>1. index \in [1..n -> IndexEntries]
    BY <1>1, <1>4
  <2>. QED
    BY <1>3, <2>1
<1>6. \A i \in 1..n : /\ index[i].word \in Kept(words)
                      /\ index[i] = IndexedWord(index[i].word)
  <2> TAKE i \in 1..n
  <2>1. PICK w \in Kept(words) : index[i] = IndexedWord(w)
    BY <1>4
  <2>. QED
    BY <2>1 DEF IndexedWord
<1>7. \A w \in Kept(words) : \E i \in 1..n : index[i].word = w
  <2> TAKE w \in Kept(words)
  <2>1. PICK i \in 1..n : index[i] = IndexedWord(w)
    BY <1>4
  <2>. QED
    BY <2>1 DEF IndexedWord
<1>8. \A i, j \in 1..n : index[i].word = index[j].word => i = j
  BY <1>4, <1>6
<1>9. IsIndex(index)
  <2>1. \A i, j \in 1..n : i < j => ~Before(index[j], index[i])
    BY <1>3
  <2>. QED
    BY <1>5, <2>1 DEF IsIndex, IndexEntries
<1>. QED
  BY <1>3, <1>5, <1>6, <1>7, <1>8, <1>9 DEF index

\* The bounds of the slice prefixMatches returns.
LEMMA MatchBounds ==
  ASSUME NEW index, IsIndex(index), NEW keyword \in Words
  PROVE  LET start == MatchStart(index, keyword)
             end == MatchEnd(index, keyword, start)
         IN  /\ Len(index) \in Nat
             /\ start \in 1..Len(index) + 1
             /\ end \in start..Len(index) + 1
<1> DEFINE n == Len(index)
           late == {p \in 1..n : ~Less(index[p].normalized, keyword)}
           start == MatchStart(index, keyword)
           other == {p \in start..n : ~HasPrefix(index[p].normalized, keyword)}
           end == MatchEnd(index, keyword, start)
<1>1. n \in Nat
  BY DEF IsIndex
<1>2. late \subseteq 1..n /\ start = First(late, n)
  BY DEF MatchStart
<1>3. start \in 1..n + 1
  BY <1>1, <1>2, FirstIsFirst
<1>4. other \subseteq 1..n /\ end = First(other, n)
  BY <1>1, <1>3 DEF MatchEnd
<1> HIDE DEF other, end
<1>5. end \in 1..n + 1 /\ (other # {} => end \in other)
  BY <1>1, <1>4, FirstIsFirst
<1>6. start <= end
  <2>1. CASE other = {}
    BY <1>1, <1>3, <1>4, <2>1 DEF First
  <2>2. CASE other # {}
    BY <1>1, <1>3, <1>5, <2>2 DEF other
  <2>. QED
    BY <2>1, <2>2
<1>. QED
  BY <1>1, <1>3, <1>5, <1>6 DEF end

\* The words a search by prefix is to find.
Matching(words, keyword) == {w \in Kept(words) : HasPrefix(ToLower(w), keyword)}

\* How many words stand before w in the order of the index.
WordsBefore(w, words) ==
  Cardinality({v \in words : Before(IndexedWord(v), IndexedWord(w))})

\* prefixMatches returns the words that start with the keyword, all of them, and
\* each at the place that belongs to it in the order of the index.
THEOREM MatchesAreRanked ==
  ASSUME NEW words \in SUBSET Words, IsFiniteSet(words), NEW keyword \in Words
  PROVE  LET hits == Matching(words, keyword)
             matches == PrefixMatches(NewWordIndex(words), keyword)
         IN  /\ matches \in Seq(IndexEntries)
             /\ IsFiniteSet(hits) /\ Len(matches) = Cardinality(hits)
             /\ \A i \in 1..Len(matches) :
                  /\ matches[i].word \in hits
                  /\ WordsBefore(matches[i].word, hits) = i - 1
<1> DEFINE hits == Matching(words, keyword)
           index == NewWordIndex(words)
           start == MatchStart(index, keyword)
           end == MatchEnd(index, keyword, start)
           matches == PrefixMatches(index, keyword)
           len == end - start
<1>1. /\ IsIndex(index)
      /\ \A i \in 1..Len(index) :
           /\ index[i].word \in Kept(words)
           /\ index[i] = IndexedWord(index[i].word)
      /\ \A w \in Kept(words) : \E i \in 1..Len(index) : index[i].word = w
      /\ \A i, j \in 1..Len(index) : i < j <=> Before(index[i], index[j])
      /\ \A i, j \in 1..Len(index) : index[i].word = index[j].word => i = j
  BY NewWordIndexIsSorted
<1>2. /\ Len(index) \in Nat /\ start \in 1..Len(index) + 1
      /\ end \in start..Len(index) + 1
  <2> HIDE DEF index
  <2>. QED
    BY <1>1, MatchBounds
<1>3. \A i \in 1..Len(index) :
        HasPrefix(index[i].normalized, keyword) <=> start <= i /\ i < end
  <2> HIDE DEF index
  <2>. QED
    BY <1>1, PrefixMatchesExact
<1>4. matches = SubSeq(index, start, end - 1)
  BY DEF PrefixMatches
<1> HIDE DEF index, start, end, matches
<1>5. /\ matches \in Seq(IndexEntries) /\ Len(matches) = len
      /\ \A i \in 1..len : matches[i] = index[start + i - 1]
  <2>1. index \in Seq(IndexEntries)
    BY <1>1 DEF IsIndex, IndexEntries
  <2>2. \A i \in start..end - 1 : index[i] \in IndexEntries
    BY <1>2, <2>1
  <2>. QED
    BY <1>2, <1>4, <2>2, SubSeqProperties
<1>6. len \in Nat /\ \A i \in 1..len : start + i - 1 \in 1..Len(index)
                       /\ start <= start + i - 1 /\ start + i - 1 < end
  BY <1>2
<1>7. \A i \in 1..len : /\ matches[i].word \in hits
                        /\ matches[i] = IndexedWord(matches[i].word)
  <2> TAKE i \in 1..len
  <2> DEFINE p == start + i - 1
  <2>1. p \in 1..Len(index) /\ matches[i] = index[p] /\ start <= p /\ p < end
    BY <1>5, <1>6
  <2> HIDE DEF p
  <2>2. HasPrefix(index[p].normalized, keyword)
    BY <1>3, <2>1
  <2>3. index[p].word \in Kept(words) /\ index[p] = IndexedWord(index[p].word)
    BY <1>1, <2>1
  <2>4. index[p].normalized = ToLower(index[p].word)
    BY <2>3 DEF IndexedWord
  <2>. QED
    BY <2>1, <2>2, <2>3, <2>4 DEF Matching
<1>8. \A w \in hits : \E i \in 1..len : matches[i].word = w
  <2> TAKE w \in hits
  <2>1. w \in Kept(words) /\ HasPrefix(ToLower(w), keyword)
    BY DEF Matching
  <2>2. PICK p \in 1..Len(index) : index[p].word = w
    BY <1>1, <2>1
  <2>3. index[p].normalized = ToLower(w)
    <3>1. index[p] = IndexedWord(w)
      BY <1>1, <2>2
    <3>. QED
      BY <3>1 DEF IndexedWord
  <2>4. start <= p /\ p < end
    BY <1>3, <2>1, <2>2, <2>3
  <2>5. (p - start + 1) \in 1..len /\ start + (p - start + 1) - 1 = p
    BY <1>2, <2>2, <2>4
  <2>. QED
    BY <1>5, <2>2, <2>5
<1>9. \A i, j \in 1..len : /\ i < j <=> Before(matches[i], matches[j])
                           /\ matches[i].word = matches[j].word => i = j
  <2> TAKE i, j \in 1..len
  <2> DEFINE p == start + i - 1
             q == start + j - 1
  <2>1. p \in 1..Len(index) /\ q \in 1..Len(index)
    BY <1>6
  <2>2. matches[i] = index[p] /\ matches[j] = index[q]
    BY <1>5
  <2>3. (i < j <=> p < q) /\ (i = j <=> p = q)
    BY <1>2, <1>6
  <2> HIDE DEF p, q
  <2>. QED
    BY <1>1, <2>1, <2>2, <2>3
<1> DEFINE g == [i \in 1..len |-> matches[i].word]
<1>10. g \in Bijection(1..len, hits)
  <2>1. g \in [1..len -> hits]
    BY <1>7
  <2>2. \A i, j \in 1..len : g[i] = g[j] => i = j
    BY <1>9
  <2>3. \A w \in hits : \E i \in 1..len : g[i] = w
    BY <1>8
  <2> HIDE DEF g, hits, len
  <2>. QED
    BY <2>1, <2>2, <2>3, Fun_IsBij
<1>11. Cardinality(hits) = len /\ IsFiniteSet(hits)
  <2> HIDE DEF g, hits, len
  <2>1. ExistsBijection(1..len, hits)
    BY <1>10 DEF ExistsBijection
  <2>. QED
    BY <1>6, <2>1, FS_CountingElements, FS_NatBijection
<1>12. ASSUME NEW i \in 1..len
       PROVE  WordsBefore(matches[i].word, hits) = i - 1
  <2> DEFINE before == {w \in hits :
                          Before(IndexedWord(w), IndexedWord(matches[i].word))}
             h == [j \in 1..i - 1 |-> matches[j].word]
  <2>1. i - 1 \in Nat /\ 1..i - 1 \subseteq 1..len
    BY <1>6
  <2>2. h \in [1..i - 1 -> before]
    <3> SUFFICES ASSUME NEW j \in 1..i - 1 PROVE matches[j].word \in before
      OBVIOUS
    <3>1. j \in 1..len /\ j < i
      BY <2>1
    <3>. QED
      BY <1>7, <1>9, <3>1
  <2>3. \A j, k \in 1..i - 1 : h[j] = h[k] => j = k
    BY <1>9, <2>1
  <2>4. \A w \in before : \E j \in 1..i - 1 : h[j] = w
    <3> TAKE w \in before
    <3>1. PICK j \in 1..len : matches[j].word = w
      BY <1>8
    <3>2. j < i
      BY <1>7, <1>9, <3>1
    <3>3. j \in 1..i - 1
      BY <1>6, <3>2
    <3>. QED
      BY <3>1, <3>3
  <2> HIDE DEF h, before
  <2>5. h \in Bijection(1..i - 1, before)
    BY <2>2, <2>3, <2>4, Fun_IsBij
  <2>6. ExistsBijection(1..i - 1, before)
    BY <2>5 DEF ExistsBijection
  <2>. QED
    BY <2>1, <2>6, FS_CountingElements DEF before, WordsBefore
<1>. QED
  BY <1>5, <1>7, <1>11, <1>12 DEF matches, index

-----------------------------------------------------------------------------
(* The pages.                                                               *)

\* What the number of pages is for: it is the least that holds all matches.
LEMMA TotalPagesHoldAll ==
  ASSUME NEW total \in Nat, NEW size \in Nat \ {0}
  PROVE  LET pages == TotalPages(total, size)
         IN  /\ pages \in Nat \ {0}
             /\ (pages - 1) * size <= total
             /\ total <= pages * size
             /\ total > 0 => (pages - 1) * size < total
<1> DEFINE full == total \div size
           rest == total % size
<1>1. full \in Nat /\ rest \in 0..size - 1 /\ total = size * full + rest
  OBVIOUS
<1> HIDE DEF full, rest
<1>2. TotalPages(total, size) =
        LET all == IF rest # 0 THEN full + 1 ELSE full
        IN  IF all = 0 THEN 1 ELSE all
  BY DEF TotalPages, full, rest
<1>3. CASE rest # 0
  <2>1. TotalPages(total, size) = full + 1
    BY <1>1, <1>2, <1>3
  <2>2. (full + 1) * size = size * full + size
    BY <1>1
  <2>3. full * size = size * full /\ size * full \in Nat
    BY <1>1
  <2>4. QED
    BY <1>1, <1>3, <2>1, <2>2, <2>3
<1>4. CASE rest = 0 /\ full # 0
  <2>1. TotalPages(total, size) = full
    BY <1>1, <1>2, <1>4
  <2>2. (full - 1) * size = size * full - size /\ full * size = size * full
    BY <1>1
  <2>3. size * full \in Nat
    BY <1>1
  <2>4. QED
    BY <1>1, <1>4, <2>1, <2>2, <2>3
<1>5. CASE rest = 0 /\ full = 0
  <2>1. TotalPages(total, size) = 1 /\ total = 0
    BY <1>1, <1>2, <1>5
  <2>2. QED
    BY <2>1
<1>6. QED
  BY <1>1, <1>3, <1>4, <1>5

\* Products grow with their first factor.
LEMMA TimesMonotone ==
  ASSUME NEW a \in Nat, NEW b \in Nat, a <= b, NEW size \in Nat
  PROVE  a * size <= b * size
<1>1. b * size = a * size + (b - a) * size
  OBVIOUS
<1>2. (b - a) * size \in Nat /\ a * size \in Nat
  OBVIOUS
<1>3. QED
  BY <1>1, <1>2

\* Whatever page a client asks for, the slice the answer is cut from lies within
\* the matches (engine.go:527): no page number panics or overflows.
THEOREM PagesWithinMatches ==
  ASSUME NEW total \in Nat, NEW size \in Nat \ {0}, NEW page \in Nat \ {0}
  PROVE  /\ PageStart(total, page, size) \in 0..total
         /\ PageEnd(total, page, size) \in PageStart(total, page, size)..total
         /\ PageEnd(total, page, size) - PageStart(total, page, size) <= size
<1> DEFINE pages == TotalPages(total, size)
           start == PageStart(total, page, size)
<1>1. pages \in Nat \ {0} /\ (pages - 1) * size <= total
  BY TotalPagesHoldAll
<1>2. start \in 0..total
  <2>1. CASE page <= pages
    <3>1. (page - 1) * size <= (pages - 1) * size
      <4>1. page - 1 \in Nat /\ pages - 1 \in Nat /\ page - 1 <= pages - 1
        BY <1>1, <2>1
      <4>2. QED
        BY <4>1, TimesMonotone
    <3>2. (page - 1) * size \in Nat
      BY <1>1
    <3>3. start = (page - 1) * size
      BY <2>1 DEF PageStart
    <3>4. (pages - 1) * size \in Int
      BY <1>1
    <3>5. QED
      BY <1>1, <3>1, <3>2, <3>3, <3>4
  <2>2. CASE ~(page <= pages)
    BY <2>2 DEF PageStart
  <2>3. QED
    BY <2>1, <2>2
<1> HIDE DEF start
<1>3. PageEnd(total, page, size)
        = start + (IF size < total - start THEN size ELSE total - start)
  BY DEF PageEnd, start
<1>4. QED
  BY <1>2, <1>3 DEF start

\* The pages 1 to total_pages show every match, each once and in order: a page
\* begins where the one before it ended, the first at the first match and the
\* last ends with the last (engine.go:513).
THEOREM PagesShowAll ==
  ASSUME NEW total \in Nat, NEW size \in Nat \ {0}
  PROVE  LET pages == TotalPages(total, size)
         IN  /\ PageStart(total, 1, size) = 0
             /\ \A page \in 1..pages - 1 :
                  PageEnd(total, page, size) = PageStart(total, page + 1, size)
             /\ PageEnd(total, pages, size) = total
<1> DEFINE pages == TotalPages(total, size)
<1>1. /\ pages \in Nat \ {0}
      /\ (pages - 1) * size <= total
      /\ total <= pages * size
  BY TotalPagesHoldAll
<1>2. \A page \in 1..pages : PageStart(total, page, size) = (page - 1) * size
  BY <1>1 DEF PageStart
<1>3. PageStart(total, 1, size) = 0
  BY <1>1, <1>2
<1>4. ASSUME NEW page \in 1..pages - 1
      PROVE  PageEnd(total, page, size) = PageStart(total, page + 1, size)
  <2>1. page - 1 \in Nat /\ page \in Nat /\ pages - 1 \in Nat
          /\ page <= pages - 1
    BY <1>1
  <2>2. page * size <= (pages - 1) * size
    BY <2>1, TimesMonotone
  <2>3. page * size = (page - 1) * size + size
    BY <2>1
  <2>4. (page - 1) * size \in Nat /\ (pages - 1) * size \in Int
    BY <2>1
  <2>5. PageStart(total, page, size) = (page - 1) * size
    BY <1>1, <1>2
  <2>6. PageStart(total, page + 1, size) = page * size
    <3>1. page + 1 \in 1..pages /\ (page + 1) - 1 = page
      BY <1>1
    <3>2. QED
      BY <1>2, <3>1
  <2> DEFINE start == (page - 1) * size
             last == (pages - 1) * size
             next == page * size
  <2>7. next <= last /\ next = start + size /\ start \in Nat /\ last \in Int
          /\ last <= total
    BY <1>1, <2>2, <2>3, <2>4
  <2>8. PageEnd(total, page, size)
          = start + (IF size < total - start THEN size ELSE total - start)
    BY <2>5 DEF PageEnd
  <2> HIDE DEF start, last, next
  <2>9. PageEnd(total, page, size) = next
    BY <2>7, <2>8
  <2>10. QED
    BY <2>6, <2>9 DEF next
<1>5. PageEnd(total, pages, size) = total
  <2> DEFINE start == (pages - 1) * size
             next == pages * size
  <2>1. start \in Nat /\ next = start + size /\ start <= total /\ total <= next
    BY <1>1
  <2>2. PageStart(total, pages, size) = start
    BY <1>1, <1>2
  <2>3. PageEnd(total, pages, size)
          = start + (IF size < total - start THEN size ELSE total - start)
    BY <2>2 DEF PageEnd
  <2> HIDE DEF start, next
  <2>4. QED
    BY <2>1, <2>3
<1>6. QED
  BY <1>3, <1>4, <1>5

\* The answer to a request for a page of the words that start with the keyword:
\* how many they are, and those whose places are on the page, in order.
IsPageOf(answer, words, keyword, page, size) ==
  LET hits == Matching(words, TrimSpace(ToLower(keyword)))
      start == PageStart(answer.total, Page(page), PageSize(size))
      end == PageEnd(answer.total, Page(page), PageSize(size))
  IN  /\ answer.total = Cardinality(hits)
      /\ answer.items \in Seq(hits) /\ Len(answer.items) = end - start
      /\ \A i \in 1..Len(answer.items) :
           WordsBefore(answer.items[i], hits) = start + i - 1

\* GET /search/fuzzy: whatever the dictionary, the keyword, the page and its
\* size, the answer counts the words that start with the keyword, and shows of
\* them, in the order of the index, those whose places are on the page.
THEOREM FuzzySearchExact ==
  ASSUME NEW words \in SUBSET Words, IsFiniteSet(words), NEW keyword \in Words,
         NEW page \in Int, NEW size \in Int
  PROVE  IsPageOf(FuzzySearch(NewWordIndex(words), keyword, page, size),
                  words, keyword, page, size)
<1> DEFINE key == TrimSpace(ToLower(keyword))
           hits == Matching(words, key)
           matches == PrefixMatches(NewWordIndex(words), key)
           total == Len(matches)
           answer == FuzzySearch(NewWordIndex(words), keyword, page, size)
           start == PageStart(total, Page(page), PageSize(size))
           end == PageEnd(total, Page(page), PageSize(size))
<1>1. key \in Words
  BY ToLowerShape, TrimShape
<1> HIDE DEF key
<1>2. /\ matches \in Seq(IndexEntries) /\ total = Cardinality(hits)
      /\ \A i \in 1..total :
           /\ matches[i].word \in hits
           /\ WordsBefore(matches[i].word, hits) = i - 1
  BY <1>1, MatchesAreRanked
<1>3. /\ answer.total = total
      /\ answer.items = [i \in 1..end - start |-> matches[start + i].word]
  BY DEF FuzzySearch, key
<1>4. total \in Nat /\ Page(page) \in Nat \ {0} /\ PageSize(size) \in Nat \ {0}
  BY <1>2, PageSizeAssumption DEF Page, PageSize
<1> HIDE DEF matches, answer, hits
<1>5. start \in 0..total /\ end \in start..total
  BY <1>4, PagesWithinMatches
<1> HIDE DEF start, end, total
<1>6. /\ end - start \in Nat
      /\ \A i \in 1..end - start : start + i \in 1..total
                                   /\ (start + i) - 1 = start + i - 1
  BY <1>4, <1>5
<1>7. answer.items \in [1..end - start -> hits]
  BY <1>2, <1>3, <1>6
<1>8. answer.items \in Seq(hits) /\ Len(answer.items) = end - start
  <2> DEFINE n == end - start
  <2>1. n \in Nat /\ answer.items \in [1..n -> hits]
    BY <1>6, <1>7
  <2> HIDE DEF n
  <2>2. answer.items \in Seq(hits) /\ Len(answer.items) = n
    BY <2>1
  <2>. QED
    BY <2>2 DEF n
<1>9. \A i \in 1..end - start :
        WordsBefore(answer.items[i], hits) = start + i - 1
  <2> TAKE i \in 1..end - start
  <2>1. answer.items[i] = matches[start + i].word
    BY <1>3
  <2>2. start + i \in 1..total /\ (start + i) - 1 = start + i - 1
    BY <1>6
  <2>. QED
    BY <1>2, <2>1, <2>2
<1>. QED
  BY <1>2, <1>3, <1>8, <1>9 DEF IsPageOf, answer, start, end, hits, key
=============================================================================
