---------------------------- MODULE Redist_proofs ----------------------------
(***************************************************************************)
(* Lemmas about the arithmetic of module Redist, for any number of ranks,  *)
(* rows and micro-batches.                                                 *)
(***************************************************************************)
EXTENDS Redist, FiniteSetTheorems, WellFoundedInduction, TLAPS

-----------------------------------------------------------------------------
(* Division with remainder. *)

\* Quotient and remainder, as C++'s / and % compute them for numbers that are
\* not negative.
LEMMA DivMod ==
    ASSUME NEW a \in Int, NEW n \in Nat \ {0}
    PROVE  /\ a \div n \in Int
           /\ a % n \in 0..(n - 1)
           /\ a = n * (a \div n) + (a % n)
  OBVIOUS

\* Zero is the only multiple of n between -n and n.
LEMMA NoMultipleBetween ==
    ASSUME NEW n \in Nat \ {0}, NEW z \in Int, n * z < n, -n < n * z
    PROVE  z = 0
<1>1. CASE z >= 1
  <2>1. n * z >= n * 1
    BY <1>1
  <2> QED
    BY <2>1
<1>2. CASE z <= -1
  <2>1. n * z <= n * (-1)
    BY <1>2
  <2> QED
    BY <2>1
<1> QED
  BY <1>1, <1>2

\* Quotient and remainder are unique.
LEMMA DivModUnique ==
    ASSUME NEW n \in Nat \ {0}, NEW q \in Int, NEW d \in 0..(n - 1), NEW a \in Int,
           a = n * q + d
    PROVE  a \div n = q /\ a % n = d
<1>1. /\ a \div n \in Int /\ a % n \in 0..(n - 1)
      /\ a = n * (a \div n) + (a % n)
  BY DivMod
<1>2. n * (q - a \div n) = (a % n) - d
  BY <1>1
<1>3. q - a \div n = 0
  BY <1>1, <1>2, NoMultipleBetween
<1> QED
  BY <1>1, <1>3

\* The quotient of a number that is not negative is not, either.
LEMMA DivNat ==
    ASSUME NEW a \in Nat, NEW n \in Nat \ {0}
    PROVE  a \div n \in Nat /\ n * (a \div n) <= a /\ a < n * (a \div n) + n
<1>1. /\ a \div n \in Int /\ a % n \in 0..(n - 1)
      /\ a = n * (a \div n) + (a % n)
  BY DivMod
<1>2. a \div n >= 0
  <2>1. SUFFICES ASSUME a \div n <= -1 PROVE FALSE
    BY <1>1
  <2>2. n * (a \div n) <= n * (-1)
    BY <1>1, <2>1
  <2> QED
    BY <1>1, <2>2
<1> QED
  BY <1>1, <1>2

\* std::ceil of a fraction: q full groups of n and a rest of s, of which the
\* first d do not count.
LEMMA CeilDivRest ==
    ASSUME NEW n \in Nat \ {0}, NEW q \in Int, NEW s \in 0..(n - 1), NEW d \in 0..(n - 1)
    PROVE  CeilDiv(n * q + s - d, n) = q + IF d < s THEN 1 ELSE 0
<1> DEFINE a == n * q + s - d
<1>1. -a \in Int
  OBVIOUS
<1>2. CASE d < s
  <2>1. PICK p \in Int, e \in 0..(n - 1) : p = -q - 1 /\ e = n - s + d
    BY <1>2
  <2>2. -a = n * p + e
    BY <2>1
  <2>3. (-a) \div n = p
    BY <1>1, <2>2, DivModUnique
  <2> QED
    BY <1>2, <2>1, <2>3 DEF CeilDiv
<1>3. CASE ~(d < s)
  <2>1. PICK p \in Int, e \in 0..(n - 1) : p = -q /\ e = d - s
    BY <1>3
  <2>2. -a = n * p + e
    BY <2>1
  <2>3. (-a) \div n = p
    BY <1>1, <2>2, DivModUnique
  <2> QED
    BY <1>3, <2>1, <2>3 DEF CeilDiv
<1> QED
  BY <1>2, <1>3

-----------------------------------------------------------------------------
(* The least element, in place of induction. *)

\* A set of natural numbers that is not empty has a least element.
LEMMA LeastNat ==
    ASSUME NEW U \in SUBSET Nat, U # {}
    PROVE  \E m \in U : \A n \in U : m <= n
<1>1. PICK m \in U : \A n \in U : <<n, m>> \notin OpToRel(<, Nat)
  BY NatLessThanWellFounded, WFMin, Zenon
<1>2. \A n \in U : ~(n < m)
  BY <1>1 DEF OpToRel
<1> QED
  BY <1>2

-----------------------------------------------------------------------------
(* Places in an order. *)

(***************************************************************************)
(* In a finite set with a strict total order, the number of elements below *)
(* an element is its place: places are 0, 1, ... without a gap, and a      *)
(* greater element has a greater place.                                    *)
(***************************************************************************)
OrderedBy(S, below) ==
    /\ IsFiniteSet(S)
    /\ below \in [S -> SUBSET S]
    /\ \A x \in S : x \notin below[x]
    /\ \A x, y \in S : x \in below[y] => below[x] \subseteq below[y]
    /\ \A x, y \in S : x = y \/ x \in below[y] \/ y \in below[x]

\* In a finite linear order the number of smaller elements is a place, each place taken once.
LEMMA Places ==
    ASSUME NEW S, NEW below, OrderedBy(S, below)
    PROVE  /\ Cardinality(S) \in Nat
           /\ \A x \in S : Cardinality(below[x]) \in 0..(Cardinality(S) - 1)
           /\ \A x, y \in S :
                 x \in below[y] => Cardinality(below[x]) < Cardinality(below[y])
           /\ \A i \in 0..(Cardinality(S) - 1) :
                 \E x \in S : Cardinality(below[x]) = i
<1> USE DEF OrderedBy
<1> DEFINE place == [x \in S |-> Cardinality(below[x])]
<1> DEFINE n == Cardinality(S)
<1>1. n \in Nat
  BY FS_CardinalityType
<1>2. \A x \in S : IsFiniteSet(below[x]) /\ place[x] = Cardinality(below[x]) /\ place[x] \in Nat
  <2> TAKE x \in S
  <2>1. below[x] \in SUBSET S
    OBVIOUS
  <2>2. IsFiniteSet(below[x])
    BY <2>1, FS_Subset
  <2>3. Cardinality(below[x]) \in Nat
    BY <2>2, FS_CardinalityType
  <2> QED
    BY <2>2, <2>3
<1>3. \A x \in S : place[x] \in 0..(n - 1)
  <2> TAKE x \in S
  <2>1. below[x] \in SUBSET S /\ x \notin below[x]
    OBVIOUS
  <2>2. Cardinality(below[x]) <= n /\ Cardinality(below[x]) # n
    BY <2>1, FS_Subset
  <2> QED
    BY <1>1, <1>2, <2>2
<1>4. \A x, y \in S : x \in below[y] => place[x] < place[y]
  <2> SUFFICES ASSUME NEW x \in S, NEW y \in S, x \in below[y]
               PROVE  place[x] < place[y]
    OBVIOUS
  <2>1. below[x] \in SUBSET below[y] /\ x \notin below[x]
    OBVIOUS
  <2>2. /\ Cardinality(below[x]) <= Cardinality(below[y])
        /\ Cardinality(below[y]) # Cardinality(below[x])
    BY <1>2, <2>1, FS_Subset
  <2> QED
    BY <1>2, <2>2
<1>5. place \in [S -> 0..(n - 1)]
  BY <1>3
<1>6. \A x, y \in S : place[x] = place[y] => x = y
  <2> SUFFICES ASSUME NEW x \in S, NEW y \in S, place[x] = place[y], x # y PROVE FALSE
    OBVIOUS
  <2>1. x \in below[y] \/ y \in below[x]
    OBVIOUS
  <2>2. place[x] < place[y] \/ place[y] < place[x]
    BY <2>1, <1>4
  <2> QED
    BY <2>2, <1>2
<1>7. place \in Injection(S, 0..(n - 1))
  BY <1>5, <1>6 DEF Injection, IsInjective
<1>8. IsFiniteSet(0..(n - 1)) /\ Cardinality(0..(n - 1)) = n
  <2>1. 0 \in Int /\ n - 1 \in Int
    BY <1>1
  <2>2. /\ IsFiniteSet(0..(n - 1))
        /\ Cardinality(0..(n - 1)) = IF 0 > n - 1 THEN 0 ELSE n - 1 - 0 + 1
    BY <2>1, FS_Interval
  <2> QED
    BY <1>1, <2>2
<1>9. place \in Surjection(S, 0..(n - 1))
  BY <1>7, <1>8, FS_Injection
<1>10. \A i \in 0..(n - 1) : \E x \in S : place[x] = i
  BY <1>9 DEF Surjection
<1> QED
  BY <1>1, <1>2, <1>3, <1>4, <1>10

\* Positions of ranks: vec_ranks has every index once.
LEMMA Positions ==
    ASSUME NEW S \in SUBSET Nat, IsFiniteSet(S)
    PROVE  /\ Cardinality(S) \in Nat
           /\ \A r \in S : Position(r, S) \in 0..(Cardinality(S) - 1)
           /\ \A q, r \in S : q < r => Position(q, S) < Position(r, S)
           /\ \A i \in 0..(Cardinality(S) - 1) : \E r \in S : Position(r, S) = i
<1>1. PICK below : below = [r \in S |-> {q \in S : q < r}]
  OBVIOUS
<1>2. below \in [S -> SUBSET S]
  BY <1>1
<1>3. \A q, r \in S : q \in below[r] <=> q < r
  BY <1>1
<1>4. \A r \in S : Position(r, S) = Cardinality(below[r])
  BY <1>1 DEF Position
<1>5. OrderedBy(S, below)
  <2>1. \A x \in S : x \notin below[x]
    BY <1>2, <1>3
  <2>2. ASSUME NEW x \in S, NEW y \in S, x \in below[y], NEW z \in below[x]
        PROVE  z \in below[y]
    <3>1. z \in S /\ z < x /\ x < y
      BY <1>2, <1>3, <2>2
    <3> QED
      BY <1>3, <3>1
  <2>3. \A x, y \in S : x = y \/ x < y \/ y < x
    OBVIOUS
  <2> QED
    BY <1>2, <1>3, <2>1, <2>2, <2>3 DEF OrderedBy
<1>6. /\ Cardinality(S) \in Nat
      /\ \A x \in S : Cardinality(below[x]) \in 0..(Cardinality(S) - 1)
      /\ \A x, y \in S :
            x \in below[y] => Cardinality(below[x]) < Cardinality(below[y])
      /\ \A i \in 0..(Cardinality(S) - 1) :
            \E x \in S : Cardinality(below[x]) = i
  BY <1>5, Places
<1>7. \A q, r \in S : q < r => Position(q, S) < Position(r, S)
  BY <1>3, <1>4, <1>6
<1>8. \A i \in 0..(Cardinality(S) - 1) : \E r \in S : Position(r, S) = i
  BY <1>4, <1>6
<1> QED
  BY <1>4, <1>6, <1>7, <1>8

\* On consecutive ranks from 0 on, a rank is its own index.
LEMMA PositionInInterval ==
    ASSUME NEW n \in Nat \ {0}, NEW r \in 0..(n - 1)
    PROVE  /\ IsFiniteSet(0..(n - 1)) /\ Cardinality(0..(n - 1)) = n
           /\ Position(r, 0..(n - 1)) = r
<1>1. {q \in 0..(n - 1) : q < r} = 0..(r - 1)
  OBVIOUS
<1>2. 0 \in Int /\ r - 1 \in Int /\ n - 1 \in Int
  OBVIOUS
<1>3. Cardinality(0..(r - 1)) = IF 0 > r - 1 THEN 0 ELSE r - 1 - 0 + 1
  BY <1>2, FS_Interval
<1>4. /\ IsFiniteSet(0..(n - 1))
      /\ Cardinality(0..(n - 1)) = IF 0 > n - 1 THEN 0 ELSE n - 1 - 0 + 1
  BY <1>2, FS_Interval
<1>5. Cardinality(0..(r - 1)) = r
  BY <1>3
<1>6. Position(r, 0..(n - 1)) = r
  BY <1>1, <1>5 DEF Position
<1> QED
  BY <1>4, <1>6

\* Going round a circle of n from m, row m + d falls to whoever is at that
\* place of the circle.
OnCircle(n, pos, m, d) ==
    /\ n \in Nat \ {0} /\ pos \in 0..(n - 1) /\ m \in Int /\ d \in 0..(n - 1)
    /\ \E t \in Int : pos + n * t = m + d

\* How far a place lies behind row m on the circle, as the code computes it.
LEMMA AroundCircle ==
    ASSUME NEW n, NEW pos, NEW m, NEW d, OnCircle(n, pos, m, d)
    PROVE  (pos + n - (m % n)) % n = d
<1> USE DEF OnCircle
<1>0. PICK t \in Int : pos + n * t = m + d
  OBVIOUS
<1>1. PICK o \in 0..(n - 1), p \in Int : o = m % n /\ m = n * p + o
  BY DivMod
<1>2. PICK q \in Int : q = 1 + p - t
  OBVIOUS
<1>3. n * q = n + n * p - n * t
  BY <1>2
<1>4. PICK a \in Int : a = pos + n - o
  OBVIOUS
<1>5. a = n * q + d
  BY <1>0, <1>1, <1>3, <1>4
<1>6. a % n = d
  BY <1>5, DivModUnique
<1> QED
  BY <1>1, <1>4, <1>6

-----------------------------------------------------------------------------
(* The rows of a split on each rank. *)

\* Rank r's index counted from the rank that starts the split.
FromStart(r, ranks, b, k) ==
    (Position(r, ranks) + Cardinality(ranks) - ((k * b) % Cardinality(ranks)))
        % Cardinality(ranks)

\* Every rank gets b \div n rows, the first b % n, counted from the one that
\* starts the split, get one more.
FairShare(r, ranks, b, k, n) ==
    /\ n \in Nat \ {0}
    /\ Position(r, ranks) \in 0..(n - 1)
    /\ b \div n \in Nat /\ b % n \in 0..(n - 1) /\ b = n * (b \div n) + (b % n)
    /\ FromStart(r, ranks, b, k) \in 0..(n - 1)
    /\ RankBatchSizes(b, ranks, k)[r] =
          b \div n + IF FromStart(r, ranks, b, k) < (b % n) THEN 1 ELSE 0

\* What getSplitBatchSizes returns for a rank of a group of n.
LEMMA ShareOf ==
    ASSUME NEW ranks \in SUBSET Nat, IsFiniteSet(ranks), NEW b \in Nat, NEW k \in Nat,
           NEW r \in ranks, NEW n, n = Cardinality(ranks)
    PROVE  FairShare(r, ranks, b, k, n)
<1>1. n \in Nat /\ Position(r, ranks) \in 0..(n - 1)
  BY Positions
<1>2. n \in Nat \ {0}
  BY <1>1
<1>3. PICK m \in Nat : m = k * b
  OBVIOUS
<1>4. m % n \in 0..(n - 1)
  BY <1>2, DivMod
<1>5. PICK a \in Int : a = Position(r, ranks) + n - (m % n)
  BY <1>1, <1>4
<1>6. a % n \in 0..(n - 1)
  BY <1>2, DivMod
<1>7. FromStart(r, ranks, b, k) = a % n
  BY <1>3, <1>5 DEF FromStart
<1>8. b \div n \in Nat
  BY <1>2, DivNat
<1>10. b % n \in 0..(n - 1) /\ b = n * (b \div n) + (b % n)
  BY <1>2, DivMod
<1>9. RankBatchSizes(b, ranks, k)[r] =
         b \div n + IF FromStart(r, ranks, b, k) < (b % n) THEN 1 ELSE 0
  BY DEF RankBatchSizes, FromStart
<1> QED
  BY <1>1, <1>2, <1>6, <1>7, <1>8, <1>9, <1>10 DEF FairShare

\* Shares are numbers of rows.
LEMMA ShareType ==
    ASSUME NEW ranks \in SUBSET Nat, IsFiniteSet(ranks), NEW b \in Nat, NEW k \in Nat
    PROVE  RankBatchSizes(b, ranks, k) \in [ranks -> Nat]
<1>1. PICK n : n = Cardinality(ranks)
  OBVIOUS
<1>2. ASSUME NEW r \in ranks
      PROVE  RankBatchSizes(b, ranks, k)[r] \in Nat
  <2>1. FairShare(r, ranks, b, k, n)
    BY <1>1, ShareOf
  <2> QED
    BY <2>1 DEF FairShare
<1> QED
  BY <1>2 DEF RankBatchSizes

(***************************************************************************)
(* A split with a row leaves no group of ranks without work: the rank that *)
(* starts the split gets a row.                                            *)
(***************************************************************************)
LEMMA SomeoneHasRows ==
    ASSUME NEW ranks \in SUBSET Nat, IsFiniteSet(ranks), ranks # {},
           NEW b \in Nat \ {0}, NEW k \in Nat
    PROVE  \E r \in ranks : RankBatchSizes(b, ranks, k)[r] > 0
<1>1. PICK n \in Nat \ {0} : n = Cardinality(ranks)
  BY FS_CardinalityType, FS_EmptySet
<1>2. PICK m \in Nat : m = k * b
  OBVIOUS
<1>3. PICK o \in 0..(n - 1) : o = m % n
  BY DivMod
<1>4. PICK r \in ranks : Position(r, ranks) = o
  BY <1>1, Positions
<1>5. FromStart(r, ranks, b, k) = 0
  <2>1. PICK a \in Int : a = o + n - o
    OBVIOUS
  <2>2. a = n * 1 + 0 /\ 0 \in 0..(n - 1) /\ 1 \in Int
    BY <2>1
  <2>3. a % n = 0
    BY <2>2, DivModUnique
  <2> QED
    BY <1>1, <1>2, <1>3, <1>4, <2>1, <2>3 DEF FromStart
<1>6. /\ b \div n \in Nat /\ b % n \in 0..(n - 1) /\ b = n * (b \div n) + (b % n)
      /\ RankBatchSizes(b, ranks, k)[r] =
            b \div n + IF FromStart(r, ranks, b, k) < (b % n) THEN 1 ELSE 0
  <2>1. FairShare(r, ranks, b, k, n)
    BY <1>1, ShareOf
  <2> QED
    BY <2>1 DEF FairShare
<1>7. b \div n > 0 \/ b % n > 0
  <2>1. b \div n = 0 => b = b % n
    BY <1>6
  <2> QED
    BY <1>6, <2>1
<1>8. RankBatchSizes(b, ranks, k)[r] > 0
  BY <1>5, <1>6, <1>7
<1> QED
  BY <1>8

(***************************************************************************)
(* Consecutive splits of one size cover the ranks round and round without  *)
(* a gap: lay out the rows of all splits in a row and deal them to the     *)
(* ranks in turn; a rank whose row x falls into split k has a row there.   *)
(***************************************************************************)
LEMMA SplitsTile ==
    ASSUME NEW ranks \in SUBSET Nat, IsFiniteSet(ranks), NEW r \in ranks,
           NEW b \in Nat \ {0}, NEW k \in Nat, NEW t \in Nat, NEW x \in Nat,
           x = Position(r, ranks) + Cardinality(ranks) * t,
           b * k <= x, x < b * k + b
    PROVE  RankBatchSizes(b, ranks, k)[r] > 0
<1>1. PICK n : n = Cardinality(ranks)
  OBVIOUS
<1>2. /\ n \in Nat \ {0}
      /\ Position(r, ranks) \in 0..(n - 1)
      /\ b \div n \in Nat /\ b % n \in 0..(n - 1) /\ b = n * (b \div n) + (b % n)
      /\ RankBatchSizes(b, ranks, k)[r] =
            b \div n + IF FromStart(r, ranks, b, k) < (b % n) THEN 1 ELSE 0
  <2>1. FairShare(r, ranks, b, k, n)
    BY <1>1, ShareOf
  <2> QED
    BY <2>1 DEF FairShare
<1>3. CASE b \div n > 0
  BY <1>2, <1>3
<1>4. CASE b \div n = 0
  <2>1. b % n = b /\ b < n
    BY <1>2, <1>4
  <2>2. PICK m \in Nat : m = k * b
    OBVIOUS
  <2>3. b * k = m
    BY <2>2
  <2>4. PICK d \in 0..(b - 1) : x = m + d
    BY <2>3
  <2>5. d \in 0..(n - 1)
    BY <1>2, <2>1
  <2>6. PICK pos \in 0..(n - 1) : pos = Position(r, ranks)
    BY <1>2
  <2>7. pos + n * t = m + d
    BY <1>1, <2>4, <2>6
  <2>8. (pos + n - (m % n)) % n = d
    <3>1. OnCircle(n, pos, m, d)
      BY <1>2, <2>5, <2>7 DEF OnCircle
    <3> QED
      BY <3>1, AroundCircle
  <2>9. FromStart(r, ranks, b, k) = d
    BY <1>1, <2>2, <2>6, <2>8 DEF FromStart
  <2> QED
    BY <1>2, <2>1, <2>9
<1> QED
  BY <1>2, <1>3, <1>4

(***************************************************************************)
(* With at least as many splits as ranks, whatever the size of the splits: *)
(* a rank has a row in a split up to the one that has its own number, and  *)
(* in one from there on.                                                   *)
(***************************************************************************)
LEMMA WorksEarly ==
    ASSUME NEW ranks \in SUBSET Nat, IsFiniteSet(ranks), NEW r \in ranks,
           NEW b \in Nat \ {0}
    PROVE  \E k \in 0..Position(r, ranks) : RankBatchSizes(b, ranks, k)[r] > 0
<1>1. PICK n \in Nat : n = Cardinality(ranks)
  BY Positions
<1>2. PICK pos \in 0..(n - 1) : pos = Position(r, ranks)
  BY <1>1, Positions
<1>3. PICK k \in Nat : k = pos \div b /\ b * k <= pos /\ pos < b * k + b
  <2>1. pos \in Nat
    OBVIOUS
  <2> QED
    BY <2>1, DivNat
<1>4. k <= pos
  <2>1. k <= b * k
    OBVIOUS
  <2> QED
    BY <1>3, <2>1
<1>5. pos = Position(r, ranks) + Cardinality(ranks) * 0 /\ 0 \in Nat /\ pos \in Nat
  BY <1>1, <1>2
<1>6. RankBatchSizes(b, ranks, k)[r] > 0
  BY <1>3, <1>5, SplitsTile
<1> QED
  BY <1>2, <1>4, <1>6

\* Rotation gives a rank rows in some split from its own position on.
LEMMA WorksLate ==
    ASSUME NEW ranks \in SUBSET Nat, IsFiniteSet(ranks), NEW r \in ranks,
           NEW b \in Nat \ {0}
    PROVE  \E k \in Position(r, ranks)..(Cardinality(ranks) - 1) :
              RankBatchSizes(b, ranks, k)[r] > 0
<1>1. PICK n \in Nat : n = Cardinality(ranks)
  BY Positions
<1>2. PICK pos \in 0..(n - 1) : pos = Position(r, ranks)
  BY <1>1, Positions
<1>3. PICK t \in Nat : t = b - 1
  OBVIOUS
<1>4. PICK x \in Nat : x = pos + n * t
  OBVIOUS
<1>5. PICK k \in Nat : b * k <= x /\ x < b * k + b
  BY <1>4, DivNat
<1>6. pos <= k
  <2>1. (pos + 1) * t <= n * t
    OBVIOUS
  <2>2. b * pos + t <= x
    <3>1. (pos + 1) * t = pos * t + t /\ b * pos = pos * t + pos
      BY <1>3
    <3> QED
      BY <2>1, <3>1, <1>4
  <2>3. SUFFICES ASSUME k + 1 <= pos PROVE FALSE
    OBVIOUS
  <2>4. b * (k + 1) <= b * pos
    BY <2>3
  <2>5. b * (k + 1) = b * k + b
    OBVIOUS
  <2> QED
    BY <1>5, <2>2, <2>4, <2>5
<1>7. k <= n - 1
  <2>1. x < b * n
    <3>1. b * n = n * t + n
      BY <1>3
    <3> QED
      BY <1>4, <3>1
  <2>2. SUFFICES ASSUME n <= k PROVE FALSE
    OBVIOUS
  <2>3. b * n <= b * k
    BY <2>2
  <2> QED
    BY <1>5, <2>1, <2>3
<1>8. x = Position(r, ranks) + Cardinality(ranks) * t
  BY <1>1, <1>2, <1>4
<1>9. RankBatchSizes(b, ranks, k)[r] > 0
  BY <1>5, <1>8, SplitsTile
<1> QED
  BY <1>1, <1>2, <1>6, <1>7, <1>9

-----------------------------------------------------------------------------
(* getLocalSplitBatchSizes: how many of its own rows a rank slices off. *)

\* The loop's offset before every split.
Offsets(f, sizes, n, rank) ==
    f = [i \in DOMAIN sizes |->
           IF i = 0 THEN rank
           ELSE f[i - 1] - sizes[i - 1] + n * CeilDiv(sizes[i - 1] - f[i - 1], n)]

\* The loop runs: if some f gives its offsets, so does the one it computes.
LEMMA LocalSizesLoop ==
    ASSUME NEW sizes, NEW n, NEW rank, NEW g, Offsets(g, sizes, n, rank)
    PROVE  \E f : /\ Offsets(f, sizes, n, rank)
                  /\ \A i \in DOMAIN sizes :
                        LocalSplitBatchSizes(sizes, n, rank)[i] = CeilDiv(sizes[i] - f[i], n)
<1> DEFINE f == CHOOSE h : Offsets(h, sizes, n, rank)
<1>1. Offsets(f, sizes, n, rank)
  OBVIOUS
<1>2. LocalSplitBatchSizes(sizes, n, rank) =
         [i \in DOMAIN sizes |-> CeilDiv(sizes[i] - f[i], n)]
  BY DEF LocalSplitBatchSizes, Offsets
<1> QED
  BY <1>1, <1>2

\* The offsets are determined by the loop.
LEMMA OffsetsUnique ==
    ASSUME NEW P \in Nat, NEW sizes, DOMAIN sizes = 0..(P - 1), NEW n, NEW rank,
           NEW f, NEW g, Offsets(f, sizes, n, rank), Offsets(g, sizes, n, rank)
    PROVE  \A i \in 0..(P - 1) : f[i] = g[i]
<1> DEFINE Bad == {i \in 0..(P - 1) : f[i] # g[i]}
<1>1. SUFFICES ASSUME Bad # {} PROVE FALSE
  OBVIOUS
<1>2. Bad \subseteq Nat
  OBVIOUS
<1>3. PICK m \in Bad : \A i \in Bad : m <= i
  BY <1>1, <1>2, LeastNat
<1>5. f[m] = IF m = 0 THEN rank
             ELSE f[m - 1] - sizes[m - 1] + n * CeilDiv(sizes[m - 1] - f[m - 1], n)
  BY DEF Offsets
<1>6. g[m] = IF m = 0 THEN rank
             ELSE g[m - 1] - sizes[m - 1] + n * CeilDiv(sizes[m - 1] - g[m - 1], n)
  BY DEF Offsets
<1>7. m # 0
  BY <1>5, <1>6
<1>8. m - 1 \in 0..(P - 1) /\ m - 1 \notin Bad
  BY <1>3, <1>7
<1>9. f[m - 1] = g[m - 1]
  BY <1>8
<1> QED
  BY <1>5, <1>6, <1>7, <1>9

\* Where FromStart puts a rank on the circle.
LEMMA StartsOnCircle ==
    ASSUME NEW n \in Nat \ {0}, NEW pos \in 0..(n - 1), NEW m \in Nat, NEW d,
           d = (pos + n - (m % n)) % n
    PROVE  OnCircle(n, pos, m, d)
<1>0. m \in Int
  OBVIOUS
<1>1. PICK o \in 0..(n - 1), p \in Int : o = m % n /\ m = n * p + o
  BY <1>0, DivMod
<1>2. PICK a \in Int : a = pos + n - o
  OBVIOUS
<1>3. d = a % n
  BY <1>1, <1>2
<1>4. PICK q \in Int : d \in 0..(n - 1) /\ a = n * q + d
  BY <1>3, DivMod
<1>5. PICK t \in Int : t = 1 + p - q
  OBVIOUS
<1>6. n * t = n + n * p - n * q
  BY <1>5
<1>7. pos + n * t = m + d
  BY <1>1, <1>2, <1>4, <1>6
<1> QED
  BY <1>4, <1>7 DEF OnCircle

\* One turn of the loop moves a rank b rows on.
LEMMA OffsetStep ==
    ASSUME NEW n, NEW pos, NEW m, NEW d, OnCircle(n, pos, m, d), NEW b \in Nat
    PROVE  /\ OnCircle(n, pos, m + b, d - b + n * CeilDiv(b - d, n))
           /\ CeilDiv(b - d, n) = b \div n + IF d < (b % n) THEN 1 ELSE 0
<1>1. n \in Nat \ {0} /\ pos \in 0..(n - 1) /\ m \in Int /\ d \in 0..(n - 1)
  BY DEF OnCircle
<1>2. PICK t \in Int : pos + n * t = m + d
  BY DEF OnCircle
<1>3. PICK q \in Nat, s \in 0..(n - 1) : q = b \div n /\ s = b % n /\ b = n * q + s
  <2>1. b \div n \in Nat
    BY <1>1, DivNat
  <2>2. b \in Int
    OBVIOUS
  <2>3. b % n \in 0..(n - 1) /\ b = n * (b \div n) + (b % n)
    BY <1>1, <2>2, DivMod
  <2> QED
    BY <2>1, <2>3
<1>4. CeilDiv(n * q + s - d, n) = q + IF d < s THEN 1 ELSE 0
  <2>1. q \in Int
    OBVIOUS
  <2> QED
    BY <1>1, <2>1, CeilDivRest
<1>5. PICK c \in Int : c = CeilDiv(b - d, n) /\ c = q + IF d < s THEN 1 ELSE 0
  <2>1. b - d = n * q + s - d
    BY <1>1, <1>3
  <2>2. q + (IF d < s THEN 1 ELSE 0) \in Int
    OBVIOUS
  <2> QED
    BY <1>4, <2>1, <2>2
<1>6. PICK e \in Int : e = d - b + n * c
  BY <1>1, <1>5
<1>7. e \in 0..(n - 1)
  <2>1. CASE d < s
    <3>1. n * c = n * q + n
      BY <1>1, <1>5, <2>1
    <3> QED
      BY <1>1, <1>3, <1>6, <2>1, <3>1
  <2>2. CASE ~(d < s)
    <3>1. n * c = n * q
      BY <1>1, <1>5, <2>2
    <3> QED
      BY <1>1, <1>3, <1>6, <2>2, <3>1
  <2> QED
    BY <2>1, <2>2
<1>8. PICK u \in Int : u = t + c
  OBVIOUS
<1>9. n * u = n * t + n * c
  BY <1>1, <1>8
<1>10. pos + n * u = (m + b) + e
  BY <1>1, <1>2, <1>6, <1>9
<1>11. OnCircle(n, pos, m + b, e)
  BY <1>1, <1>7, <1>10 DEF OnCircle
<1> QED
  BY <1>3, <1>5, <1>6, <1>11

(***************************************************************************)
(* When all splits have the same size, the two loops over a batch agree:   *)
(* the rows a rank slices off for split i (getLocalSplitBatchSizes) are as *)
(* many as the redistribution of split i takes from it                     *)
(* (getSplitBatchSizes), for any number of ranks, splits and rows.         *)
(***************************************************************************)
LEMMA EvenSlices ==
    ASSUME NEW n \in Nat \ {0}, NEW rank \in 0..(n - 1), NEW P \in Nat, NEW b \in Nat,
           NEW sizes, sizes = [i \in 0..(P - 1) |-> b], NEW i \in 0..(P - 1)
    PROVE  LocalSplitBatchSizes(sizes, n, rank)[i] = RankBatchSizes(b, 0..(n - 1), i)[rank]
<1>1. PICK ranks \in SUBSET Nat : ranks = 0..(n - 1)
  OBVIOUS
<1>2. /\ IsFiniteSet(ranks) /\ Cardinality(ranks) = n /\ rank \in ranks
      /\ Position(rank, ranks) = rank
  BY <1>1, PositionInInterval
<1>3. PICK g : g = [j \in 0..(P - 1) |-> FromStart(rank, ranks, b, j)]
  OBVIOUS
<1>4. ASSUME NEW j \in 0..(P - 1)
      PROVE  OnCircle(n, rank, j * b, g[j])
  <2>1. PICK m \in Nat : m = j * b
    OBVIOUS
  <2>2. g[j] = (rank + n - (m % n)) % n
    BY <1>2, <1>3, <2>1 DEF FromStart
  <2> QED
    BY <2>1, <2>2, StartsOnCircle
<1>5. ASSUME NEW j \in 0..(P - 1)
      PROVE  g[j] = IF j = 0 THEN rank
                    ELSE g[j - 1] - sizes[j - 1] + n * CeilDiv(sizes[j - 1] - g[j - 1], n)
  <2>1. PICK m \in Nat : m = j * b
    OBVIOUS
  <2>2. g[j] = (rank + n - (m % n)) % n
    BY <1>2, <1>3, <2>1 DEF FromStart
  <2>3. CASE j = 0
    <3>1. m = 0
      BY <2>1, <2>3
    <3>2. rank + n * 0 = m + rank /\ 0 \in Int
      BY <3>1
    <3>3. OnCircle(n, rank, m, rank)
      BY <3>2 DEF OnCircle
    <3>4. (rank + n - (m % n)) % n = rank
      BY <3>3, AroundCircle
    <3> QED
      BY <2>2, <2>3, <3>4
  <2>4. CASE j # 0
    <3>1. PICK k \in 0..(P - 1) : k = j - 1
      BY <2>4
    <3>2. PICK d : d = g[k]
      OBVIOUS
    <3>3. PICK l \in Nat : l = k * b
      OBVIOUS
    <3>4. OnCircle(n, rank, l, d)
      BY <1>4, <3>2, <3>3
    <3>5. PICK e : e = d - b + n * CeilDiv(b - d, n)
      OBVIOUS
    <3>6. OnCircle(n, rank, l + b, e)
      BY <3>4, <3>5, OffsetStep
    <3>7. m = l + b
      BY <2>1, <3>1, <3>3
    <3>8. OnCircle(n, rank, m, e)
      BY <3>6, <3>7
    <3>9. g[j] = e
      BY <2>2, <3>8, AroundCircle
    <3>10. sizes[k] = b
      BY <3>1
    <3> QED
      BY <2>4, <3>1, <3>2, <3>5, <3>9, <3>10
  <2> QED
    BY <2>3, <2>4
<1>6. DOMAIN sizes = 0..(P - 1)
  OBVIOUS
<1>7. Offsets(g, sizes, n, rank)
  BY <1>3, <1>5, <1>6 DEF Offsets
<1>8. PICK f : /\ Offsets(f, sizes, n, rank)
               /\ \A j \in DOMAIN sizes :
                     LocalSplitBatchSizes(sizes, n, rank)[j] = CeilDiv(sizes[j] - f[j], n)
  BY <1>7, LocalSizesLoop
<1>9. f[i] = g[i]
  BY <1>6, <1>7, <1>8, OffsetsUnique
<1>10. LocalSplitBatchSizes(sizes, n, rank)[i] = CeilDiv(b - g[i], n)
  BY <1>6, <1>8, <1>9
<1>11. CeilDiv(b - g[i], n) = b \div n + IF g[i] < (b % n) THEN 1 ELSE 0
  <2>1. OnCircle(n, rank, i * b, g[i])
    BY <1>4
  <2> QED
    BY <2>1, OffsetStep
<1>12. FairShare(rank, ranks, b, i, n)
  <2>1. n = Cardinality(ranks) /\ i \in Nat
    BY <1>2
  <2> QED
    BY <1>2, <2>1, ShareOf
<1>13. RankBatchSizes(b, ranks, i)[rank] =
          b \div n + IF g[i] < (b % n) THEN 1 ELSE 0
  BY <1>3, <1>12 DEF FairShare
<1> QED
  BY <1>1, <1>10, <1>11, <1>13

\* A rank on its own slices off whole splits, whatever their sizes.
LEMMA SoleSlices ==
    ASSUME NEW P \in Nat, NEW sizes \in [0..(P - 1) -> Nat], NEW i \in 0..(P - 1)
    PROVE  /\ LocalSplitBatchSizes(sizes, 1, 0)[i] = sizes[i]
           /\ RankBatchSizes(sizes[i], {0}, i)[0] = sizes[i]
<1>1. ASSUME NEW s \in Nat
      PROVE  CeilDiv(s - 0, 1) = s /\ s \div 1 = s /\ s % 1 = 0
  <2>1. s = 1 * s + 0 /\ -s = 1 * (-s) + 0 /\ 0 \in 0..(1 - 1) /\ -s \in Int /\ 1 \in Nat \ {0}
    OBVIOUS
  <2>2. s \div 1 = s /\ s % 1 = 0
    BY <2>1, DivModUnique
  <2>3. (-s) \div 1 = -s
    BY <2>1, DivModUnique
  <2> QED
    BY <2>2, <2>3 DEF CeilDiv
<1>2. PICK g : g = [j \in 0..(P - 1) |-> 0]
  OBVIOUS
<1>3. DOMAIN sizes = 0..(P - 1)
  OBVIOUS
<1>4. ASSUME NEW j \in 0..(P - 1)
      PROVE  g[j] = IF j = 0 THEN 0
                    ELSE g[j - 1] - sizes[j - 1] + 1 * CeilDiv(sizes[j - 1] - g[j - 1], 1)
  <2>1. CASE j = 0
    BY <1>2, <2>1
  <2>2. CASE j # 0
    <3>1. PICK k \in 0..(P - 1) : k = j - 1
      BY <2>2
    <3>2. PICK s \in Nat : s = sizes[k]
      OBVIOUS
    <3>3. CeilDiv(s - 0, 1) = s
      BY <1>1
    <3>4. g[k] = 0 /\ g[j] = 0
      BY <1>2
    <3> QED
      BY <2>2, <3>1, <3>2, <3>3, <3>4
  <2> QED
    BY <2>1, <2>2
<1>5. Offsets(g, sizes, 1, 0)
  BY <1>2, <1>3, <1>4 DEF Offsets
<1>6. PICK f : /\ Offsets(f, sizes, 1, 0)
               /\ \A j \in DOMAIN sizes :
                     LocalSplitBatchSizes(sizes, 1, 0)[j] = CeilDiv(sizes[j] - f[j], 1)
  BY <1>5, LocalSizesLoop
<1>7. f[i] = 0
  <2>1. f[i] = g[i]
    BY <1>3, <1>5, <1>6, OffsetsUnique
  <2> QED
    BY <1>2, <2>1
<1>8. PICK b \in Nat : b = sizes[i]
  OBVIOUS
<1>9. LocalSplitBatchSizes(sizes, 1, 0)[i] = CeilDiv(b - 0, 1)
  BY <1>3, <1>6, <1>7, <1>8
<1>10. IsFiniteSet({0}) /\ Cardinality({0}) = 1
  BY FS_Singleton
<1>11. FairShare(0, {0}, b, i, 1)
  <2>1. {0} \in SUBSET Nat /\ 0 \in {0} /\ 1 = Cardinality({0}) /\ i \in Nat
    BY <1>10
  <2> QED
    BY <1>10, <2>1, ShareOf
<1>12. RankBatchSizes(b, {0}, i)[0] = b
  <2>1. b \div 1 = b /\ b % 1 = 0
    BY <1>1
  <2> QED
    BY <1>11, <2>1 DEF FairShare
<1> QED
  BY <1>1, <1>8, <1>9, <1>12

\* A batch that the number of splits divides is cut into equal splits.
LEMMA EvenSplits ==
    ASSUME NEW P \in Nat \ {0}, NEW b \in Nat, b % P = 0
    PROVE  SplitBatchSizes(b, P) = [i \in 0..(P - 1) |-> b \div P]
<1>1. PICK splits \in SUBSET Nat : splits = 0..(P - 1)
  OBVIOUS
<1>2. IsFiniteSet(splits) /\ P = Cardinality(splits)
  <2>1. 0 \in 0..(P - 1)
    OBVIOUS
  <2> QED
    BY <1>1, <2>1, PositionInInterval
<1>3. ASSUME NEW i \in splits
      PROVE  RankBatchSizes(b, splits, 0)[i] = b \div P
  <2>1. FairShare(i, splits, b, 0, P)
    BY <1>2, ShareOf
  <2> QED
    BY <2>1 DEF FairShare
<1>4. SplitBatchSizes(b, P) = RankBatchSizes(b, splits, 0)
  BY <1>1 DEF SplitBatchSizes
<1>5. RankBatchSizes(b, splits, 0) \in [splits -> Nat]
  BY <1>2, ShareType
<1> QED
  BY <1>1, <1>3, <1>4, <1>5

-----------------------------------------------------------------------------
(* The greatest of finitely many numbers. *)

\* Finitely many numbers have an upper bound.
LEMMA UpperBound ==
    ASSUME NEW n \in Nat, NEW f \in [0..(n - 1) -> Nat]
    PROVE  \E b \in Nat : \A r \in 0..(n - 1) : f[r] <= b
<1>1. PICK bounded \in [0..n -> BOOLEAN] :
         \A k \in 0..n : bounded[k] <=> \E b \in Nat : \A r \in 0..(n - 1) : r < k => f[r] <= b
  <2> DEFINE B == [k \in 0..n |-> \E b \in Nat : \A r \in 0..(n - 1) : r < k => f[r] <= b]
  <2>1. B \in [0..n -> BOOLEAN]
    OBVIOUS
  <2> QED
    BY <2>1
<1>2. PICK Bad \in SUBSET (0..n) : \A k \in 0..n : k \in Bad <=> ~bounded[k]
  <2>1. {k \in 0..n : ~bounded[k]} \in SUBSET (0..n)
    OBVIOUS
  <2> QED
    BY <2>1
<1>3. Bad = {}
  <2>1. SUFFICES ASSUME Bad # {} PROVE FALSE
    OBVIOUS
  <2>2. Bad \in SUBSET Nat
    OBVIOUS
  <2>3. PICK m \in Bad : \A k \in Bad : m <= k
    BY <2>1, <2>2, LeastNat
  <2>4. bounded[0]
    <3>1. 0 \in Nat /\ 0 \in 0..n /\ \A r \in 0..(n - 1) : r < 0 => f[r] <= 0
      OBVIOUS
    <3> QED
      BY <1>1, <3>1
  <2>5. m \in 1..n
    <3>1. m \in 0..n /\ m # 0
      BY <1>2, <2>4
    <3> QED
      BY <3>1
  <2>6. PICK k \in 0..(n - 1) : m = k + 1
    BY <2>5
  <2>7. k \in 0..n /\ ~(m <= k)
    BY <2>6
  <2>8. bounded[k]
    BY <1>2, <2>3, <2>7
  <2>9. PICK b \in Nat : \A r \in 0..(n - 1) : r < k => f[r] <= b
    BY <1>1, <2>7, <2>8
  <2>10. PICK x \in Nat : x = f[k]
    OBVIOUS
  <2>11. PICK c \in Nat : b <= c /\ x <= c
    <3>1. b <= b + x /\ x <= b + x /\ b + x \in Nat
      OBVIOUS
    <3> QED
      BY <3>1
  <2>12. ASSUME NEW r \in 0..(n - 1), r < m PROVE f[r] <= c
    <3>1. PICK y \in Nat : y = f[r]
      OBVIOUS
    <3>2. CASE r = k
      BY <2>10, <2>11, <3>2
    <3>3. CASE r < k
      <4>1. y <= b
        BY <2>9, <3>1, <3>3
      <4> QED
        BY <2>11, <3>1, <4>1
    <3> QED
      BY <2>6, <2>12, <3>2, <3>3
  <2>13. bounded[m]
    BY <1>1, <2>12
  <2> QED
    BY <1>2, <2>13
<1>4. bounded[n]
  BY <1>2, <1>3
<1>5. PICK b \in Nat : \A r \in 0..(n - 1) : r < n => f[r] <= b
  BY <1>1, <1>4
<1> QED
  BY <1>5

\* The greatest of finitely many sizes is one of them.
LEMMA MaxOfSizes ==
    ASSUME NEW n \in Nat \ {0}, NEW f \in [0..(n - 1) -> Nat]
    PROVE  \E r \in 0..(n - 1) : f[r] = Max({f[q] : q \in 0..(n - 1)})
<1>1. PICK b \in Nat : \A r \in 0..(n - 1) : f[r] <= b
  BY UpperBound
<1>2. PICK U \in SUBSET Nat : \A u \in Nat : u \in U <=> \A r \in 0..(n - 1) : f[r] <= u
  <2> DEFINE V == {u \in Nat : \A r \in 0..(n - 1) : f[r] <= u}
  <2>1. V \in SUBSET Nat
    OBVIOUS
  <2> QED
    BY <2>1
<1>3. b \in U
  BY <1>1, <1>2
<1>4. PICK m \in U : \A u \in U : m <= u
  BY <1>3, LeastNat
<1>5. PICK r \in 0..(n - 1) : f[r] = m
  <2>1. SUFFICES ASSUME \A r \in 0..(n - 1) : f[r] # m PROVE FALSE
    OBVIOUS
  <2>2. \A r \in 0..(n - 1) : f[r] \in Nat /\ f[r] < m
    BY <1>2, <2>1
  <2>3. PICK k \in Nat : m = k + 1
    <3>1. 0 \in 0..(n - 1)
      OBVIOUS
    <3> QED
      BY <2>2, <3>1
  <2>4. \A r \in 0..(n - 1) : f[r] <= k
    BY <2>2, <2>3
  <2>5. k \in U
    BY <1>2, <2>4
  <2> QED
    BY <1>4, <2>3, <2>5
<1>6. PICK S : S = {f[q] : q \in 0..(n - 1)}
  OBVIOUS
<1>7. m \in S /\ \A y \in S : m >= y
  <2>1. m \in S
    BY <1>5, <1>6
  <2>2. \A q \in 0..(n - 1) : f[q] <= m /\ f[q] \in Nat
    BY <1>2
  <2> QED
    BY <1>6, <2>1, <2>2
<1>8. Max(S) \in S
  BY <1>7 DEF Max
<1> QED
  BY <1>6, <1>8

=============================================================================
