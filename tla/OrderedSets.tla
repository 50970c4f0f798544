----------------------------- MODULE OrderedSets -----------------------------
(***************************************************************************)
(* Facts about naturals and sets of them that the proofs about several     *)
(* components rest on: smallest and largest elements, the places of the    *)
(* elements in ascending order, remainders, and sums over finite sets.     *)
(* (Members sorted by sort.Strings and partitions sorted by number are     *)
(* such sets in ConsumerGroup and Delivery; remainders choose members and  *)
(* partitions; sums count the partitions of the members and the starts of  *)
(* the brokers.)                                                           *)
(***************************************************************************)
EXTENDS Integers, FiniteSets, FiniteSetTheorems, TLAPS

\* A non-empty set of naturals has a least element.
LEMMA LeastNatural ==
  ASSUME NEW T, T \subseteq Nat, T # {}
  PROVE  \E x \in T : \A y \in T : x <= y
<1> DEFINE R == {ss \in Nat \X Nat : ss[1] < ss[2]}
<1>1. IsWellFoundedOn(R, Nat)
  BY NatLessThanWellFounded DEF OpToRel
<1>2. PICK x \in T : \A y \in T : ~ (<<y, x>> \in R)
  BY <1>1, WFMin
<1>3. ASSUME NEW y \in T PROVE x <= y
  <2>1. x \in Nat /\ y \in Nat
    OBVIOUS
  <2>2. ~ (y < x)
    BY <1>2, <2>1
  <2>3. QED
    BY <2>1, <2>2
<1>4. QED
  BY <1>3

\* A non-empty bounded set of naturals has a largest element.
LEMMA LargestNatural ==
  ASSUME NEW n \in Nat, NEW T, T \subseteq 0 .. n, T # {}
  PROVE  \E x \in T : \A y \in T : y <= x
<1> DEFINE U == {k \in 0 .. n : n - k \in T}
<1>1. U \subseteq Nat /\ U # {}
  <2>1. PICK x \in T : TRUE
    OBVIOUS
  <2>2. x \in 0 .. n
    OBVIOUS
  <2>3. n - x \in 0 .. n /\ n - (n - x) = x
    BY <2>2
  <2>4. n - x \in U
    BY <2>3
  <2>5. U \subseteq Nat
    OBVIOUS
  <2>6. QED
    BY <2>4, <2>5
<1>2. PICK k \in U : \A j \in U : k <= j
  <2> HIDE DEF U
  <2>1. QED
    BY <1>1, LeastNatural
<1>3. ASSUME NEW y \in T PROVE y <= n - k
  <2>1. y \in 0 .. n /\ n - y \in 0 .. n /\ n - (n - y) = y /\ k \in 0 .. n
    OBVIOUS
  <2>2. n - y \in U
    BY <2>1
  <2>3. k <= n - y
    BY <1>2, <2>2
  <2>4. QED
    BY <2>1, <2>3
<1>4. QED
  BY <1>3

-----------------------------------------------------------------------------
\* The place of x in the ascending order of S, from 0.
Place(x, S) == Cardinality({y \in S : y < x})

\* A place is a number below the size of the set.
LEMMA PlaceInRange ==
  ASSUME NEW S \in SUBSET Nat, IsFiniteSet(S), NEW x \in S
  PROVE  Place(x, S) \in 0 .. (Cardinality(S) - 1)
<1> DEFINE below == {y \in S : y < x}
<1>1. Cardinality(S) \in Nat /\ x \in Nat
  BY FS_CardinalityType
<1>2. below \in SUBSET S /\ x \notin below
  BY <1>1
<1>3. IsFiniteSet(below) /\ Cardinality(below) <= Cardinality(S)
      /\ (Cardinality(S) = Cardinality(below) => S = below)
  BY <1>2, FS_Subset
<1>4. Cardinality(below) \in Nat
  BY <1>3, FS_CardinalityType
<1>5. Cardinality(below) # Cardinality(S)
  BY <1>2, <1>3
<1>6. QED
  BY <1>1, <1>3, <1>4, <1>5 DEF Place

\* The smaller of two elements has the smaller place.
LEMMA PlaceIncreases ==
  ASSUME NEW S \in SUBSET Nat, IsFiniteSet(S), NEW x \in S, NEW y \in S, x < y
  PROVE  Place(x, S) < Place(y, S)
<1> DEFINE low  == {z \in S : z < x}
           high == {z \in S : z < y}
<1>1. x \in Nat /\ y \in Nat /\ \A z \in S : z \in Nat
  OBVIOUS
<1>2. low \in SUBSET high /\ x \in high /\ x \notin low
  <2>1. \A z \in S : z < x => z < y
    BY <1>1
  <2>2. ~ (x < x)
    BY <1>1
  <2>3. QED
    BY <2>1, <2>2
<1>3. high \in SUBSET S
  OBVIOUS
<1> HIDE DEF low, high
<1>4. IsFiniteSet(high)
  BY <1>3, FS_Subset
<1>5. /\ IsFiniteSet(low) /\ Cardinality(low) <= Cardinality(high)
      /\ Cardinality(high) = Cardinality(low) => high = low
  BY <1>2, <1>4, FS_Subset
<1>6. Cardinality(high) \in Nat /\ Cardinality(low) \in Nat
  BY <1>4, <1>5, FS_CardinalityType
<1>7. QED
  BY <1>2, <1>5, <1>6 DEF Place, low, high

\* No two elements have one place.
LEMMA PlacesDiffer ==
  ASSUME NEW S \in SUBSET Nat, IsFiniteSet(S), NEW x \in S, NEW y \in S, x # y
  PROVE  Place(x, S) # Place(y, S)
<1>1. x \in Nat /\ y \in Nat
  OBVIOUS
<1>2. x < y \/ y < x
  BY <1>1
<1>3. Place(x, S) \in Int /\ Place(y, S) \in Int
  BY PlaceInRange
<1>4. QED
  BY <1>2, <1>3, PlaceIncreases

\* Every place is taken.
LEMMA EveryPlaceTaken ==
  ASSUME NEW S \in SUBSET Nat, IsFiniteSet(S), NEW i \in 0 .. (Cardinality(S) - 1)
  PROVE  \E x \in S : Place(x, S) = i
<1> DEFINE T == 0 .. (Cardinality(S) - 1)
           f == [x \in S |-> Place(x, S)]
<1>1. Cardinality(S) \in Nat
  BY FS_CardinalityType
<1>2. IsFiniteSet(T) /\ Cardinality(T) = Cardinality(S)
  BY <1>1, FS_Interval
<1>3. f \in [S -> T]
  BY PlaceInRange
<1>4. \A x, y \in S : f[x] = f[y] => x = y
  BY PlacesDiffer
<1>5. f \in Injection(S, T)
  <2> HIDE DEF f, T
  <2>1. QED
    BY <1>3, <1>4 DEF Injection, IsInjective
<1>6. f \in Surjection(S, T)
  <2> HIDE DEF f, T
  <2>1. QED
    BY <1>2, <1>5, FS_Injection
<1>7. PICK x \in S : f[x] = i
  <2> HIDE DEF f
  <2>1. QED
    BY <1>6 DEF Surjection
<1>8. QED
  BY <1>7

-----------------------------------------------------------------------------
\* What holds of 0, and of k + 1 whenever it holds of k < n, holds up to n.
LEMMA UpTo ==
  ASSUME NEW n \in Nat, NEW T, 0 \in T, \A k \in 0 .. (n - 1) : k \in T => k + 1 \in T
  PROVE  \A k \in 0 .. n : k \in T
<1> DEFINE others == {k \in 0 .. n : k \notin T}
<1> SUFFICES ASSUME others # {} PROVE FALSE
  OBVIOUS
<1>1. PICK x \in others : \A y \in others : x <= y
  <2>1. others \subseteq Nat
    OBVIOUS
  <2> HIDE DEF others
  <2>2. QED
    BY <2>1, LeastNatural
<1>2. x \in 0 .. n /\ x \notin T /\ x # 0
  BY <1>1
<1>3. x - 1 \in 0 .. (n - 1) /\ x - 1 \notin others /\ (x - 1) + 1 = x
  BY <1>1, <1>2
<1>4. x - 1 \in T
  BY <1>3
<1>5. QED
  BY <1>2, <1>3, <1>4

-----------------------------------------------------------------------------
(* Remainders.                                                             *)

\* Quotient and remainder of a division by n.
LEMMA DivideBy ==
  ASSUME NEW n \in Nat \ {0}, NEW a \in Nat
  PROVE  /\ a \div n \in Nat /\ a % n \in 0 .. n - 1
         /\ a = n * (a \div n) + (a % n)
<1>1. a \div n \in Int
  OBVIOUS
<1>2. a % n \in 0 .. n - 1
  OBVIOUS
<1>3. a = n * (a \div n) + (a % n)
  OBVIOUS
<1>4. a \div n >= 0
  <2>1. (a \div n) <= -1 => n * (a \div n) <= -n
    BY <1>1
  <2>2. n * (a \div n) \in Int
    BY <1>1
  <2>3. QED
    BY <1>1, <1>2, <1>3, <2>1, <2>2
<1>5. QED
  BY <1>1, <1>2, <1>3, <1>4

\* Of the multiples of n only 0 lies between -n and n.
LEMMA Multiples ==
  ASSUME NEW n \in Nat \ {0}, NEW d \in Int, NEW r, r = n * d, -n < r, r < n
  PROVE  d = 0
<1>1. d >= 1 => n * d >= n
  OBVIOUS
<1>2. d <= -1 => n * d <= -n
  OBVIOUS
<1>3. QED
  BY <1>1, <1>2

\* A quotient and a remainder are those of the number they make up.
LEMMA Residue ==
  ASSUME NEW n \in Nat \ {0}, NEW q \in Nat, NEW r \in 0 .. n - 1
  PROVE  (n * q + r) % n = r
<1> DEFINE a == n * q + r
<1>0. n * q \in Nat
  OBVIOUS
<1>1. a \in Nat
  BY <1>0
<1>2. /\ a \div n \in Nat /\ a % n \in 0 .. n - 1
      /\ a = n * (a \div n) + (a % n)
  BY <1>1, DivideBy
<1>3. n * ((a \div n) - q) = n * (a \div n) - n * q
  BY <1>2
<1>4. n * ((a \div n) - q) = r - (a % n)
  <2> HIDE DEF a
  <2>1. a = n * q + r
    BY DEF a
  <2>2. QED
    BY <1>0, <1>2, <1>3, <2>1
<1>5. (a \div n) - q = 0
  <2> HIDE DEF a
  <2>1. /\ -n < r - (a % n) /\ r - (a % n) < n /\ (a \div n) - q \in Int
        /\ r - (a % n) = n * ((a \div n) - q)
    BY <1>2, <1>4
  <2>2. QED
    BY <2>1, Multiples
<1>6. n * 0 = 0
  OBVIOUS
<1>7. QED
  BY <1>2, <1>4, <1>5, <1>6

\* A remainder may be taken before an addition.
LEMMA AddMod ==
  ASSUME NEW n \in Nat \ {0}, NEW a \in Nat, NEW b \in Nat
  PROVE  ((a % n) + b) % n = (a + b) % n
<1> DEFINE c == (a % n) + b
<1>1. /\ a \div n \in Nat /\ a % n \in 0 .. n - 1
      /\ a = n * (a \div n) + (a % n)
  BY DivideBy
<1>2. c \in Nat
  BY <1>1
<1>3. /\ c \div n \in Nat /\ c % n \in 0 .. n - 1
      /\ c = n * (c \div n) + (c % n)
  BY <1>2, DivideBy
<1>4. n * ((a \div n) + (c \div n)) = n * (a \div n) + n * (c \div n)
  BY <1>1, <1>3
<1>5. n * (a \div n) \in Nat /\ n * (c \div n) \in Nat
  BY <1>1, <1>3
<1>6. a + b = n * ((a \div n) + (c \div n)) + (c % n)
  <2> DEFINE x == n * (a \div n)
             y == n * (c \div n)
  <2>0. c = (a % n) + b
    OBVIOUS
  <2> HIDE DEF c, x, y
  <2>1. x \in Nat /\ y \in Nat /\ a = x + (a % n) /\ c = y + (c % n)
    BY <1>1, <1>3, <1>5 DEF x, y
  <2>2. a + b = x + y + (c % n)
    <3>1. a % n \in Int /\ c % n \in Int
      BY <1>1, <1>3
    <3>2. QED
      BY <2>0, <2>1, <3>1
  <2>3. QED
    BY <1>4, <2>2 DEF x, y
<1>7. QED
  <2> HIDE DEF c
  <2>1. (a \div n) + (c \div n) \in Nat
    BY <1>1, <1>3
  <2>2. (n * ((a \div n) + (c \div n)) + (c % n)) % n = (c % n)
    BY <1>3, <2>1, Residue
  <2>4. (a + b) % n = (c % n)
    BY <1>6, <2>2
  <2>3. QED
    BY <2>4 DEF c

-----------------------------------------------------------------------------
(* Folds over finite sets: the recursive functions that the folds of the   *)
(* community modules are made of.                                          *)

\* An element of each subset of D that has one.
Picks(pick, D) == \A s \in SUBSET D : s # {} => pick[s] \in s

\* A step with an element of D stays in X.
StepsIn(step, X, D) == \A x \in X, d \in D : step[<<x, d>>] \in X

\* What g makes of a subset of D, one picked element after the other.
FoldOf(g, D, base, step, pick) ==
  \A s \in SUBSET D :
    g[s] = IF s = {} THEN base ELSE step[<<g[s \ {pick[s]}], pick[s]>>]

\* The same for a sum.
SumOf(g, D, w, pick) ==
  \A s \in SUBSET D : g[s] = IF s = {} THEN 0 ELSE w[pick[s]] + g[s \ {pick[s]}]

\* A function that has one value on A and another one on the rest of D.
TwoValues(w, D, A, x, y) == \A d \in D : w[d] = IF d \in A THEN x ELSE y

\* A fold over the subsets of D that takes the elements in the order of pick has a
\* value in X for each of them.
LEMMA FoldExists ==
  ASSUME NEW D, IsFiniteSet(D), NEW X, NEW base \in X,
         NEW step, StepsIn(step, X, D), NEW pick, Picks(pick, D)
  PROVE  \E g \in [SUBSET D -> X] : FoldOf(g, D, base, step, pick)
<1> DEFINE N == Cardinality(D)
           Small(k) == {s \in SUBSET D : Cardinality(s) <= k}
           Round(g, s) == IF s = {} THEN base ELSE step[<<g[s \ {pick[s]}], pick[s]>>]
           Fold(g, k) == g \in [Small(k) -> X] /\ \A s \in Small(k) : g[s] = Round(g, s)
           done == {k \in 0 .. N : \E g : Fold(g, k)}
<1>1. /\ N \in Nat
      /\ \A s \in SUBSET D : IsFiniteSet(s) /\ Cardinality(s) \in Nat /\ Cardinality(s) <= N
  BY FS_CardinalityType, FS_Subset
<1>2. 0 \in done
  <2> DEFINE g == [s \in Small(0) |-> base]
  <2>1. \A s \in Small(0) : s = {}
    BY <1>1, FS_EmptySet
  <2>2. Fold(g, 0)
    BY <2>1
  <2>3. 0 \in 0 .. N
    BY <1>1
  <2> HIDE DEF g, Fold
  <2>4. QED
    BY <2>2, <2>3
<1>3. ASSUME NEW k \in 0 .. (N - 1), k \in done PROVE k + 1 \in done
  <2>1. PICK g : Fold(g, k)
    BY <1>3
  <2>2. k \in Nat /\ k + 1 \in Nat /\ k + 1 \in 0 .. N
    BY <1>1
  <2> DEFINE next(s) == step[<<g[s \ {pick[s]}], pick[s]>>]
             h == [s \in Small(k + 1) |-> IF s \in Small(k) THEN g[s] ELSE next(s)]
  <2>3. ASSUME NEW s \in Small(k + 1), s # {}
        PROVE  s \ {pick[s]} \in Small(k) /\ pick[s] \in D
    <3>0. s \in SUBSET D
      OBVIOUS
    <3>1. pick[s] \in s /\ s \in SUBSET D
      BY <2>3, <3>0 DEF Picks
    <3>2. Cardinality(s \ {pick[s]}) = Cardinality(s) - 1
      BY <1>1, <3>1, FS_RemoveElement
    <3>3. Cardinality(s) \in Nat /\ Cardinality(s) <= k + 1
      BY <1>1
    <3>4. Cardinality(s \ {pick[s]}) <= k
      BY <2>2, <3>2, <3>3
    <3>5. QED
      BY <3>1, <3>4
  <2>4. {} \in Small(k)
    BY <2>2, FS_EmptySet
  <2>5. \A s \in Small(k) : s \in Small(k + 1)
    BY <1>1, <2>2
  <2> HIDE DEF N, Small
  <2>6. \A s \in Small(k) : g[s] \in X /\ g[s] = Round(g, s)
    BY <2>1
  <2>7. ASSUME NEW s \in Small(k + 1) PROVE h[s] \in X /\ h[s] = Round(h, s)
    <3>1. CASE s = {}
      BY <2>4, <2>6, <3>1
    <3>2. CASE s # {}
      <4> DEFINE t == s \ {pick[s]}
      <4>1. t \in Small(k) /\ t \in Small(k + 1) /\ pick[s] \in D /\ g[t] \in X
        BY <2>3, <2>5, <2>6, <3>2
      <4>2. h[t] = g[t]
        BY <4>1
      <4>3. CASE s \in Small(k)
        BY <2>6, <3>2, <4>2, <4>3
      <4>4. CASE s \notin Small(k)
        <5>1. next(s) \in X
          BY <4>1 DEF StepsIn
        <5>2. h[s] = next(s)
          BY <4>4
        <5>3. QED
          BY <3>2, <4>2, <5>1, <5>2
      <4>5. QED
        BY <4>3, <4>4
    <3>3. QED
      BY <3>1, <3>2
  <2>8. h \in [Small(k + 1) -> X]
    BY <2>7
  <2>9. Fold(h, k + 1)
    BY <2>7, <2>8
  <2> HIDE DEF h, Fold
  <2>10. QED
    BY <2>2, <2>9
<1>4. N \in done
  <2>1. N \in 0 .. N
    BY <1>1
  <2> HIDE DEF done, N
  <2>2. QED
    BY <1>1, <1>2, <1>3, <2>1, UpTo
<1>5. Small(N) = SUBSET D
  BY <1>1
<1>6. PICK g : Fold(g, N)
  BY <1>4
<1>7. g \in [SUBSET D -> X] /\ \A s \in SUBSET D : g[s] = Round(g, s)
  BY <1>5, <1>6
<1> HIDE DEF N, Small, Fold, done
<1>8. QED
  BY <1>7 DEF FoldOf

\* There are sums over the subsets of D.
LEMMA SumExists ==
  ASSUME NEW D, IsFiniteSet(D), NEW w, \A d \in D : w[d] \in Int,
         NEW pick, Picks(pick, D)
  PROVE  \E g \in [SUBSET D -> Int] : SumOf(g, D, w, pick)
<1> DEFINE step == [z \in Int \X D |-> w[z[2]] + z[1]]
<1>1. /\ \A z \in Int, d \in D : step[<<z, d>>] = w[d] + z
      /\ StepsIn(step, Int, D)
  BY DEF StepsIn
<1>2. PICK g \in [SUBSET D -> Int] : FoldOf(g, D, 0, step, pick)
  <2> HIDE DEF step
  <2>1. 0 \in Int
    OBVIOUS
  <2>2. QED
    BY <1>1, <2>1, FoldExists
<1>3. ASSUME NEW s \in SUBSET D, s # {} PROVE g[s] = w[pick[s]] + g[s \ {pick[s]}]
  <2>1. pick[s] \in D /\ s \ {pick[s]} \in SUBSET D
    BY <1>3 DEF Picks
  <2>2. g[s \ {pick[s]}] \in Int
    BY <1>2, <2>1
  <2>3. g[s] = step[<<g[s \ {pick[s]}], pick[s]>>]
    BY <1>2, <1>3 DEF FoldOf
  <2> HIDE DEF step
  <2>4. QED
    BY <1>1, <2>1, <2>2, <2>3
<1>4. \A s \in SUBSET D : s = {} => g[s] = 0
  BY <1>2 DEF FoldOf
<1>5. QED
  BY <1>2, <1>3, <1>4 DEF SumOf

\* The sum of w over D, where w has one value on A and another one on the rest.
LEMMA TwoValuedSum ==
  ASSUME NEW D, IsFiniteSet(D), NEW A, A \subseteq D, NEW x \in Int, NEW y \in Int,
         NEW w, TwoValues(w, D, A, x, y), NEW pick, Picks(pick, D),
         NEW g, SumOf(g, D, w, pick)
  PROVE  g[D] = x * Cardinality(A) + y * (Cardinality(D) - Cardinality(A))
<1> DEFINE N == Cardinality(D)
           inA(s) == Cardinality(s \cap A)
           Total(s) == x * inA(s) + y * (Cardinality(s) - inA(s))
           T == {k \in 0 .. N : \A s \in SUBSET D : Cardinality(s) = k => g[s] = Total(s)}
<1>1. /\ N \in Nat
      /\ \A s \in SUBSET D : /\ IsFiniteSet(s) /\ Cardinality(s) \in 0 .. N
                             /\ IsFiniteSet(s \cap A) /\ inA(s) \in Nat
  <2>1. N \in Nat
    BY FS_CardinalityType
  <2>2. ASSUME NEW s \in SUBSET D
        PROVE  /\ IsFiniteSet(s) /\ Cardinality(s) \in 0 .. N
               /\ IsFiniteSet(s \cap A) /\ inA(s) \in Nat
    <3>1. IsFiniteSet(s) /\ Cardinality(s) \in Nat /\ Cardinality(s) <= N
      BY FS_CardinalityType, FS_Subset
    <3>2. IsFiniteSet(s \cap A)
      BY <3>1, FS_Subset
    <3>3. inA(s) \in Nat
      BY <3>2, FS_CardinalityType
    <3>4. QED
      BY <2>1, <3>1, <3>2, <3>3
  <2>3. QED
    BY <2>1, <2>2
<1>2. 0 \in T
  <2>1. ASSUME NEW s \in SUBSET D, Cardinality(s) = 0 PROVE g[s] = Total(s)
    <3>1. s = {}
      BY <1>1, <2>1, FS_EmptySet
    <3>2. g[s] = 0
      BY <3>1 DEF SumOf
    <3>3. inA(s) = 0
      BY <3>1, FS_EmptySet
    <3>4. Total(s) = x * 0 + y * (0 - 0)
      BY <2>1, <3>3
    <3>5. QED
      BY <3>2, <3>4
  <2>2. 0 \in 0 .. N
    BY <1>1
  <2> HIDE DEF Total
  <2>3. QED
    BY <2>1, <2>2
<1>3. ASSUME NEW k \in 0 .. (N - 1), k \in T PROVE k + 1 \in T
  <2>1. k \in Nat /\ k + 1 \in 0 .. N /\ k + 1 # 0 /\ (k + 1) - 1 = k
    BY <1>1
  <2>2. ASSUME NEW s \in SUBSET D, Cardinality(s) = k + 1 PROVE g[s] = Total(s)
    <3> DEFINE d == pick[s]
               t == s \ {d}
    <3>1. s # {} /\ IsFiniteSet(s)
      BY <1>1, <2>1, <2>2, FS_EmptySet
    <3>2. d \in s /\ d \in D /\ t \in SUBSET D
      BY <3>1 DEF Picks
    <3>3. Cardinality(t) = k
      <4>1. Cardinality(t) = Cardinality(s) - 1
        BY <3>1, <3>2, FS_RemoveElement
      <4>2. QED
        BY <2>1, <2>2, <4>1
    <3>4. g[s] = w[d] + g[t]
      BY <3>1 DEF SumOf
    <3>5. g[t] = x * inA(t) + y * (k - inA(t))
      BY <1>3, <3>2, <3>3
    <3>6. inA(t) \in Nat /\ inA(s) \in Nat
      BY <1>1, <3>2
    <3>7. CASE d \in A
      <4>1. t \cap A = (s \cap A) \ {d} /\ d \in s \cap A /\ IsFiniteSet(s \cap A)
        BY <1>1, <3>2, <3>7
      <4>2. inA(t) = inA(s) - 1
        <5>1. Cardinality((s \cap A) \ {d}) = Cardinality(s \cap A) - 1
          BY <4>1, FS_RemoveElement
        <5>2. QED
          BY <4>1, <5>1
      <4>3. w[d] = x
        BY <3>2, <3>7 DEF TwoValues
      <4> HIDE DEF d, t, inA
      <4>4. g[s] = x + (x * inA(t) + y * (k - inA(t)))
        BY <3>4, <3>5, <4>3
      <4>5. inA(s) = inA(t) + 1
        BY <3>6, <4>2
      <4>6. Total(s) = x * (inA(t) + 1) + y * ((k + 1) - (inA(t) + 1))
        BY <2>2, <4>5
      <4>7. (k + 1) - (inA(t) + 1) = k - inA(t) /\ x * (inA(t) + 1) = x * inA(t) + x
        <5>1. inA(t) \in Int /\ k \in Int
          BY <2>1, <3>6
        <5>2. x * (inA(t) + 1) = x * inA(t) + x
          BY <5>1
        <5>3. (k + 1) - (inA(t) + 1) = k - inA(t)
          BY <5>1
        <5>4. QED
          BY <5>2, <5>3
      <4>8. x * inA(t) \in Int /\ y * (k - inA(t)) \in Int
        BY <2>1, <3>6
      <4> HIDE DEF Total
      <4>9. QED
        BY <4>4, <4>6, <4>7, <4>8
    <3>8. CASE d \notin A
      <4>1. t \cap A = s \cap A
        BY <3>8
      <4>2. inA(t) = inA(s)
        BY <4>1
      <4>3. w[d] = y
        BY <3>2, <3>8 DEF TwoValues
      <4> HIDE DEF d, t, inA
      <4>4. g[s] = y + (x * inA(t) + y * (k - inA(t)))
        BY <3>4, <3>5, <4>3
      <4>5. Total(s) = x * inA(t) + y * ((k + 1) - inA(t))
        BY <2>2, <4>2
      <4>6. (k + 1) - inA(t) = (k - inA(t)) + 1
        BY <2>1, <3>6
      <4>7. y * ((k - inA(t)) + 1) = y * (k - inA(t)) + y
        BY <2>1, <3>6
      <4>8. x * inA(t) \in Int /\ y * (k - inA(t)) \in Int
        BY <2>1, <3>6
      <4> HIDE DEF Total
      <4>9. QED
        BY <4>4, <4>5, <4>6, <4>7, <4>8
    <3>9. QED
      BY <3>7, <3>8
  <2> HIDE DEF Total
  <2>3. QED
    BY <2>1, <2>2
<1>4. N \in T
  <2>1. N \in 0 .. N
    BY <1>1
  <2> HIDE DEF T, N
  <2>2. QED
    BY <1>1, <1>2, <1>3, <2>1, UpTo
<1>5. g[D] = Total(D) /\ D \cap A = A
  BY <1>4
<1>6. QED
  BY <1>5

\* A sum of naturals is at least each of them (by induction on the set's cardinality).
LEMMA PartOfSum ==
  ASSUME NEW D, IsFiniteSet(D), NEW w \in [D -> Nat], NEW pick, Picks(pick, D),
         NEW g, SumOf(g, D, w, pick), NEW d \in D
  PROVE  g[D] \in Int /\ w[d] <= g[D]
<1> DEFINE N == Cardinality(D)
           Fine(s) == g[s] \in Int /\ 0 <= g[s] /\ \A x \in s : w[x] <= g[s]
           T == {k \in 0 .. N : \A s \in SUBSET D : Cardinality(s) = k => Fine(s)}
<1>1. /\ N \in Nat
      /\ \A s \in SUBSET D : IsFiniteSet(s) /\ Cardinality(s) \in Nat /\ Cardinality(s) <= N
  BY FS_CardinalityType, FS_Subset
<1>2. 0 \in T
  <2>1. ASSUME NEW s \in SUBSET D, Cardinality(s) = 0 PROVE Fine(s)
    <3>1. s = {}
      BY <1>1, <2>1, FS_EmptySet
    <3>2. g[s] = 0
      BY <3>1 DEF SumOf
    <3>3. QED
      BY <3>1, <3>2
  <2> HIDE DEF Fine
  <2>2. QED
    BY <1>1, <2>1
<1>3. ASSUME NEW k \in 0 .. (N - 1), k \in T PROVE k + 1 \in T
  <2>1. k \in Nat /\ k + 1 \in 0 .. N
    BY <1>1
  <2>2. ASSUME NEW s \in SUBSET D, Cardinality(s) = k + 1 PROVE Fine(s)
    <3> DEFINE e == pick[s]
               r == s \ {e}
    <3>0. s # {}
      <4>1. Cardinality({}) = 0 /\ k + 1 # 0
        BY <2>1, FS_EmptySet
      <4>2. QED
        BY <2>2, <4>1
    <3>1. e \in s /\ e \in D /\ r \in SUBSET D
      BY <3>0 DEF Picks
    <3>2. Cardinality(r) = Cardinality(s) - 1
      BY <1>1, <3>1, FS_RemoveElement
    <3>3. Fine(r)
      <4>1. Cardinality(r) = k
        BY <2>1, <2>2, <3>2
      <4> HIDE DEF r, Fine
      <4>2. QED
        BY <1>3, <3>1, <4>1
    <3>4. g[s] = w[e] + g[r]
      BY <3>0 DEF SumOf
    <3>5. w[e] \in Nat /\ g[r] \in Int
      BY <3>1, <3>3
    <3>6. \A x \in s : x = e \/ (x \in r /\ w[x] \in Nat)
      OBVIOUS
    <3> HIDE DEF e, r
    <3>7. g[s] \in Int /\ 0 <= g[s] /\ w[e] <= g[s] /\ g[r] <= g[s]
      BY <3>3, <3>4, <3>5
    <3>8. ASSUME NEW x \in r, w[x] \in Nat PROVE w[x] <= g[s]
      <4>1. w[x] <= g[r] /\ g[s] \in Int
        BY <3>3, <3>4, <3>5
      <4>2. QED
        BY <3>5, <3>7, <3>8, <4>1
    <3>9. QED
      BY <3>6, <3>7, <3>8
  <2> HIDE DEF Fine
  <2>3. QED
    BY <2>1, <2>2
<1>4. N \in T
  <2>1. N \in 0 .. N
    BY <1>1
  <2> HIDE DEF T, N
  <2>2. QED
    BY <1>1, <1>2, <1>3, <2>1, UpTo
<1>5. Fine(D)
  <2> HIDE DEF Fine
  <2>1. QED
    BY <1>4
<1>6. QED
  BY <1>5
=============================================================================
