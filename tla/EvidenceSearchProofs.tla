------------------------ MODULE EvidenceSearchProofs ------------------------
(***************************************************************************)
(* The search of EvidenceSearch, for every corpus, KB, request and order   *)
(* in which files are rewritten meanwhile: its evidence is of one KB, its  *)
(* ranks keep every order the channels agree on, no audit refuses what was *)
(* derived, and a pack hides no guess.                                     *)
(*                                                                         *)
(* InOrder counts who is ahead; that every place from one to the number of *)
(* members is taken is a count too, of an injection into a set of the same *)
(* size, so that no induction is needed to say what a rank is.  SearchInv  *)
(* says what the search has at hand at each stage; ReconcileInv rides on   *)
(* it and says that no audit can find fault with that.                     *)
(***************************************************************************)
EXTENDS EvidenceSearch, FiniteSetTheorems, SequenceTheorems, TLAPS

\* Who of S is ahead of x in the order R, and how many they are.
Earlier(S, R, x) == {y \in S : <<y, x>> \in R}
Place(S, R, x) == Cardinality(Earlier(S, R, x))
Orders(S, R) ==
  /\ \A x \in S : <<x, x>> \notin R
  /\ \A x, y \in S : x # y => <<x, y>> \in R \/ <<y, x>> \in R
  /\ \A x, y, z \in S : <<x, y>> \in R /\ <<y, z>> \in R => <<x, z>> \in R

LEMMA PlacesRise ==
  ASSUME NEW S, IsFiniteSet(S), NEW R, Orders(S, R)
  PROVE  /\ \A x \in S : Place(S, R, x) \in 0 .. Cardinality(S) - 1
         /\ \A x, y \in S : <<y, x>> \in R <=> Place(S, R, y) < Place(S, R, x)
         /\ \A x, y \in S : Place(S, R, x) = Place(S, R, y) => x = y
<1>0. Cardinality(S) \in Nat
  BY FS_CardinalityType
<1>1. ASSUME NEW x \in S
      PROVE  /\ IsFiniteSet(Earlier(S, R, x)) /\ Place(S, R, x) \in Nat
             /\ Place(S, R, x) <= Cardinality(S) - 1
  <2>1. Earlier(S, R, x) \in SUBSET (S \ {x})
    BY DEF Earlier, Orders
  <2>2. IsFiniteSet(S \ {x}) /\ Cardinality(S \ {x}) = Cardinality(S) - 1
    BY FS_RemoveElement
  <2>3. IsFiniteSet(Earlier(S, R, x)) /\ Cardinality(Earlier(S, R, x)) <= Cardinality(S \ {x})
    BY <2>1, <2>2, FS_Subset
  <2>4. Cardinality(Earlier(S, R, x)) \in Nat
    BY <2>3, FS_CardinalityType
  <2> QED
    BY <2>2, <2>3, <2>4 DEF Place
<1>2. ASSUME NEW x \in S, NEW y \in S, <<y, x>> \in R
      PROVE  Place(S, R, y) < Place(S, R, x)
  <2>1. Earlier(S, R, y) \in SUBSET Earlier(S, R, x)
    BY <1>2 DEF Earlier, Orders
  <2>2. y \in Earlier(S, R, x) /\ y \notin Earlier(S, R, y)
    BY <1>2 DEF Earlier, Orders
  <2>3. Cardinality(Earlier(S, R, y)) <= Cardinality(Earlier(S, R, x))
    BY <1>1, <2>1, FS_Subset
  <2>4. Cardinality(Earlier(S, R, y)) # Cardinality(Earlier(S, R, x))
    BY <1>1, <2>1, <2>2, FS_Subset
  <2> QED
    BY <1>1, <2>3, <2>4 DEF Place
<1>3. ASSUME NEW x \in S, NEW y \in S, Place(S, R, y) < Place(S, R, x)
      PROVE  <<y, x>> \in R
  <2>1. x # y
    BY <1>1, <1>3
  <2>2. CASE <<x, y>> \in R
    BY <1>1, <1>2, <1>3, <2>2
  <2> QED
    BY <2>1, <2>2 DEF Orders
<1>4. ASSUME NEW x \in S, NEW y \in S, Place(S, R, x) = Place(S, R, y) PROVE x = y
  <2> SUFFICES ASSUME x # y PROVE FALSE
    OBVIOUS
  <2>1. <<x, y>> \in R \/ <<y, x>> \in R
    BY DEF Orders
  <2>2. Place(S, R, x) < Place(S, R, y) \/ Place(S, R, y) < Place(S, R, x)
    BY <1>2, <2>1
  <2> QED
    BY <1>1, <1>4, <2>2
<1> QED
  BY <1>0, <1>1, <1>2, <1>3, <1>4

LEMMA PlacesFilled ==
  ASSUME NEW S, IsFiniteSet(S), NEW R, Orders(S, R), NEW k \in 1 .. Cardinality(S)
  PROVE  \E x \in S : Place(S, R, x) = k - 1
<1> DEFINE T == 0 .. Cardinality(S) - 1
           f == [x \in S |-> Place(S, R, x)]
<1>0. Cardinality(S) \in Nat
  BY FS_CardinalityType
<1>1. f \in Injection(S, T)
  BY PlacesRise DEF Injection, IsInjective
<1>2. IsFiniteSet(T) /\ Cardinality(T) = Cardinality(S)
  <2> DEFINE n == Cardinality(S) - 1
  <2>1. n \in Int /\ n >= -1
    BY <1>0
  <2> HIDE DEF n
  <2>2. IsFiniteSet(0 .. n) /\ Cardinality(0 .. n) = IF 0 > n THEN 0 ELSE n - 0 + 1
    BY <2>1, FS_Interval
  <2>3. Cardinality(0 .. n) = n + 1
    BY <2>1, <2>2
  <2> QED
    BY <1>0, <2>2, <2>3 DEF n
<1>3. f \in Surjection(S, T)
  BY <1>1, <1>2, FS_Injection
<1>4. k - 1 \in T
  BY <1>0
<1> QED
  BY <1>3, <1>4 DEF Surjection

\* f lists S in the order R: every member at its place.
OrderedAs(f, S, R) ==
  /\ f \in Seq(S) /\ Len(f) = Cardinality(S) /\ DOMAIN f = 1 .. Cardinality(S)
  /\ \A x \in S : \A k \in 1 .. Cardinality(S) : f[k] = x <=> Place(S, R, x) = k - 1

LEMMA OrderFilled ==
  ASSUME NEW S, IsFiniteSet(S), NEW R, Orders(S, R), NEW f,
         f = [k \in 1 .. Cardinality(S) |-> f[k]],
         \A k \in 1 .. Cardinality(S) :
           (\E x \in S : Place(S, R, x) = k - 1) => f[k] \in S /\ Place(S, R, f[k]) = k - 1
  PROVE  OrderedAs(f, S, R)
<1>0. Cardinality(S) \in Nat
  BY FS_CardinalityType
<1>1. \A k \in 1 .. Cardinality(S) : f[k] \in S /\ Place(S, R, f[k]) = k - 1
  BY PlacesFilled
<1>2. f \in [1 .. Cardinality(S) -> S]
  BY <1>1
<1>3. f \in Seq(S) /\ Len(f) = Cardinality(S) /\ DOMAIN f = 1 .. Cardinality(S)
  BY <1>0, <1>2
<1>4. \A x \in S : \A k \in 1 .. Cardinality(S) : f[k] = x <=> Place(S, R, x) = k - 1
  BY <1>1, PlacesRise
<1> QED
  BY <1>3, <1>4 DEF OrderedAs

\* What follows from it: each member once, and the order of the places is R.
Enumerates(f, S, R) ==
  /\ \A k \in DOMAIN f : k \in Nat \ {0} /\ f[k] \in S
  /\ \A x \in S : \E k \in DOMAIN f : f[k] = x
  /\ \A j, k \in DOMAIN f : f[j] = f[k] => j = k
  /\ \A j, k \in DOMAIN f : j < k <=> <<f[j], f[k]>> \in R

LEMMA OrderedEnumerates ==
  ASSUME NEW S, IsFiniteSet(S), NEW R, Orders(S, R), NEW f, OrderedAs(f, S, R)
  PROVE  Enumerates(f, S, R)
<1>0. Cardinality(S) \in Nat
  BY FS_CardinalityType
<1>1. DOMAIN f = 1 .. Cardinality(S) /\ \A k \in DOMAIN f : f[k] \in S
  BY <1>0 DEF OrderedAs
<1>2. \A k \in DOMAIN f : Place(S, R, f[k]) = k - 1
  BY <1>1 DEF OrderedAs
<1>3. ASSUME NEW x \in S PROVE \E k \in DOMAIN f : f[k] = x
  <2>1. Place(S, R, x) \in 0 .. Cardinality(S) - 1
    BY PlacesRise
  <2>2. Place(S, R, x) + 1 \in 1 .. Cardinality(S) /\ Place(S, R, x) = (Place(S, R, x) + 1) - 1
    BY <1>0, <2>1
  <2>3. f[Place(S, R, x) + 1] = x
    BY <2>2 DEF OrderedAs
  <2> QED
    BY <1>1, <2>2, <2>3
<1>4. ASSUME NEW j \in DOMAIN f, NEW k \in DOMAIN f
      PROVE  /\ f[j] = f[k] => j = k
             /\ j < k <=> <<f[j], f[k]>> \in R
  <2>1. j \in Int /\ k \in Int /\ Place(S, R, f[j]) = j - 1 /\ Place(S, R, f[k]) = k - 1
    BY <1>0, <1>1, <1>2
  <2>2. <<f[j], f[k]>> \in R <=> Place(S, R, f[j]) < Place(S, R, f[k])
    BY <1>1, PlacesRise
  <2>3. <<f[j], f[k]>> \in R <=> j - 1 < k - 1
    BY <2>1, <2>2
  <2>4. f[j] = f[k] => j - 1 = k - 1
    BY <2>1
  <2> QED
    BY <2>1, <2>3, <2>4
<1>5. \A k \in DOMAIN f : k \in Nat \ {0} /\ f[k] \in S
  BY <1>0, <1>1
<1> QED
  BY <1>3, <1>4, <1>5 DEF Enumerates

IntOrder(S) == {p \in S \X S : p[1] < p[2]}
RowOrder(S) == {p \in S \X S : Before(p[1], p[2])}

LEMMA InOrderOfPlaces ==
  ASSUME NEW S, IsFiniteSet(S), S \subseteq Int
  PROVE  Orders(S, IntOrder(S)) /\ OrderedAs(InOrder(S, <), S, IntOrder(S))
<1> DEFINE R == IntOrder(S)
           E(k) == CHOOSE x \in S : Cardinality({y \in S : y < x}) = k - 1
           f == [k \in 1 .. Cardinality(S) |-> E(k)]
<1>0. InOrder(S, <) = f
  BY DEF InOrder
<1>1. Orders(S, R)
  BY DEF Orders, IntOrder
<1>2. \A x \in S : Earlier(S, R, x) = {y \in S : y < x}
  BY DEF Earlier, IntOrder
<1>3. f = [k \in 1 .. Cardinality(S) |-> f[k]] /\ \A k \in 1 .. Cardinality(S) : f[k] = E(k)
  <2> HIDE DEF E
  <2> QED
    OBVIOUS
<1> HIDE DEF f
<1>4. ASSUME NEW k \in 1 .. Cardinality(S), NEW x \in S, Place(S, R, x) = k - 1
      PROVE  f[k] \in S /\ Place(S, R, f[k]) = k - 1
  <2>1. f[k] = CHOOSE y \in S : Cardinality({z \in S : z < y}) = k - 1
    BY <1>3
  <2>2. Cardinality({z \in S : z < x}) = k - 1
    BY <1>2, <1>4 DEF Place
  <2>3. f[k] \in S /\ Cardinality({z \in S : z < f[k]}) = k - 1
    BY <2>1, <2>2
  <2> QED
    BY <1>2, <2>3 DEF Place
<1> HIDE DEF R, E
<1>5. \A k \in 1 .. Cardinality(S) :
        (\E x \in S : Place(S, R, x) = k - 1) => f[k] \in S /\ Place(S, R, f[k]) = k - 1
  BY <1>4
<1>6. f = [k \in 1 .. Cardinality(S) |-> f[k]]
  BY <1>3
<1>7. OrderedAs(f, S, R)
  BY <1>1, <1>5, <1>6, OrderFilled
<1> QED
  BY <1>0, <1>1, <1>7 DEF R

LEMMA InOrderOfRows ==
  ASSUME NEW S, IsFiniteSet(S), S \subseteq Nat \X Nat
  PROVE  Orders(S, RowOrder(S)) /\ OrderedAs(InOrder(S, Before), S, RowOrder(S))
<1> DEFINE R == RowOrder(S)
           E(k) == CHOOSE x \in S : Cardinality({y \in S : Before(y, x)}) = k - 1
           f == [k \in 1 .. Cardinality(S) |-> E(k)]
<1>0. InOrder(S, Before) = f
  BY DEF InOrder
<1>1. Orders(S, R)
  <2>1. \A r \in S : ~ Before(r, r)
    BY DEF Before
  <2>2. \A r, s \in S : r # s => Before(r, s) \/ Before(s, r)
    BY DEF Before
  <2>3. \A r, s, t \in S : Before(r, s) /\ Before(s, t) => Before(r, t)
    BY DEF Before
  <2> QED
    BY <2>1, <2>2, <2>3 DEF Orders, RowOrder
<1>2. \A x \in S : Earlier(S, R, x) = {y \in S : Before(y, x)}
  BY DEF Earlier, RowOrder
<1>3. f = [k \in 1 .. Cardinality(S) |-> f[k]] /\ \A k \in 1 .. Cardinality(S) : f[k] = E(k)
  <2> HIDE DEF E
  <2> QED
    OBVIOUS
<1> HIDE DEF f
<1>4. ASSUME NEW k \in 1 .. Cardinality(S), NEW x \in S, Place(S, R, x) = k - 1
      PROVE  f[k] \in S /\ Place(S, R, f[k]) = k - 1
  <2>1. f[k] = CHOOSE y \in S : Cardinality({z \in S : Before(z, y)}) = k - 1
    BY <1>3
  <2>2. Cardinality({z \in S : Before(z, x)}) = k - 1
    BY <1>2, <1>4 DEF Place
  <2>3. f[k] \in S /\ Cardinality({z \in S : Before(z, f[k])}) = k - 1
    BY <2>1, <2>2
  <2> QED
    BY <1>2, <2>3 DEF Place
<1> HIDE DEF R, E
<1>5. \A k \in 1 .. Cardinality(S) :
        (\E x \in S : Place(S, R, x) = k - 1) => f[k] \in S /\ Place(S, R, f[k]) = k - 1
  BY <1>4
<1>6. f = [k \in 1 .. Cardinality(S) |-> f[k]]
  BY <1>3
<1>7. OrderedAs(f, S, R)
  BY <1>1, <1>5, <1>6, OrderFilled
<1> QED
  BY <1>0, <1>1, <1>7 DEF R

\* The same, said of each member.
LEMMA PlacesListed ==
  ASSUME NEW S, IsFiniteSet(S), S \subseteq Int
  PROVE  /\ InOrder(S, <) \in Seq(S) /\ Len(InOrder(S, <)) = Cardinality(S)
         /\ Cardinality(S) \in Nat /\ DOMAIN InOrder(S, <) = 1 .. Cardinality(S)
         /\ Enumerates(InOrder(S, <), S, IntOrder(S))
BY InOrderOfPlaces, OrderedEnumerates, FS_CardinalityType DEF OrderedAs

LEMMA RowsListed ==
  ASSUME NEW S, IsFiniteSet(S), S \subseteq Nat \X Nat
  PROVE  /\ Cardinality(S) \in Nat /\ DOMAIN InOrder(S, Before) = 1 .. Cardinality(S)
         /\ Enumerates(InOrder(S, Before), S, RowOrder(S))
BY InOrderOfRows, OrderedEnumerates, FS_CardinalityType DEF OrderedAs

LEMMA GreatestOfFinite ==
  ASSUME NEW S, IsFiniteSet(S), S \subseteq Int, S # {}
  PROVE  Max(S) \in S /\ \A y \in S : Max(S) >= y
<1> DEFINE R == {p \in S \X S : p[1] > p[2]}
<1>1. Orders(S, R)
  BY DEF Orders
<1>2. Cardinality(S) \in Nat /\ Cardinality(S) # 0
  BY FS_CardinalityType, FS_EmptySet
<1>3. 1 \in 1 .. Cardinality(S)
  BY <1>2
<1>4. PICK x \in S : Place(S, R, x) = 1 - 1
  BY <1>1, <1>3, PlacesFilled
<1>5. Earlier(S, R, x) = {}
  <2>1. Earlier(S, R, x) \subseteq S
    BY DEF Earlier
  <2>2. IsFiniteSet(Earlier(S, R, x)) /\ Cardinality(Earlier(S, R, x)) = 0
    BY <1>4, <2>1, FS_Subset DEF Place
  <2> QED
    BY <2>2, FS_EmptySet
<1>6. \A y \in S : x >= y
  <2>1. \A y \in S : <<y, x>> \in R <=> y > x
    OBVIOUS
  <2> HIDE DEF R
  <2>2. \A y \in S : <<y, x>> \notin R
    BY <1>5 DEF Earlier
  <2>3. \A y \in S : ~ (y > x)
    BY <2>1, <2>2
  <2> QED
    BY <2>3
<1> QED
  BY <1>6 DEF Max

LEMMA ImageCounted ==
  ASSUME NEW S, IsFiniteSet(S), NEW f, \A x, y \in S : f[x] = f[y] => x = y
  PROVE  IsFiniteSet({f[x] : x \in S}) /\ Cardinality({f[x] : x \in S}) = Cardinality(S)
<1> DEFINE T == {f[x] : x \in S}
           g == [x \in S |-> f[x]]
<1>1. g \in Surjection(S, T)
  BY DEF Surjection
<1>2. g \in Injection(S, T)
  BY DEF Injection, IsInjective
<1> QED
  BY <1>1, <1>2, FS_Surjection

\* Rows in the order of their scores, and of their places where scores tie.
ScoreOrder(score) ==
  {p \in (DOMAIN score) \X (DOMAIN score) :
     score[p[1]] > score[p[2]] \/ (score[p[1]] = score[p[2]] /\ Before(p[1], p[2]))}

Scored(score) ==
  /\ IsFiniteSet(DOMAIN score) /\ DOMAIN score \subseteq Nat \X Nat
  /\ \A r \in DOMAIN score : score[r] \in Int

LEMMA ScoresOrder ==
  ASSUME NEW score, Scored(score) PROVE Orders(DOMAIN score, ScoreOrder(score))
<1> DEFINE S == DOMAIN score
           A(r, s) == score[r] > score[s] \/ (score[r] = score[s] /\ Before(r, s))
<1>1. \A r, s \in S : <<r, s>> \in ScoreOrder(score) <=> A(r, s)
  BY DEF ScoreOrder
<1>2. \A r \in S : ~ Before(r, r)
  BY DEF Before, Scored
<1>3. \A r, s \in S : r # s => Before(r, s) \/ Before(s, r)
  BY DEF Before, Scored
<1>4. \A r, s, t \in S : Before(r, s) /\ Before(s, t) => Before(r, t)
  BY DEF Before, Scored
<1>5. \A r \in S : score[r] \in Int
  BY DEF Scored
<1>6. \A r \in S : ~ A(r, r)
  BY <1>2, <1>5
<1>7. \A r, s \in S : r # s => A(r, s) \/ A(s, r)
  BY <1>3, <1>5
<1>8. \A r, s, t \in S : A(r, s) /\ A(s, t) => A(r, t)
  BY <1>4, <1>5
<1> QED
  BY <1>1, <1>6, <1>7, <1>8 DEF Orders

LEMMA MinOfTwo ==
  ASSUME NEW a \in Nat, NEW b \in Nat
  PROVE  Min({a, b}) \in Nat /\ Min({a, b}) <= a /\ Min({a, b}) <= b /\ Min({a, b}) \in {a, b}
BY DEF Min

\* A row is ranked exactly when its place is within the depth, and there.
RanksPlaces(score, depth) ==
  /\ Ranked(score, depth) \in Seq(DOMAIN score)
  /\ \A k \in DOMAIN Ranked(score, depth) : k \in Nat \ {0} /\ k <= depth
  /\ \A x \in DOMAIN score : \A k \in Nat \ {0} :
       (k \in DOMAIN Ranked(score, depth) /\ Ranked(score, depth)[k] = x)
       <=> (k <= depth /\ Place(DOMAIN score, ScoreOrder(score), x) = k - 1)

LEMMA RankedByPlace ==
  ASSUME NEW score, Scored(score), NEW depth \in Nat PROVE RanksPlaces(score, depth)
<1> DEFINE S == DOMAIN score
           R == ScoreOrder(score)
           A(r, s) == score[r] > score[s] \/ (score[r] = score[s] /\ Before(r, s))
           E(k) == CHOOSE x \in S : Cardinality({y \in S : A(y, x)}) = k - 1
           f == [k \in 1 .. Cardinality(S) |-> E(k)]
           n == Min({depth, Len(f)})
<1>0. IsFiniteSet(S) /\ Orders(S, R) /\ Cardinality(S) \in Nat
  BY ScoresOrder, FS_CardinalityType DEF Scored
<1>1. Ranked(score, depth) = SubSeq(f, 1, n)
  BY DEF Ranked, InOrder
<1>2. \A x \in S : Earlier(S, R, x) = {y \in S : A(y, x)}
  BY DEF Earlier, ScoreOrder
<1>3. f = [k \in 1 .. Cardinality(S) |-> f[k]] /\ \A k \in 1 .. Cardinality(S) : f[k] = E(k)
  <2> HIDE DEF E
  <2> QED
    OBVIOUS
<1> HIDE DEF f
<1>4. ASSUME NEW k \in 1 .. Cardinality(S), NEW x \in S, Place(S, R, x) = k - 1
      PROVE  f[k] \in S /\ Place(S, R, f[k]) = k - 1
  <2> HIDE DEF R, A
  <2>1. f[k] = CHOOSE y \in S : Cardinality({z \in S : A(z, y)}) = k - 1
    BY <1>3
  <2>2. Cardinality({z \in S : A(z, x)}) = k - 1
    BY <1>2, <1>4 DEF Place
  <2>3. f[k] \in S /\ Cardinality({z \in S : A(z, f[k])}) = k - 1
    BY <2>1, <2>2
  <2> QED
    BY <1>2, <2>3 DEF Place
<1> HIDE DEF f, R, A
<1>5. /\ f \in Seq(S) /\ Len(f) = Cardinality(S) /\ DOMAIN f = 1 .. Cardinality(S)
      /\ \A x \in S : \A k \in 1 .. Cardinality(S) : f[k] = x <=> Place(S, R, x) = k - 1
  BY <1>0, <1>3, <1>4, OrderFilled DEF OrderedAs
<1>6. n \in Nat /\ n <= depth /\ n <= Cardinality(S) /\ n \in {depth, Cardinality(S)}
  BY <1>0, <1>5, MinOfTwo
<1> HIDE DEF n
<1>7. /\ SubSeq(f, 1, n) \in Seq(S) /\ DOMAIN SubSeq(f, 1, n) = 1 .. n
      /\ \A k \in 1 .. n : SubSeq(f, 1, n)[k] = f[k]
  BY <1>0, <1>5, <1>6
<1>8. \A x \in S : Place(S, R, x) \in 0 .. Cardinality(S) - 1
  BY <1>0, PlacesRise
<1> DEFINE rk == SubSeq(f, 1, n)
<1> HIDE DEF rk, S
<1>9. ASSUME NEW x \in S, NEW k \in Nat \ {0}
      PROVE  (k \in DOMAIN rk /\ rk[k] = x) <=> (k <= depth /\ Place(S, R, x) = k - 1)
  <2>1. k \in DOMAIN rk <=> k <= n
    BY <1>6, <1>7 DEF rk
  <2>2. k <= n => (rk[k] = x <=> Place(S, R, x) = k - 1)
    BY <1>0, <1>5, <1>6, <1>7 DEF rk
  <2>3. Place(S, R, x) = k - 1 => k <= Cardinality(S)
    BY <1>0, <1>8
  <2> QED
    BY <1>0, <1>6, <2>1, <2>2, <2>3
<1> QED
  BY <1>1, <1>6, <1>7, <1>9 DEF rk, R, S, RanksPlaces

LEMMA FilteredChunks ==
  ASSUME NEW cs, cs \in Seq(Range(cs)),
         \A c \in Range(cs) : {"text", "refs", "near", "terms"} \subseteq DOMAIN c
  PROVE  /\ Cardinality(Informative(cs)) \in Nat
         /\ DOMAIN FilterChunks(cs) = 1 .. Cardinality(Informative(cs))
         /\ \A k \in DOMAIN FilterChunks(cs) : \E c \in Range(cs) :
              c.class = "informative" /\ \A f \in {"text", "refs", "near", "terms"} : FilterChunks(cs)[k][f] = c[f]
<1> DEFINE S == Informative(cs)
           kept == InOrder(S, <)
           P(k) == UNION {cs[i].pages : i \in {x \in Merged(cs) : MergeTarget(cs, x) = kept[k]}}
<1>1. DOMAIN cs = 1 .. Len(cs) /\ Len(cs) \in Nat
  OBVIOUS
<1>2. IsFiniteSet(DOMAIN cs)
  BY <1>1, FS_Interval
<1>3. S \subseteq DOMAIN cs
  BY DEF Informative
<1>4. IsFiniteSet(S) /\ S \subseteq Int
  BY <1>1, <1>2, <1>3, FS_Subset
<1>5. kept \in Seq(S) /\ Len(kept) = Cardinality(S) /\ Cardinality(S) \in Nat
  BY <1>4, PlacesListed
<1>6. FilterChunks(cs) = [k \in 1 .. Len(kept) |-> [cs[kept[k]] EXCEPT !.pages = @ \cup P(k)]]
  BY DEF FilterChunks
<1> HIDE DEF kept, P, S
<1>7. ASSUME NEW k \in 1 .. Len(kept)
      PROVE  \E c \in Range(cs) :
               c.class = "informative" /\ \A f \in {"text", "refs", "near", "terms"} : FilterChunks(cs)[k][f] = c[f]
  <2>1. kept[k] \in DOMAIN cs /\ cs[kept[k]].class = "informative"
    BY <1>3, <1>5 DEF S, Informative
  <2> DEFINE c == cs[kept[k]]
  <2>2. c \in Range(cs)
    BY <2>1 DEF Range
  <2>3. FilterChunks(cs)[k] = [c EXCEPT !.pages = @ \cup P(k)]
    BY <1>6
  <2>6. c.class = "informative"
    BY <2>1
  <2> HIDE DEF c
  <2>4. \A f \in {"text", "refs", "near", "terms"} : f \in DOMAIN c
    BY <2>2
  <2>5. \A f \in {"text", "refs", "near", "terms"} : FilterChunks(cs)[k][f] = c[f]
    BY <2>3, <2>4
  <2> QED
    BY <2>2, <2>5, <2>6
<1> QED
  BY <1>5, <1>6, <1>7 DEF S

\* What a KB is: as many claim lists as facts, and values that can be ranked.
KbIsWhole(k) ==
  /\ \E n \in Nat : DOMAIN k.facts = 1 .. n
  /\ DOMAIN k.claims = DOMAIN k.facts
  /\ \A i \in DOMAIN k.claims : \E m \in Nat : DOMAIN k.claims[i] = 1 .. m
  /\ \A i \in DOMAIN k.facts :
       /\ IsFiniteSet(DOMAIN k.facts[i].terms)
       /\ \A t \in DOMAIN k.facts[i].terms : k.facts[i].terms[t] \in Nat
       /\ \A rq \in Requests : k.facts[i].near[rq.query] \in Int

\* What a claim says of its chunk and of the others.
ClaimIsWhole(claim, i, facts) ==
  /\ claim.source = i
  /\ claim.status \in {"resolved", "unresolved", "ambiguous"}
  /\ claim.candidates \subseteq facts
  /\ IF claim.status = "resolved" THEN claim.target \in claim.candidates \ {i} ELSE claim.target = None

ReferenceOf(claim) == <<claim.label, claim.key, claim.direction>>

ClaimsAreWhole(k) ==
  /\ \A i \in DOMAIN k.claims : \A c \in DOMAIN k.claims[i] :
       ClaimIsWhole(k.claims[i][c], i, DOMAIN k.facts)
  /\ \A i \in DOMAIN k.claims : \A c, d \in DOMAIN k.claims[i] :
       ReferenceOf(k.claims[i][c]) = ReferenceOf(k.claims[i][d]) => c = d

LEMMA QuotientBounded ==
  ASSUME NEW b \in Nat PROVE 60 \div (b + 1) \in Nat /\ 60 \div (b + 1) <= 60
OBVIOUS

LEMMA ScoreBounded ==
  ASSUME NEW cs, NEW i \in Nat, NEW j \in Nat, NEW ref, NEW anchor
  PROVE  CandidateScore(cs, i, j, ref, anchor) \in Int /\ CandidateScore(cs, i, j, ref, anchor) <= 156
<1> DEFINE Add(condition, points) == IF condition THEN points ELSE 0
           distance == IF i < j THEN j - i ELSE i - j
           q == 60 \div (distance + 1)
           a == Add(cs[i].title # None /\ cs[i].title = cs[j].title, 24)
           b == Add(cs[i].pages \cap cs[j].pages # {}, 18)
           c == Add(cs[i].category = cs[j].category, 12)
           d == Add(DirectionOk(i, j, ref.direction), 90)
           e == Add(anchor.inTitle, 12)
<1>1. distance \in Nat
  OBVIOUS
<1>2. q \in Nat /\ q <= 60
  BY <1>1, QuotientBounded
<1>3. CandidateScore(cs, i, j, ref, anchor) = q + a + b + c + d - 60 + e
  BY DEF CandidateScore
<1>4. a \in 0 .. 24 /\ b \in 0 .. 18 /\ c \in 0 .. 12 /\ d \in {0, 90} /\ e \in 0 .. 12
  OBVIOUS
<1> HIDE DEF q, a, b, c, d, e
<1>5. q + a + b + c + d - 60 + e \in Int /\ q + a + b + c + d - 60 + e <= 156
  BY <1>2, <1>4
<1> QED
  BY <1>3, <1>5

LEMMA TargetsScored ==
  ASSUME NEW cs, NEW n \in Nat, DOMAIN cs = 1 .. n, NEW i \in 1 .. n, NEW ref
  PROVE  LET scored == ScoredTargets(cs, i, ref)
         IN /\ \A e \in scored : e.target \in DOMAIN cs \ {i} /\ e.score \in Int /\ e.score > 0
            /\ IsFiniteSet({e.score : e \in scored})
<1> DEFINE scored == ScoredTargets(cs, i, ref)
<1>1. ASSUME NEW e \in scored
      PROVE  e.target \in DOMAIN cs \ {i} /\ e.score \in 1 .. 156
  <2>1. PICK j \in DOMAIN cs \ {i} : \E a \in cs[j].anchors :
          e = [target |-> j, label |-> a.label, score |-> CandidateScore(cs, i, j, ref, a)]
    BY DEF ScoredTargets
  <2>2. e.score > 0
    BY DEF ScoredTargets
  <2>3. e.target = j /\ \E a : e.score = CandidateScore(cs, i, j, ref, a)
    BY <2>1
  <2> HIDE DEF scored
  <2>4. i \in Nat /\ j \in Nat
    OBVIOUS
  <2>5. \A a : CandidateScore(cs, i, j, ref, a) \in Int /\ CandidateScore(cs, i, j, ref, a) <= 156
    BY <2>4, ScoreBounded
  <2>6. e.score \in Int /\ e.score <= 156
    BY <2>3, <2>5
  <2>7. \A x \in Int : x > 0 /\ x <= 156 => x \in 1 .. 156
    OBVIOUS
  <2>8. e.score \in 1 .. 156
    BY <2>2, <2>6, <2>7
  <2> QED
    BY <2>3, <2>8
<1> HIDE DEF scored
<1>2. {e.score : e \in scored} \subseteq 1 .. 156
  BY <1>1
<1>3. IsFiniteSet(1 .. 156)
  <2>1. \A m \in Nat : IsFiniteSet(1 .. m)
    BY FS_Interval
  <2> QED
    BY <2>1
<1>4. IsFiniteSet({e.score : e \in scored})
  BY <1>2, <1>3, FS_Subset
<1>5. \A e \in scored : e.target \in DOMAIN cs \ {i} /\ e.score \in Int /\ e.score > 0
  <2>1. \A x \in 1 .. 156 : x \in Int /\ x > 0
    OBVIOUS
  <2> QED
    BY <1>1, <2>1
<1> QED
  BY <1>4, <1>5 DEF scored

LEMMA ClaimsOfChunk ==
  ASSUME NEW cs, NEW n \in Nat, DOMAIN cs = 1 .. n, NEW i \in 1 .. n, NEW ref
  PROVE  /\ ClaimIsWhole(Claim(cs, i, ref), i, DOMAIN cs)
         /\ ReferenceOf(Claim(cs, i, ref)) = <<ref.label, ref.key, ref.direction>>
<1> DEFINE scored == ScoredTargets(cs, i, ref)
           top == IF scored = {} THEN 0 ELSE Max({e.score : e \in scored})
           best == {e \in scored : e.score = top}
           clear == \A e \in scored : \A b \in best : e # b => top - e.score > Margin
           c == Claim(cs, i, ref)
<1>1. c = [source |-> i, label |-> ref.label, key |-> ref.key, direction |-> ref.direction,
           candidates |-> {e.target : e \in scored},
           status |-> IF scored = {} THEN "unresolved" ELSE IF clear THEN "resolved" ELSE "ambiguous",
           target |-> IF scored # {} /\ clear THEN (CHOOSE e \in best : TRUE).target ELSE None]
  BY DEF Claim
<1>2. /\ \A e \in scored : e.target \in DOMAIN cs \ {i} /\ e.score \in Int /\ e.score > 0
      /\ IsFiniteSet({e.score : e \in scored})
  BY TargetsScored
<1>3. scored # {} => best # {}
  <2> SUFFICES ASSUME scored # {} PROVE best # {}
    OBVIOUS
  <2> DEFINE S == {e.score : e \in scored}
  <2>1. S # {} /\ S \subseteq Int /\ IsFiniteSet(S)
    BY <1>2
  <2> HIDE DEF S
  <2>2. Max(S) \in S
    BY <2>1, GreatestOfFinite
  <2> QED
    BY <2>2 DEF S
<1> DEFINE x == CHOOSE e \in best : TRUE
<1>4. scored # {} => x \in scored
  BY <1>3
<1> HIDE DEF c, scored, top, x, clear
<1>5. /\ c.source = i /\ c.candidates = {e.target : e \in scored}
      /\ c.status = IF scored = {} THEN "unresolved" ELSE IF clear THEN "resolved" ELSE "ambiguous"
      /\ c.target = IF scored # {} /\ clear THEN x.target ELSE None
      /\ c.label = ref.label /\ c.key = ref.key /\ c.direction = ref.direction
  BY <1>1 DEF x
<1>6. c.candidates \subseteq DOMAIN cs \ {i}
  BY <1>2, <1>5
<1>7. c.status = "resolved" => scored # {} /\ clear
  BY <1>5
<1>8. c.status # "resolved" => ~ (scored # {} /\ clear)
  BY <1>5
<1>9. c.status = "resolved" => c.target \in c.candidates \ {i}
  BY <1>4, <1>5, <1>6, <1>7
<1>10. c.status \in {"resolved", "unresolved", "ambiguous"}
  BY <1>5
<1>11. ClaimIsWhole(c, i, DOMAIN cs)
  BY <1>5, <1>6, <1>8, <1>9, <1>10 DEF ClaimIsWhole
<1>12. ReferenceOf(c) = <<ref.label, ref.key, ref.direction>>
  BY <1>5 DEF ReferenceOf
<1> QED
  BY <1>11, <1>12 DEF c

FirstReferences(refs) == {k \in DOMAIN refs : \A h \in 1..(k - 1) : refs[h] # refs[k]}

LEMMA FirstReferencesDiffer ==
  ASSUME NEW refs, refs \in Seq(Range(refs))
  PROVE  LET first == InOrder(FirstReferences(refs), <)
         IN /\ Len(first) \in Nat /\ DOMAIN first = 1 .. Len(first)
            /\ \A k \in DOMAIN first : first[k] \in DOMAIN refs
            /\ \A k, l \in DOMAIN first : refs[first[k]] = refs[first[l]] => k = l
<1> DEFINE S == FirstReferences(refs)
           first == InOrder(S, <)
<1>1. DOMAIN refs = 1 .. Len(refs) /\ Len(refs) \in Nat
  OBVIOUS
<1>2. IsFiniteSet(DOMAIN refs)
  BY <1>1, FS_Interval
<1>3. S \subseteq DOMAIN refs
  BY DEF FirstReferences
<1>4. IsFiniteSet(S) /\ S \subseteq Int
  BY <1>1, <1>2, <1>3, FS_Subset
<1> HIDE DEF S
<1>5. /\ Len(first) \in Nat /\ DOMAIN first = 1 .. Len(first)
      /\ \A k \in DOMAIN first : first[k] \in S
      /\ \A k, l \in DOMAIN first : first[k] = first[l] => k = l
  <2>1. /\ Len(first) = Cardinality(S) /\ Cardinality(S) \in Nat /\ DOMAIN first = 1 .. Cardinality(S)
        /\ Enumerates(first, S, IntOrder(S))
    BY <1>4, PlacesListed
  <2> HIDE DEF first
  <2> QED
    BY <2>1 DEF Enumerates
<1>6. \A k, l \in S : refs[k] = refs[l] => k = l
  <2>1. \A k, l \in S : k < l => refs[k] # refs[l]
    BY <1>1 DEF FirstReferences, S
  <2> QED
    BY <1>4, <2>1
<1> HIDE DEF first
<1>7. \A k, l \in DOMAIN first : refs[first[k]] = refs[first[l]] => k = l
  BY <1>5, <1>6
<1>8. \A k \in DOMAIN first : first[k] \in DOMAIN refs
  BY <1>3, <1>5
<1> QED
  BY <1>5, <1>7, <1>8 DEF S, first

LEMMA ReferencesListed ==
  ASSUME NEW refs, refs \in Seq(Range(refs))
  PROVE  Len(InOrder({k \in DOMAIN refs : \A h \in 1..(k - 1) : refs[h] # refs[k]}, <)) \in Nat
<1> DEFINE S == {k \in DOMAIN refs : \A h \in 1..(k - 1) : refs[h] # refs[k]}
<1>1. DOMAIN refs = 1 .. Len(refs) /\ Len(refs) \in Nat
  OBVIOUS
<1>2. IsFiniteSet(DOMAIN refs)
  BY <1>1, FS_Interval
<1>3. S \subseteq DOMAIN refs
  OBVIOUS
<1> HIDE DEF S
<1>4. IsFiniteSet(S) /\ S \subseteq Int
  BY <1>1, <1>2, <1>3, FS_Subset
<1>5. Len(InOrder(S, <)) \in Nat
  BY <1>4, PlacesListed
<1> QED
  BY <1>5 DEF S

LEMMA KbsAreWhole ==
  ASSUME NEW p \in Pdfs PROVE KbIsWhole(Kb[p])
<1> DEFINE raw == Chunks[p]
           cs == FilterChunks(raw)
           context_ == ActiveContext(cs)
           claims == ClassifyReferenceClaims(cs)
           n == Cardinality(Informative(raw))
<1>1. /\ raw \in Seq(Range(raw))
      /\ \A c \in Range(raw) :
           /\ c.refs \in Seq(Range(c.refs)) /\ {"text", "refs", "near", "terms"} \subseteq DOMAIN c
           /\ IsFiniteSet(DOMAIN c.terms) /\ \A t \in DOMAIN c.terms : c.terms[t] \in Nat
           /\ \A rq \in Requests : c.near[rq.query] \in Int
  BY SearchAssumption
<1>2. /\ n \in Nat /\ DOMAIN cs = 1 .. n
      /\ \A k \in DOMAIN cs : \E c \in Range(raw) :
           \A f \in {"text", "refs", "near", "terms"} : cs[k][f] = c[f]
  BY <1>1, FilteredChunks
<1>3. /\ Kb[p].facts = [i \in DOMAIN cs |-> Fact(cs[i], context_[i])]
      /\ Kb[p].claims = claims
  BY DEF Kb, BuildDocumentKb
<1> HIDE DEF cs, context_, n, raw
<1>4. ASSUME NEW k \in DOMAIN cs
      PROVE  /\ cs[k].refs \in Seq(Range(cs[k].refs))
             /\ IsFiniteSet(DOMAIN cs[k].terms) /\ \A t \in DOMAIN cs[k].terms : cs[k].terms[t] \in Nat
             /\ \A rq \in Requests : cs[k].near[rq.query] \in Int
  <2>1. PICK c \in Range(raw) : \A f \in {"text", "refs", "near", "terms"} : cs[k][f] = c[f]
    BY <1>2
  <2>2. cs[k].refs = c.refs /\ cs[k].terms = c.terms /\ cs[k].near = c.near
    BY <2>1
  <2> QED
    BY <1>1, <2>2
<1>5. /\ DOMAIN claims = DOMAIN cs
      /\ \A i \in DOMAIN cs : \E m \in Nat : DOMAIN claims[i] = 1 .. m
  <2>1. DOMAIN claims = DOMAIN cs
    BY DEF ClassifyReferenceClaims
  <2>2. ASSUME NEW i \in DOMAIN cs PROVE \E m \in Nat : DOMAIN claims[i] = 1 .. m
    <3> DEFINE refs == cs[i].refs
               first == InOrder({k \in DOMAIN refs : \A h \in 1..(k - 1) : refs[h] # refs[k]}, <)
    <3>1. claims[i] = [k \in 1..Len(first) |-> Claim(cs, i, refs[first[k]])]
      BY DEF ClassifyReferenceClaims
    <3>2. Len(first) \in Nat
      BY <1>4, ReferencesListed
    <3> HIDE DEF first, refs, claims
    <3> QED
      BY <3>1, <3>2
  <2> QED
    BY <2>1, <2>2
<1> HIDE DEF claims
<1>6. \A i \in DOMAIN cs : Fact(cs[i], context_[i]).terms = cs[i].terms
                           /\ Fact(cs[i], context_[i]).near = cs[i].near
  BY DEF Fact
<1>7. \A i \in DOMAIN cs : Kb[p].facts[i].terms = cs[i].terms /\ Kb[p].facts[i].near = cs[i].near
  BY <1>3, <1>6
<1>8. DOMAIN Kb[p].facts = DOMAIN cs
  BY <1>3
<1> QED
  BY <1>2, <1>3, <1>4, <1>5, <1>7, <1>8 DEF KbIsWhole

-----------------------------------------------------------------------------
(* The search and what it may read, whatever is rewritten.                 *)
FilesInv ==
  /\ request \in Requests
  /\ kb \in [request.docs -> Pdfs \cup {None}]
  /\ DOMAIN index = request.docs
  /\ \A d \in request.docs : index[d] # None => index[d].kb \in Pdfs

LoadedInv ==
  /\ DOMAIN loaded \subseteq request.docs
  /\ \A d \in DOMAIN loaded : loaded[d].kb \in Pdfs
  /\ DOMAIN context \subseteq DOMAIN loaded
  /\ \A d \in DOMAIN context : context[d] = loaded[d].kb /\ Kb[context[d]].passed

\* What a search has at hand once its rows have been scored.
Grounded ==
  /\ DOMAIN context = request.docs
  /\ \A d \in request.docs : loaded[d].provider = request.provider
  /\ scores = Scores(EligibleRows)

StageInv ==
  /\ stage = "loaded" => DOMAIN context = request.docs
  /\ stage = "scored" => Grounded
  /\ stage \in {"asked", "loading", "loaded", "scored"} => result = None
  /\ stage \in {"ranked", "expanded"} => request.mode # "corpus"
  /\ pack # None => stage = "packed"

ResultInv ==
  result # None =>
    /\ Grounded
    /\ result = SearchResult(VectorCandidates, LexicalCandidates)
    /\ ResultReconciles(result)

ExpansionInv ==
  stage = "expanded" => expansion = ExpandReferences(Kb[context[Document]].claims, Primaries)

ClaimsOfKb(p) ==
  \A v \in Range(p.relations \o p.warnings) :
    Kb[loaded[Document].kb].claims[p.primary[v.rank]][v.place] = v.claim

PackInv == pack # None /\ result # None => ClaimsOfKb(pack)

SearchInv == FilesInv /\ LoadedInv /\ StageInv /\ ResultInv /\ ExpansionInv /\ PackInv

LEMMA SearchInvInit == SearchInit => SearchInv
<1> SUFFICES ASSUME SearchInit PROVE SearchInv
  OBVIOUS
<1>1. FilesInv
  BY DEF SearchInit, FilesInv
<1>2. LoadedInv
  BY DEF SearchInit, LoadedInv
<1>3. StageInv /\ ResultInv /\ ExpansionInv /\ PackInv
  BY DEF SearchInit, StageInv, ResultInv, ExpansionInv, PackInv
<1> QED
  BY <1>1, <1>2, <1>3 DEF SearchInv

LEMMA ScoresOfLoaded ==
  ASSUME UNCHANGED <<request, loaded>>
  PROVE  EligibleRows' = EligibleRows /\ Scores(EligibleRows)' = Scores(EligibleRows)
<1>1. Rows' = Rows /\ EligibleRows' = EligibleRows
  BY DEF EligibleRows, Payload, Rows
<1>2. ASSUME NEW r PROVE LexicalScore(r)' = LexicalScore(r)
  BY <1>1 DEF LexicalScore, Payload
<1>3. ASSUME NEW r PROVE Payload(r)' = Payload(r) /\ ScopeBoost(Payload(r))' = ScopeBoost(Payload(r))
  BY DEF Payload, ScopeBoost
<1> QED
  BY <1>1, <1>2, <1>3 DEF Scores

\* What a search has read and found, as far as the invariant is about it.
LEMMA SearchUndisturbed ==
  ASSUME UNCHANGED <<request, loaded, context, scores, result>>
  PROVE  /\ Grounded' = Grounded
         /\ (result # None)' = (result # None)
         /\ (result = SearchResult(VectorCandidates, LexicalCandidates))'
              = (result = SearchResult(VectorCandidates, LexicalCandidates))
         /\ ResultReconciles(result)' = ResultReconciles(result)
         /\ LoadedInv' = LoadedInv /\ ResultInv' = ResultInv
         /\ Primaries' = Primaries
         /\ Document' = Document
<1>1. Grounded' = Grounded
  BY ScoresOfLoaded DEF Grounded
<1>2. EligibleRows' = EligibleRows
  BY ScoresOfLoaded
<1>3. VectorCandidates' = VectorCandidates
  BY DEF VectorCandidates
<1>4. LexicalCandidates' = LexicalCandidates
  BY DEF LexicalCandidates
<1>5. SearchResult(VectorCandidates, LexicalCandidates)' = SearchResult(VectorCandidates, LexicalCandidates)
  BY <1>3, <1>4 DEF SearchResult, Fused
<1>6. ResultReconciles(result)' = ResultReconciles(result)
  BY <1>2 DEF ResultReconciles, ChannelAccepted, HitAccepted, Fused, Payload
<1>7. LoadedInv' = LoadedInv
  BY DEF LoadedInv
<1>8. Primaries' = Primaries /\ Document' = Document
  BY DEF Primaries, Document
<1> QED
  BY <1>1, <1>3, <1>4, <1>5, <1>6, <1>7, <1>8 DEF ResultInv

\* A step that only moves the search on, refuses it or rewrites a file.
LEMMA SearchMovesOn ==
  ASSUME SearchInv, FilesInv', UNCHANGED <<request, loaded, context, scores, result, expansion, pack>>,
         \/ stage' = stage
         \/ stage' = "refused" /\ pack = None
         \/ stage' = "loading" /\ stage = "asked"
  PROVE  SearchInv'
<1>1. /\ Grounded' = Grounded /\ LoadedInv' = LoadedInv /\ ResultInv' = ResultInv
      /\ Primaries' = Primaries /\ Document' = Document
  BY SearchUndisturbed
<1>2. StageInv'
  BY <1>1 DEF SearchInv, StageInv
<1>3. ExpansionInv'
  BY <1>1 DEF SearchInv, ExpansionInv
<1>4. PackInv'
  BY <1>1 DEF SearchInv, PackInv, ClaimsOfKb
<1> QED
  BY <1>1, <1>2, <1>3, <1>4 DEF SearchInv

LEMMA FilesUntouched ==
  ASSUME SearchInv, UNCHANGED <<kb, index, request>> PROVE FilesInv'
BY DEF SearchInv, FilesInv

LEMMA FilesRewritten ==
  ASSUME SearchInv, NEW d \in request.docs, WriteKb(d) \/ BuildIndex(d) PROVE SearchInv'
<1>1. UNCHANGED <<request, stage, refusal, loaded, context, scores, result, expansion, pack>>
  BY DEF WriteKb, BuildIndex
<1>2. FilesInv'
  BY <1>1 DEF WriteKb, BuildIndex, SearchInv, FilesInv
<1> QED
  BY <1>1, <1>2, SearchMovesOn

LEMMA Refused ==
  ASSUME SearchInv, NEW reason, Refuse(reason), pack = None PROVE SearchInv'
<1>1. UNCHANGED <<kb, index, request, loaded, context, scores, result, expansion, pack>>
      /\ stage' = "refused"
  BY DEF Refuse
<1> QED
  BY <1>1, FilesUntouched, SearchMovesOn

LEMMA Asked ==
  ASSUME SearchInv, Ask PROVE SearchInv'
<1>1. pack = None
  BY DEF SearchInv, StageInv, Ask
<1>2. CASE SearchInputAccepted(request)
  <2>1. UNCHANGED <<kb, index, request, loaded, context, scores, result, expansion, pack>>
        /\ stage' = "loading" /\ stage = "asked"
    BY <1>2 DEF Ask
  <2> QED
    BY <2>1, FilesUntouched, SearchMovesOn
<1>3. CASE ~ SearchInputAccepted(request)
  <2>1. Refuse("input")
    BY <1>3 DEF Ask
  <2> QED
    BY <1>1, <2>1, Refused
<1> QED
  BY <1>2, <1>3

LEMMA IndexLoaded ==
  ASSUME SearchInv, NEW d \in request.docs, LoadIndex(d) PROVE SearchInv'
<1>1. pack = None /\ result = None /\ stage = "loading" /\ DOMAIN loaded = DOMAIN context
      /\ Turn(d, loaded)
  BY DEF SearchInv, StageInv, LoadIndex
<1>2. CASE index[d] = None
  BY <1>1, <1>2, Refused DEF LoadIndex
<1>3. CASE index[d] # None
  <2>1. /\ loaded' = [e \in DOMAIN loaded \cup {d} |-> IF e = d THEN index[d] ELSE loaded[e]]
        /\ UNCHANGED <<kb, index, request, stage, refusal, context, scores, result, expansion, pack>>
    BY <1>3 DEF LoadIndex
  <2>2. FilesInv'
    BY <2>1, FilesUntouched
  <2>3. d \notin DOMAIN context
    BY <1>1 DEF Turn
  <2>4. DOMAIN loaded' = DOMAIN loaded \cup {d} /\ loaded'[d] = index[d]
        /\ \A e \in DOMAIN loaded \ {d} : loaded'[e] = loaded[e]
    BY <2>1
  <2>5. index[d].kb \in Pdfs
    BY <1>3 DEF SearchInv, FilesInv
  <2>6. LoadedInv'
    BY <1>1, <2>1, <2>3, <2>4, <2>5 DEF SearchInv, LoadedInv
  <2>7. StageInv' /\ ResultInv' /\ ExpansionInv' /\ PackInv'
    BY <1>1, <2>1 DEF StageInv, ResultInv, ExpansionInv, PackInv
  <2> QED
    BY <2>2, <2>6, <2>7 DEF SearchInv
<1> QED
  BY <1>2, <1>3

LEMMA ContextLoaded ==
  ASSUME SearchInv, NEW d \in request.docs, LoadFreshIndexContext(d) PROVE SearchInv'
<1>1. pack = None /\ result = None /\ stage = "loading" /\ Turn(d, context) /\ d \in DOMAIN loaded
  BY DEF SearchInv, StageInv, LoadFreshIndexContext
<1>2. CASE \E reason : Refuse(reason)
  BY <1>1, <1>2, Refused
<1>3. CASE ~ \E reason : Refuse(reason)
  <2>1. /\ kb[d] = loaded[d].kb /\ Kb[kb[d]].passed
        /\ context' = [e \in DOMAIN context \cup {d} |-> IF e = d THEN kb[d] ELSE context[e]]
        /\ stage' = IF DOMAIN context' = request.docs THEN "loaded" ELSE "loading"
        /\ UNCHANGED <<kb, index, request, refusal, loaded, scores, result, expansion, pack>>
    BY <1>3 DEF LoadFreshIndexContext
  <2>2. FilesInv'
    BY <2>1, FilesUntouched
  <2>3. DOMAIN context' = DOMAIN context \cup {d} /\ context'[d] = kb[d]
        /\ \A e \in DOMAIN context \ {d} : context'[e] = context[e]
    BY <2>1
  <2>4. LoadedInv'
    BY <1>1, <2>1, <2>3 DEF SearchInv, LoadedInv
  <2>5. StageInv' /\ ResultInv' /\ ExpansionInv' /\ PackInv'
    BY <1>1, <2>1 DEF StageInv, ResultInv, ExpansionInv, PackInv
  <2> QED
    BY <2>2, <2>4, <2>5 DEF SearchInv
<1> QED
  BY <1>2, <1>3

LEMMA RowsScored ==
  ASSUME SearchInv, ScoreRows PROVE SearchInv'
<1>1. pack = None /\ result = None /\ stage = "loaded" /\ DOMAIN context = request.docs
  BY DEF SearchInv, StageInv, ScoreRows
<1>2. CASE \E d \in request.docs : loaded[d].provider # request.provider
  BY <1>1, <1>2, Refused DEF ScoreRows
<1>3. CASE ~ \E d \in request.docs : loaded[d].provider # request.provider
  <2>1. /\ scores' = Scores(EligibleRows) /\ stage' = "scored"
        /\ UNCHANGED <<kb, index, request, refusal, loaded, context, result, expansion, pack>>
    BY <1>3 DEF ScoreRows
  <2>2. FilesInv' /\ LoadedInv'
    BY <2>1, FilesUntouched DEF SearchInv, LoadedInv
  <2>3. Scores(EligibleRows)' = Scores(EligibleRows)
    BY <2>1, ScoresOfLoaded
  <2>4. Grounded'
    BY <1>1, <1>3, <2>1, <2>3 DEF Grounded
  <2>5. StageInv' /\ ResultInv' /\ ExpansionInv' /\ PackInv'
    BY <1>1, <2>1, <2>4 DEF StageInv, ResultInv, ExpansionInv, PackInv
  <2> QED
    BY <2>2, <2>5 DEF SearchInv
<1> QED
  BY <1>2, <1>3

LEMMA RowsRanked ==
  ASSUME SearchInv, Search PROVE SearchInv'
<1> DEFINE res == SearchResult(VectorCandidates, LexicalCandidates)
<1>1. pack = None /\ result = None /\ stage = "scored" /\ Grounded
  BY DEF SearchInv, StageInv, Search
<1>2. CASE ~ ResultReconciles(res)
  BY <1>1, <1>2, Refused DEF Search
<1>3. CASE ResultReconciles(res)
  <2>1. /\ result' = res
        /\ stage' = IF request.mode = "corpus" THEN "searched" ELSE "ranked"
        /\ UNCHANGED <<kb, index, request, refusal, loaded, context, scores, expansion, pack>>
    BY <1>3 DEF Search
  <2>2. FilesInv' /\ LoadedInv'
    BY <2>1, FilesUntouched DEF SearchInv, LoadedInv
  <2>3. Grounded'
    BY <1>1, <2>1, ScoresOfLoaded DEF Grounded
  <2>4. EligibleRows' = EligibleRows
    BY <2>1 DEF EligibleRows, Payload, Rows
  <2>5. VectorCandidates' = VectorCandidates /\ LexicalCandidates' = LexicalCandidates
    BY <2>1 DEF VectorCandidates, LexicalCandidates
  <2>6. SearchResult(VectorCandidates, LexicalCandidates)' = res
    BY <2>1, <2>5 DEF SearchResult, Fused
  <2>7. ResultReconciles(result)'
    <3>1. ResultReconciles(res)' = ResultReconciles(res)
      BY <2>1, <2>4, <2>6 DEF ResultReconciles, ChannelAccepted, HitAccepted, Fused, Payload
    <3>2. ResultReconciles(res)' = ResultReconciles(result)'
      BY <2>1, <2>6 DEF ResultReconciles, ChannelAccepted, HitAccepted
    <3> QED
      BY <1>3, <3>1, <3>2
  <2>8. StageInv' /\ ExpansionInv' /\ PackInv'
    BY <1>1, <2>1 DEF StageInv, ExpansionInv, PackInv
  <2>9. ResultInv'
    BY <2>1, <2>3, <2>6, <2>7 DEF ResultInv
  <2> QED
    BY <2>2, <2>8, <2>9 DEF SearchInv
<1> QED
  BY <1>2, <1>3

LEMMA ReferencesExpanded ==
  ASSUME SearchInv, Expand PROVE SearchInv'
<1>1. pack = None /\ stage = "ranked" /\ request.mode # "corpus"
  BY DEF SearchInv, StageInv, Expand
<1>2. CASE ~ Aligned(Document)
  BY <1>1, <1>2, Refused DEF Expand
<1>3. CASE Aligned(Document)
  <2>1. /\ expansion' = ExpandReferences(Kb[context[Document]].claims, Primaries)
        /\ stage' = "expanded"
        /\ UNCHANGED <<kb, index, request, refusal, loaded, context, scores, result, pack>>
    BY <1>3 DEF Expand
  <2>2. /\ Grounded' = Grounded /\ LoadedInv' = LoadedInv /\ ResultInv' = ResultInv
        /\ Primaries' = Primaries /\ Document' = Document
    BY <2>1, SearchUndisturbed
  <2>3. FilesInv'
    BY <2>1, FilesUntouched
  <2>4. StageInv' /\ PackInv'
    BY <1>1, <2>1, <2>2 DEF StageInv, PackInv
  <2>5. ExpansionInv'
    BY <2>1, <2>2 DEF ExpansionInv
  <2> QED
    BY <2>2, <2>3, <2>4, <2>5 DEF SearchInv
<1> QED
  BY <1>2, <1>3

-----------------------------------------------------------------------------
(* Rows and scores are finite and numbers, so that they can be ranked.     *)
LEMMA FiniteFamily ==
  ASSUME NEW S, IsFiniteSet(S), NEW f, \A x \in S : IsFiniteSet(f[x])
  PROVE  IsFiniteSet(UNION {f[x] : x \in S})
<1> DEFINE T == {f[x] : x \in S}
           g == [x \in S |-> f[x]]
<1>1. g \in Surjection(S, T)
  BY DEF Surjection
<1>2. IsFiniteSet(T)
  BY <1>1, FS_Surjection
<1>3. \A X \in T : IsFiniteSet(X)
  OBVIOUS
<1> QED
  BY <1>2, <1>3, FS_UNION

LEMMA NumbersDivided ==
  ASSUME NEW a \in Nat, NEW b \in Nat, b # 0 PROVE a \div b \in Nat
OBVIOUS

LEMMA RowsOfSearch ==
  ASSUME SearchInv, DOMAIN context = request.docs
  PROVE  /\ IsFiniteSet(Rows) /\ Rows \subseteq Nat \X Nat
         /\ \A r \in Rows : r[1] \in request.docs /\ r[2] \in DOMAIN Kb[loaded[r[1]].kb].facts
         /\ IsFiniteSet(EligibleRows) /\ EligibleRows \subseteq Rows
<1> DEFINE F(d) == DOMAIN Kb[loaded[d].kb].facts
           f == [d \in request.docs |-> {d} \X F(d)]
<1>1. IsFiniteSet(request.docs) /\ request.docs \subseteq Nat
  BY SearchAssumption DEF SearchInv, FilesInv
<1>2. ASSUME NEW d \in request.docs PROVE IsFiniteSet(F(d)) /\ F(d) \subseteq Nat
  <2>1. KbIsWhole(Kb[loaded[d].kb])
    BY KbsAreWhole DEF SearchInv, LoadedInv
  <2>2. PICK n \in Nat : F(d) = 1 .. n
    BY <2>1 DEF KbIsWhole
  <2> QED
    BY <2>2, FS_Interval
<1>3. Rows = UNION {f[d] : d \in request.docs}
  BY DEF Rows
<1> HIDE DEF F
<1>4. \A d \in request.docs : IsFiniteSet({d} \X F(d))
  BY <1>2, FS_Singleton, FS_Product
<1>5. \A d \in request.docs : f[d] = {d} \X F(d)
  OBVIOUS
<1> HIDE DEF f
<1>6. IsFiniteSet(Rows)
  BY <1>1, <1>3, <1>4, <1>5, FiniteFamily
<1>7. \A r \in Rows : r \in Nat \X Nat /\ r[1] \in request.docs /\ r[2] \in F(r[1])
  BY <1>1, <1>2, <1>3, <1>5
<1>8. EligibleRows \subseteq Rows
  BY DEF EligibleRows
<1>9. IsFiniteSet(EligibleRows)
  BY <1>6, <1>8, FS_Subset
<1> QED
  BY <1>6, <1>7, <1>8, <1>9 DEF F

LEMMA LexicalIsNumber ==
  ASSUME SearchInv, DOMAIN context = request.docs, NEW r \in EligibleRows
  PROVE  LexicalScore(r) \in Nat
<1> DEFINE population == IF request.mode = "corpus" THEN EligibleRows ELSE Rows
           Rarity(t) == Cardinality({s \in population : t \notin DOMAIN Payload(s).terms})
           Counted(t) == {t} \X ((1 .. Payload(r).terms[t]) \X (0 .. Rarity(t)))
           T == request.terms \cap DOMAIN Payload(r).terms
           f == [t \in T |-> Counted(t)]
<1>1. r \in Rows /\ r[1] \in request.docs /\ r[2] \in DOMAIN Kb[loaded[r[1]].kb].facts
  BY RowsOfSearch
<1>2. KbIsWhole(Kb[loaded[r[1]].kb])
  BY <1>1, KbsAreWhole DEF SearchInv, LoadedInv
<1>3. IsFiniteSet(DOMAIN Payload(r).terms) /\ \A t \in DOMAIN Payload(r).terms : Payload(r).terms[t] \in Nat
  BY <1>1, <1>2 DEF KbIsWhole, Payload
<1>4. IsFiniteSet(T)
  BY <1>3, FS_Intersection
<1>5. IsFiniteSet(population)
  BY RowsOfSearch
<1> HIDE DEF population
<1>6. ASSUME NEW t \in T PROVE IsFiniteSet(Counted(t))
  <2>1. IsFiniteSet({s \in population : t \notin DOMAIN Payload(s).terms})
    BY <1>5, FS_Subset
  <2>2. Rarity(t) \in Nat
    BY <2>1, FS_CardinalityType
  <2>3. Payload(r).terms[t] \in Nat
    BY <1>3
  <2> HIDE DEF Rarity
  <2>4. \A n \in Nat : IsFiniteSet(1 .. n) /\ IsFiniteSet(0 .. n)
    BY FS_Interval
  <2>5. IsFiniteSet((1 .. Payload(r).terms[t]) \X (0 .. Rarity(t)))
    BY <2>2, <2>3, <2>4, FS_Product
  <2> QED
    BY <2>5, FS_Product, FS_Singleton
<1>7. LexicalScore(r) = Cardinality(UNION {Counted(t) : t \in T})
  BY DEF LexicalScore, population
<1> HIDE DEF Counted, T
<1>8. \A t \in T : f[t] = Counted(t)
  OBVIOUS
<1>9. {f[t] : t \in T} = {Counted(t) : t \in T}
  BY <1>8
<1> HIDE DEF f
<1>10. IsFiniteSet(UNION {f[t] : t \in T})
  BY <1>4, <1>6, <1>8, FiniteFamily
<1> QED
  BY <1>7, <1>9, <1>10, FS_CardinalityType

LEMMA BoostIsNumber ==
  ASSUME NEW f PROVE ScopeBoost(f) \in Nat
<1>1. Scale \in Nat /\ RrfK \in Nat
  BY SearchAssumption
<1>2. RrfK + 1 \in Nat /\ RrfK + 1 # 0 /\ 2 * (RrfK + 1) \in Nat /\ 2 * (RrfK + 1) # 0
  BY <1>1
<1> DEFINE a == Scale \div (RrfK + 1)
           b == Scale \div (2 * (RrfK + 1))
<1>3. a \in Nat /\ b \in Nat
  BY <1>1, <1>2, NumbersDivided
<1>4. ScopeBoost(f) = (IF f.scope.targets \cap request.prefer.targets # {} THEN a ELSE 0)
                      + (IF f.scope.college \in request.prefer.colleges THEN b ELSE 0)
  BY DEF ScopeBoost
<1> HIDE DEF a, b
<1> QED
  BY <1>3, <1>4

LEMMA ScoresAreNumbers ==
  ASSUME SearchInv, Grounded
  PROVE  /\ DOMAIN scores = EligibleRows
         /\ \A r \in DOMAIN scores : scores[r].near \in Int /\ scores[r].lexical \in Nat /\ scores[r].boost \in Nat
<1>1. DOMAIN scores = EligibleRows
  BY DEF Grounded, Scores
<1>2. ASSUME NEW r \in EligibleRows
      PROVE  scores[r].near \in Int /\ scores[r].lexical \in Nat /\ scores[r].boost \in Nat
  <2>1. scores[r] = [near |-> Payload(r).near[request.query], lexical |-> LexicalScore(r),
                     boost |-> ScopeBoost(Payload(r))]
    BY DEF Grounded, Scores
  <2>2. r \in Rows /\ r[1] \in request.docs /\ r[2] \in DOMAIN Kb[loaded[r[1]].kb].facts
    BY RowsOfSearch DEF Grounded
  <2>3. KbIsWhole(Kb[loaded[r[1]].kb])
    BY <2>2, KbsAreWhole DEF SearchInv, LoadedInv, Grounded
  <2>4. Payload(r).near[request.query] \in Int
    BY <2>2, <2>3 DEF KbIsWhole, Payload, SearchInv, FilesInv
  <2>5. LexicalScore(r) \in Nat
    BY LexicalIsNumber DEF Grounded
  <2> QED
    BY <2>1, <2>4, <2>5, BoostIsNumber
<1> QED
  BY <1>1, <1>2

-----------------------------------------------------------------------------
(* Ranks and their fusion.                                                 *)
\* The rank of a row is its place in the order, counted from one, and zero
\* beyond the depth and for what is not ranked at all.
LEMMA RankIsPlace ==
  ASSUME NEW score, Scored(score), NEW depth \in Nat
  PROVE  /\ \A x \in DOMAIN score :
              LET p == Place(DOMAIN score, ScoreOrder(score), x)
              IN p \in Nat /\ RankIn(Ranked(score, depth), x) = IF p < depth THEN p + 1 ELSE 0
         /\ \A x : RankIn(Ranked(score, depth), x) # 0 => x \in DOMAIN score
         /\ \A x : x \in Range(Ranked(score, depth)) <=> RankIn(Ranked(score, depth), x) # 0
<1> DEFINE rk == Ranked(score, depth)
           S == DOMAIN score
           p(x) == Place(S, ScoreOrder(score), x)
<1>1. /\ rk \in Seq(S)
      /\ \A k \in DOMAIN rk : k \in Nat \ {0} /\ k <= depth
      /\ \A x \in S : \A k \in Nat \ {0} :
           (k \in DOMAIN rk /\ rk[k] = x) <=> (k <= depth /\ p(x) = k - 1)
  BY RankedByPlace DEF RanksPlaces
<1>2. \A x \in S : p(x) \in Nat
  <2>1. IsFiniteSet(S) /\ Orders(S, ScoreOrder(score)) /\ Cardinality(S) \in Nat
    BY ScoresOrder, FS_CardinalityType DEF Scored
  <2> QED
    BY <2>1, PlacesRise
<1> HIDE DEF rk, p, S
<1>3. ASSUME NEW x \in S PROVE RankIn(rk, x) = IF p(x) < depth THEN p(x) + 1 ELSE 0
  <2>1. CASE p(x) < depth
    <3>1. p(x) + 1 \in DOMAIN rk /\ rk[p(x) + 1] = x
      BY <1>1, <1>2, <2>1
    <3>2. \A k \in DOMAIN rk : rk[k] = x => k = p(x) + 1
      BY <1>1, <1>2
    <3> QED
      BY <2>1, <3>1, <3>2 DEF RankIn
  <2>2. CASE ~ (p(x) < depth)
    <3>1. ~ \E k \in DOMAIN rk : rk[k] = x
      BY <1>1, <1>2, <2>2
    <3> QED
      BY <2>2, <3>1 DEF RankIn
  <2> QED
    BY <2>1, <2>2
<1>4. \A x : RankIn(rk, x) # 0 => \E k \in DOMAIN rk : rk[k] = x
  BY DEF RankIn
<1>5. \A x : RankIn(rk, x) # 0 => x \in S
  BY <1>1, <1>4
<1>6. \A x : (\E k \in DOMAIN rk : rk[k] = x) => RankIn(rk, x) # 0
  BY <1>1 DEF RankIn
<1>7. \A x : x \in Range(rk) <=> \E k \in DOMAIN rk : rk[k] = x
  BY DEF Range
<1> QED
  BY <1>2, <1>3, <1>4, <1>5, <1>6, <1>7 DEF rk, p, S

\* Who is ahead of a ranked row is ranked, and better.
LEMMA RanksFollowOrder ==
  ASSUME NEW score, Scored(score), NEW depth \in Nat, NEW a, NEW b,
         <<a, b>> \in ScoreOrder(score), RankIn(Ranked(score, depth), b) # 0
  PROVE  /\ RankIn(Ranked(score, depth), a) \in 1 .. depth
         /\ RankIn(Ranked(score, depth), b) \in 1 .. depth
         /\ RankIn(Ranked(score, depth), a) < RankIn(Ranked(score, depth), b)
<1> DEFINE S == DOMAIN score
           p(x) == Place(S, ScoreOrder(score), x)
           rank(x) == RankIn(Ranked(score, depth), x)
<1>1. a \in S /\ b \in S
  BY DEF ScoreOrder
<1>2. IsFiniteSet(S) /\ Orders(S, ScoreOrder(score))
  BY ScoresOrder DEF Scored
<1>3. p(a) < p(b)
  BY <1>1, <1>2, PlacesRise
<1>4. \A x \in S : p(x) \in Nat /\ rank(x) = IF p(x) < depth THEN p(x) + 1 ELSE 0
  BY RankIsPlace
<1> HIDE DEF p, S
<1>5. rank(b) # 0
  OBVIOUS
<1> HIDE DEF rank
<1>6. rank(a) \in 1 .. depth /\ rank(b) \in 1 .. depth /\ rank(a) < rank(b)
  BY <1>1, <1>3, <1>4, <1>5
<1> QED
  BY <1>6 DEF rank

Near == [r \in DOMAIN scores |-> scores[r].near]
Lexical == [r \in {r \in DOMAIN scores : scores[r].lexical > 0} |-> scores[r].lexical]
Depth == ResolveCandidateDepth(request)

LEMMA DepthIsNumber ==
  ASSUME SearchInv PROVE Depth \in Nat /\ request.top \in Nat
<1>1. request.top \in Nat /\ request.candidates \in Nat /\ DefaultCandidates \in Nat
  BY SearchAssumption DEF SearchInv, FilesInv
<1>2. \A a, b \in Nat : Max({a, b}) \in Nat
  BY DEF Max
<1> QED
  BY <1>1, <1>2 DEF Depth, ResolveCandidateDepth

LEMMA ChannelsAreScored ==
  ASSUME SearchInv, Grounded
  PROVE  /\ Scored(Near) /\ Scored(Lexical)
         /\ VectorCandidates = Ranked(Near, Depth) /\ LexicalCandidates = Ranked(Lexical, Depth)
<1>1. /\ DOMAIN scores = EligibleRows
      /\ \A r \in DOMAIN scores : scores[r].near \in Int /\ scores[r].lexical \in Nat
  BY ScoresAreNumbers
<1>2. IsFiniteSet(DOMAIN scores) /\ DOMAIN scores \subseteq Nat \X Nat
  BY <1>1, RowsOfSearch DEF Grounded
<1>3. Scored(Near)
  BY <1>1, <1>2 DEF Scored, Near
<1>4. DOMAIN Lexical \subseteq DOMAIN scores
  BY DEF Lexical
<1>5. IsFiniteSet(DOMAIN Lexical) /\ DOMAIN Lexical \subseteq Nat \X Nat
  BY <1>2, <1>4, FS_Subset
<1>6. \A r \in DOMAIN Lexical : Lexical[r] \in Int
  BY <1>1 DEF Lexical
<1>7. Scored(Lexical)
  BY <1>5, <1>6 DEF Scored
<1> QED
  BY <1>3, <1>7 DEF VectorCandidates, LexicalCandidates, Near, Lexical, Depth

LEMMA RankScores ==
  ASSUME SearchInv
  PROVE  /\ \A n \in Nat : RankScore(n) \in Nat
         /\ \A n \in 1 .. Depth : \A m \in 1 .. (n - 1) : RankScore(n) < RankScore(m)
<1>1. Scale \in Nat /\ RrfK \in Nat
  BY SearchAssumption
<1>2. ASSUME NEW n \in Nat PROVE RankScore(n) \in Nat
  <2>1. CASE n = 0
    BY <2>1 DEF RankScore
  <2>2. CASE n # 0
    <3>1. RrfK + n \in Nat /\ RrfK + n # 0
      BY <1>1, <2>2
    <3>2. RankScore(n) = Scale \div (RrfK + n)
      BY <2>2 DEF RankScore
    <3> QED
      BY <1>1, <3>1, <3>2, NumbersDivided
  <2> QED
    BY <2>1, <2>2
<1>3. \A n \in 1 .. Depth : \A m \in 1 .. (n - 1) : Scale \div (RrfK + n) < Scale \div (RrfK + m)
  BY SearchAssumption DEF SearchInv, FilesInv, Depth
<1>4. ASSUME NEW n \in 1 .. Depth, NEW m \in 1 .. (n - 1) PROVE RankScore(n) < RankScore(m)
  <2>1. RankScore(n) = Scale \div (RrfK + n) /\ RankScore(m) = Scale \div (RrfK + m)
    BY DEF RankScore
  <2> QED
    BY <1>3, <2>1
<1> QED
  BY <1>2, <1>4

LEMMA RanksAreNumbers ==
  ASSUME NEW score, Scored(score), NEW depth \in Nat, NEW x
  PROVE  RankIn(Ranked(score, depth), x) \in Nat
<1> DEFINE p == Place(DOMAIN score, ScoreOrder(score), x)
           rank == RankIn(Ranked(score, depth), x)
<1>1. CASE x \in DOMAIN score
  <2>1. p \in Nat /\ rank = IF p < depth THEN p + 1 ELSE 0
    BY <1>1, RankIsPlace
  <2> HIDE DEF p, rank
  <2>2. rank \in Nat
    BY <2>1
  <2> QED
    BY <2>2 DEF rank
<1>2. CASE x \notin DOMAIN score
  <2>1. rank = 0
    BY <1>2, RankIsPlace
  <2> QED
    BY <2>1
<1> QED
  BY <1>1, <1>2

FusedScore(r) == Fused(r, VectorCandidates, LexicalCandidates)
Candidates == Range(VectorCandidates) \cup Range(LexicalCandidates)

LEMMA FusedAreNumbers ==
  ASSUME SearchInv, Grounded
  PROVE  /\ Candidates \subseteq DOMAIN scores
         /\ \A r \in DOMAIN scores : FusedScore(r) \in Nat
         /\ Scored([r \in Candidates |-> FusedScore(r)])
<1>1. /\ Scored(Near) /\ Scored(Lexical)
      /\ VectorCandidates = Ranked(Near, Depth) /\ LexicalCandidates = Ranked(Lexical, Depth)
  BY ChannelsAreScored
<1>2. Depth \in Nat
  BY DepthIsNumber
<1>3. DOMAIN Near = DOMAIN scores /\ DOMAIN Lexical \subseteq DOMAIN scores
  BY DEF Near, Lexical
<1>4. Range(VectorCandidates) \subseteq DOMAIN Near
  BY <1>1, <1>2, RankIsPlace
<1>5. Range(LexicalCandidates) \subseteq DOMAIN Lexical
  BY <1>1, <1>2, RankIsPlace
<1>6. Candidates \subseteq DOMAIN scores
  BY <1>3, <1>4, <1>5 DEF Candidates
<1>7. ASSUME NEW r \in DOMAIN scores PROVE FusedScore(r) \in Nat
  <2>1. RankIn(VectorCandidates, r) \in Nat /\ RankIn(LexicalCandidates, r) \in Nat
    BY <1>1, <1>2, RanksAreNumbers
  <2>2. RankScore(RankIn(VectorCandidates, r)) \in Nat /\ RankScore(RankIn(LexicalCandidates, r)) \in Nat
    BY <2>1, RankScores
  <2>3. scores[r].boost \in Nat
    BY ScoresAreNumbers
  <2> QED
    BY <2>2, <2>3 DEF FusedScore, Fused
<1>8. IsFiniteSet(DOMAIN scores) /\ DOMAIN scores \subseteq Nat \X Nat
  BY ScoresAreNumbers, RowsOfSearch DEF Grounded
<1>9. IsFiniteSet(Candidates) /\ Candidates \subseteq Nat \X Nat
  BY <1>6, <1>8, FS_Subset
<1> DEFINE g == [r \in Candidates |-> FusedScore(r)]
<1>10. DOMAIN g = Candidates /\ \A r \in Candidates : g[r] \in Int
  BY <1>6, <1>7
<1> HIDE DEF g
<1>11. Scored(g)
  BY <1>9, <1>10 DEF Scored
<1> QED
  BY <1>6, <1>7, <1>11 DEF g

\* The hits are the best of the candidates.
LEMMA HitsAreRanked ==
  ASSUME SearchInv, Grounded, result = SearchResult(VectorCandidates, LexicalCandidates)
  PROVE  LET hits == Ranked([r \in Candidates |-> FusedScore(r)], request.top)
         IN /\ DOMAIN result.hits = DOMAIN hits
            /\ \A k \in DOMAIN hits : result.hits[k].row = hits[k]
<1> DEFINE hits == Ranked([r \in Candidates |-> FusedScore(r)], request.top)
<1>1. result.hits = [k \in DOMAIN hits |->
                       [row |-> hits[k], score |-> Fused(hits[k], VectorCandidates, LexicalCandidates)]]
  BY DEF SearchResult, FusedScore, Candidates
<1> HIDE DEF hits
<1>2. /\ DOMAIN result.hits = DOMAIN hits
      /\ \A k \in DOMAIN hits : result.hits[k].row = hits[k]
  BY <1>1
<1> QED
  BY <1>2 DEF hits

\* Who is ahead in both channels and boosted as much has the higher score.
LEMMA FusionFollowsBoth ==
  ASSUME SearchInv, Grounded, NEW a \in DOMAIN scores, NEW b \in Candidates,
         <<a, b>> \in ScoreOrder(Near),
         scores[b].lexical = 0 \/ <<a, b>> \in ScoreOrder(Lexical),
         scores[a].boost >= scores[b].boost
  PROVE  a \in Candidates /\ FusedScore(a) > FusedScore(b)
<1> DEFINE va == RankIn(VectorCandidates, a)
           vb == RankIn(VectorCandidates, b)
           la == RankIn(LexicalCandidates, a)
           lb == RankIn(LexicalCandidates, b)
<1>1. /\ Scored(Near) /\ Scored(Lexical) /\ Depth \in Nat
      /\ VectorCandidates = Ranked(Near, Depth) /\ LexicalCandidates = Ranked(Lexical, Depth)
  BY ChannelsAreScored, DepthIsNumber
<1>2. va \in Nat /\ vb \in Nat /\ la \in Nat /\ lb \in Nat
  BY <1>1, RanksAreNumbers
<1>3. vb # 0 => va \in 1 .. Depth /\ vb \in 1 .. Depth /\ va < vb
  BY <1>1, RanksFollowOrder
<1>4. lb # 0 => la \in 1 .. Depth /\ lb \in 1 .. Depth /\ la < lb
  <2> SUFFICES ASSUME lb # 0 PROVE la \in 1 .. Depth /\ lb \in 1 .. Depth /\ la < lb
    OBVIOUS
  <2>1. b \in DOMAIN Lexical
    BY <1>1, RankIsPlace
  <2>2. scores[b].lexical > 0
    BY <2>1 DEF Lexical
  <2>3. scores[b].lexical # 0
    BY <2>2
  <2> QED
    BY <1>1, <2>3, RanksFollowOrder
<1>5. vb # 0 \/ lb # 0
  BY <1>1, RankIsPlace DEF Candidates
<1>6. va # 0 => a \in Range(VectorCandidates)
  BY <1>1, RankIsPlace
<1>7. la # 0 => a \in Range(LexicalCandidates)
  BY <1>1, RankIsPlace
<1>8. b \in DOMAIN scores
  BY FusedAreNumbers
<1>9. scores[a].boost \in Nat /\ scores[b].boost \in Nat
  BY <1>8, ScoresAreNumbers
<1>10. /\ FusedScore(a) = RankScore(va) + RankScore(la) + scores[a].boost
       /\ FusedScore(b) = RankScore(vb) + RankScore(lb) + scores[b].boost
  BY DEF FusedScore, Fused
<1> HIDE DEF va, vb, la, lb
<1>11. a \in Candidates
  BY <1>2, <1>3, <1>4, <1>5, <1>6, <1>7 DEF Candidates
<1>12. /\ RankScore(va) \in Nat /\ RankScore(vb) \in Nat /\ RankScore(la) \in Nat /\ RankScore(lb) \in Nat
  BY <1>2, RankScores
<1>13. RankScore(0) = 0
  BY DEF RankScore
<1>14. vb # 0 => RankScore(vb) < RankScore(va)
  BY <1>1, <1>2, <1>3, RankScores
<1>15. lb # 0 => RankScore(lb) < RankScore(la)
  BY <1>1, <1>2, <1>4, RankScores
<1> DEFINE A == RankScore(va)
           B == RankScore(vb)
           C == RankScore(la)
           D == RankScore(lb)
           x == scores[a].boost
           y == scores[b].boost
<1>16. /\ A \in Nat /\ B \in Nat /\ C \in Nat /\ D \in Nat /\ x \in Nat /\ y \in Nat /\ x >= y
       /\ B < A \/ B = 0
       /\ D < C \/ D = 0
       /\ B < A \/ D < C
  BY <1>5, <1>9, <1>12, <1>13, <1>14, <1>15
<1> HIDE DEF A, B, C, D, x, y
<1>17. A + C + x > B + D + y
  BY <1>16
<1> QED
  BY <1>10, <1>11, <1>17 DEF A, B, C, D, x, y

LEMMA OrderIsKept ==
  ASSUME SearchInv PROVE AgreedOrderKept
<1> SUFFICES ASSUME result # None, NEW k \in DOMAIN result.hits, NEW a \in DOMAIN scores,
                    NEW b, b = result.hits[k].row, a # b,
                    \/ scores[a].near > scores[b].near
                    \/ scores[a].near = scores[b].near /\ Before(a, b),
                    \/ scores[b].lexical = 0
                    \/ scores[a].lexical > scores[b].lexical
                    \/ scores[a].lexical = scores[b].lexical /\ Before(a, b),
                    scores[a].boost >= scores[b].boost
             PROVE  \E h \in 1..(k - 1) : result.hits[h].row = a
  BY DEF AgreedOrderKept
<1> DEFINE g == [r \in Candidates |-> FusedScore(r)]
           top == request.top
           hits == Ranked(g, top)
           p(x) == Place(DOMAIN g, ScoreOrder(g), x)
<1>1. Grounded /\ result = SearchResult(VectorCandidates, LexicalCandidates)
  BY DEF SearchInv, ResultInv
<1>2. DOMAIN result.hits = DOMAIN hits /\ \A n \in DOMAIN hits : result.hits[n].row = hits[n]
  BY <1>1, HitsAreRanked
<1>3. Scored(g) /\ top \in Nat /\ Candidates \subseteq DOMAIN scores
  BY <1>1, FusedAreNumbers, DepthIsNumber
<1>4. DOMAIN g = Candidates
  OBVIOUS
<1>5. \A x, y \in Candidates : FusedScore(x) > FusedScore(y) => <<x, y>> \in ScoreOrder(g)
  BY DEF ScoreOrder
<1> HIDE DEF g, top
<1>6. /\ hits \in Seq(DOMAIN g)
      /\ \A n \in DOMAIN hits : n \in Nat \ {0} /\ n <= top
      /\ \A x \in DOMAIN g : \A n \in Nat \ {0} :
           (n \in DOMAIN hits /\ hits[n] = x) <=> (n <= top /\ p(x) = n - 1)
  <2>1. RanksPlaces(g, top)
    BY <1>3, RankedByPlace
  <2> QED
    BY <2>1 DEF RanksPlaces
<1> HIDE DEF hits, p
<1>7. k \in DOMAIN hits /\ hits[k] = b /\ b \in Candidates
  BY <1>2, <1>4, <1>6
<1>8. b \in DOMAIN scores
  BY <1>3, <1>7
<1>9. <<a, b>> \in ScoreOrder(Near)
  BY <1>8 DEF ScoreOrder, Near
<1>10. scores[b].lexical = 0 \/ <<a, b>> \in ScoreOrder(Lexical)
  <2> SUFFICES ASSUME scores[b].lexical # 0 PROVE <<a, b>> \in ScoreOrder(Lexical)
    OBVIOUS
  <2>1. scores[a].lexical \in Nat /\ scores[b].lexical \in Nat
    BY <1>1, <1>8, ScoresAreNumbers
  <2>2. a \in DOMAIN Lexical /\ b \in DOMAIN Lexical
    BY <1>8, <2>1 DEF Lexical
  <2> QED
    BY <2>2 DEF ScoreOrder, Lexical
<1>11. a \in Candidates /\ FusedScore(a) > FusedScore(b)
  BY <1>1, <1>7, <1>9, <1>10, FusionFollowsBoth
<1>12. <<a, b>> \in ScoreOrder(g)
  BY <1>5, <1>7, <1>11
<1>13. p(a) \in Nat /\ p(a) < p(b)
  <2>1. IsFiniteSet(DOMAIN g) /\ Orders(DOMAIN g, ScoreOrder(g)) /\ Cardinality(DOMAIN g) \in Nat
    BY <1>3, ScoresOrder, FS_CardinalityType DEF Scored
  <2> QED
    BY <1>4, <1>7, <1>11, <1>12, <2>1, PlacesRise DEF p
<1>14. k \in Nat \ {0} /\ k <= top /\ p(b) = k - 1
  BY <1>4, <1>6, <1>7
<1>15. p(a) + 1 \in 1 .. (k - 1) /\ p(a) + 1 <= top
  BY <1>3, <1>13, <1>14
<1>16. p(a) + 1 \in DOMAIN hits /\ hits[p(a) + 1] = a
  <2>1. p(a) + 1 \in Nat \ {0} /\ p(a) = (p(a) + 1) - 1
    BY <1>13
  <2>2. a \in DOMAIN g
    BY <1>4, <1>11
  <2> QED
    BY <1>6, <1>15, <2>1, <2>2
<1> QED
  BY <1>2, <1>15, <1>16

-----------------------------------------------------------------------------
(* Packs.                                                                  *)
LEMMA PartIsTaken ==
  ASSUME NEW seq, NEW places, IsFiniteSet(places), places \subseteq Int
  PROVE  Part(seq, places) \in Seq({seq[n] : n \in places})
<1> DEFINE kept == InOrder(places, <)
<1>1. kept \in Seq(places)
  BY PlacesListed
<1>2. Part(seq, places) = [k \in DOMAIN kept |-> seq[kept[k]]]
  BY DEF Part
<1> HIDE DEF kept
<1>3. DOMAIN kept = 1 .. Len(kept) /\ Len(kept) \in Nat /\ \A k \in DOMAIN kept : kept[k] \in places
  BY <1>1
<1> DEFINE f == [k \in 1 .. Len(kept) |-> seq[kept[k]]]
<1>4. f \in [1 .. Len(kept) -> {seq[n] : n \in places}]
  BY <1>3
<1>5. f = Part(seq, places)
  BY <1>2, <1>3
<1> HIDE DEF f
<1>6. f \in Seq({seq[n] : n \in places})
  BY <1>3, <1>4
<1> QED
  BY <1>5, <1>6

\* What a pack says of references is what the expansion found.
LEMMA PackedViews ==
  ASSUME NEW primaries, NEW ex, IsFiniteSet(DOMAIN ex.views), DOMAIN ex.views \subseteq Int,
         NEW p, p = EvidencePack(primaries, ex)
  PROVE  /\ p.primary = primaries
         /\ \A v \in Range(p.relations \o p.warnings) : \E n \in DOMAIN ex.views : v = ex.views[n]
<1> DEFINE A == {n \in DOMAIN ex.views : ex.views[n].claim.status = "resolved"}
           B == {n \in DOMAIN ex.views : ex.views[n].claim.status # "resolved"}
           V == {ex.views[n] : n \in DOMAIN ex.views}
<1>1. p.primary = primaries /\ p.relations = Part(ex.views, A) /\ p.warnings = Part(ex.views, B)
  BY DEF EvidencePack
<1>2. A \subseteq DOMAIN ex.views /\ B \subseteq DOMAIN ex.views
  OBVIOUS
<1> HIDE DEF A, B
<1>3. IsFiniteSet(A) /\ IsFiniteSet(B)
  BY <1>2, FS_Subset
<1>4. Part(ex.views, A) \in Seq({ex.views[n] : n \in A}) /\ Part(ex.views, B) \in Seq({ex.views[n] : n \in B})
  BY <1>2, <1>3, PartIsTaken
<1>5. {ex.views[n] : n \in A} \subseteq V /\ {ex.views[n] : n \in B} \subseteq V
  BY <1>2
<1> HIDE DEF V
<1>6. p.relations \in Seq(V) /\ p.warnings \in Seq(V)
  BY <1>1, <1>4, <1>5
<1>7. p.relations \o p.warnings \in Seq(V)
  BY <1>6, ConcatProperties
<1>8. \A c \in Seq(V) : \A v \in Range(c) : v \in V
  BY DEF Range
<1> QED
  BY <1>1, <1>7, <1>8 DEF V

\* The claims of the results are finitely many, when the results are of one KB.
LEMMA CitedAreFinite ==
  ASSUME SearchInv, Grounded, result = SearchResult(VectorCandidates, LexicalCandidates),
         request.mode # "corpus"
  PROVE  LET claims == Kb[context[Document]].claims
         IN IsFiniteSet(UNION {{k} \X DOMAIN claims[Primaries[k]] : k \in DOMAIN Primaries})
<1> DEFINE claims == Kb[context[Document]].claims
           hits == Ranked([r \in Candidates |-> FusedScore(r)], request.top)
           D(k) == DOMAIN claims[Primaries[k]]
           f == [k \in DOMAIN Primaries |-> {k} \X D(k)]
<1>1. DOMAIN result.hits = DOMAIN hits /\ \A k \in DOMAIN hits : result.hits[k].row = hits[k]
  BY HitsAreRanked
<1>2. hits \in Seq(Candidates)
  BY FusedAreNumbers, DepthIsNumber, RankedByPlace DEF RanksPlaces
<1> HIDE DEF hits
<1>3. DOMAIN hits = 1 .. Len(hits) /\ Len(hits) \in Nat /\ \A k \in DOMAIN hits : hits[k] \in Candidates
  BY <1>2
<1>4. DOMAIN Primaries = DOMAIN hits /\ \A k \in DOMAIN Primaries : Primaries[k] = hits[k][2]
  BY <1>1 DEF Primaries
<1>5. IsFiniteSet(DOMAIN Primaries)
  <2>1. \A n \in Nat : IsFiniteSet(1 .. n)
    BY FS_Interval
  <2> QED
    BY <1>3, <1>4, <2>1
<1>6. request.docs = {Document}
  <2>1. Cardinality(request.docs) = 1 /\ IsFiniteSet(request.docs)
    BY SearchAssumption DEF SearchInv, FilesInv
  <2>2. PICK d : request.docs = {d}
    BY <2>1, FS_Singleton
  <2> QED
    BY <2>2 DEF Document
<1>7. ASSUME NEW k \in DOMAIN Primaries PROVE IsFiniteSet(D(k))
  <2>1. hits[k] \in Rows
    BY <1>3, <1>4, FusedAreNumbers, ScoresAreNumbers, RowsOfSearch DEF Grounded
  <2>2. hits[k][1] = Document /\ Primaries[k] \in DOMAIN Kb[loaded[Document].kb].facts
    BY <1>4, <1>6, <2>1, RowsOfSearch DEF Grounded
  <2>3. KbIsWhole(Kb[loaded[Document].kb]) /\ context[Document] = loaded[Document].kb
    BY <1>6, KbsAreWhole DEF SearchInv, LoadedInv, Grounded
  <2>4. PICK m \in Nat : D(k) = 1 .. m
    BY <2>2, <2>3 DEF KbIsWhole
  <2> QED
    BY <2>4, FS_Interval
<1> HIDE DEF D
<1>8. \A k \in DOMAIN Primaries : IsFiniteSet({k} \X D(k))
  BY <1>7, FS_Product, FS_Singleton
<1>9. \A k \in DOMAIN Primaries : f[k] = {k} \X D(k)
  OBVIOUS
<1>10. {f[k] : k \in DOMAIN Primaries} = {{k} \X D(k) : k \in DOMAIN Primaries}
  BY <1>9
<1> HIDE DEF f
<1>11. IsFiniteSet(UNION {f[k] : k \in DOMAIN Primaries})
  BY <1>5, <1>8, <1>9, FiniteFamily
<1> QED
  BY <1>10, <1>11 DEF D

LEMMA ExpandedViews ==
  ASSUME NEW claims, NEW primaries,
         IsFiniteSet(UNION {{k} \X DOMAIN claims[primaries[k]] : k \in DOMAIN primaries}),
         NEW ex, ex = ExpandReferences(claims, primaries)
  PROVE  /\ IsFiniteSet(DOMAIN ex.views) /\ DOMAIN ex.views \subseteq Int
         /\ \A n \in DOMAIN ex.views : ex.views[n].claim = claims[primaries[ex.views[n].rank]][ex.views[n].place]
<1> DEFINE X == UNION {{k} \X DOMAIN claims[primaries[k]] : k \in DOMAIN primaries}
           View(k, c) == [rank |-> k, place |-> c, claim |-> claims[primaries[k]][c],
                     disposition |-> Disposition(claims[primaries[k]][c], primaries),
                     at |-> RankIn(primaries, claims[primaries[k]][c].target)]
           cited == InOrder(X, Before)
<1>1. ex.views = [n \in DOMAIN cited |-> View(cited[n][1], cited[n][2])]
  BY DEF ExpandReferences
<1>2. DOMAIN cited = 1 .. Cardinality(X)
  BY DEF InOrder
<1>3. Cardinality(X) \in Nat
  BY FS_CardinalityType
<1> HIDE DEF cited, X
<1>4. IsFiniteSet(DOMAIN cited) /\ DOMAIN cited \subseteq Int
  BY <1>2, <1>3, FS_Interval
<1>5. DOMAIN ex.views = DOMAIN cited /\ \A n \in DOMAIN cited : ex.views[n] = View(cited[n][1], cited[n][2])
  BY <1>1
<1>6. \A k, c : /\ View(k, c).rank = k /\ View(k, c).place = c
                /\ View(k, c).claim = claims[primaries[k]][c]
  OBVIOUS
<1> HIDE DEF View
<1>7. \A n \in DOMAIN cited : ex.views[n].claim = claims[primaries[ex.views[n].rank]][ex.views[n].place]
  BY <1>5, <1>6
<1> QED
  BY <1>4, <1>5, <1>7

LEMMA PackIsOfKb ==
  ASSUME SearchInv, result # None, NEW ex, NEW p, p = EvidencePack(Primaries, ex),
         \/ stage = "expanded" /\ ex = expansion
         \/ ex = NoReferences
  PROVE  ClaimsOfKb(p)
<1>1. Grounded /\ result = SearchResult(VectorCandidates, LexicalCandidates)
  BY DEF SearchInv, ResultInv
<1>2. CASE ex = NoReferences
  <2>1. ex.views = <<>>
    BY <1>2 DEF NoReferences
  <2>2. DOMAIN ex.views = {}
    BY <2>1
  <2>3. \A v \in Range(p.relations \o p.warnings) : FALSE
    BY <2>2, PackedViews, FS_EmptySet
  <2> QED
    BY <2>3 DEF ClaimsOfKb
<1>3. CASE stage = "expanded" /\ ex = expansion
  <2> DEFINE claims == Kb[context[Document]].claims
  <2>1. request.mode # "corpus" /\ ex = ExpandReferences(claims, Primaries)
    BY <1>3 DEF SearchInv, StageInv, ExpansionInv
  <2>2. IsFiniteSet(UNION {{k} \X DOMAIN claims[Primaries[k]] : k \in DOMAIN Primaries})
    BY <1>1, <2>1, CitedAreFinite
  <2>3. claims = Kb[loaded[Document].kb].claims
    <3>1. Cardinality(request.docs) = 1 /\ IsFiniteSet(request.docs)
      BY <2>1, SearchAssumption DEF SearchInv, FilesInv
    <3>2. Document \in request.docs
      BY <3>1, FS_Singleton DEF Document
    <3> QED
      BY <1>1, <3>2 DEF SearchInv, LoadedInv, Grounded
  <2> HIDE DEF claims
  <2>4. /\ IsFiniteSet(DOMAIN ex.views) /\ DOMAIN ex.views \subseteq Int
        /\ \A n \in DOMAIN ex.views : ex.views[n].claim = claims[Primaries[ex.views[n].rank]][ex.views[n].place]
    BY <2>1, <2>2, ExpandedViews
  <2>5. /\ p.primary = Primaries
        /\ \A v \in Range(p.relations \o p.warnings) : \E n \in DOMAIN ex.views : v = ex.views[n]
    BY <2>4, PackedViews
  <2>6. \A v \in Range(p.relations \o p.warnings) : claims[p.primary[v.rank]][v.place] = v.claim
    BY <2>4, <2>5
  <2> QED
    BY <2>3, <2>6 DEF ClaimsOfKb
<1> QED
  BY <1>2, <1>3

LEMMA EvidencePacked ==
  ASSUME SearchInv, Pack PROVE SearchInv'
<1> DEFINE ex == IF stage = "expanded" THEN expansion ELSE NoReferences
           p == EvidencePack(Primaries, ex)
<1>1. pack = None
  BY DEF SearchInv, StageInv, Pack
<1>2. CASE ~ ExpansionBound(ex) \/ ~ PackReconciles(p)
  BY <1>1, <1>2, Refused DEF Pack
<1>3. CASE ~ (~ ExpansionBound(ex) \/ ~ PackReconciles(p))
  <2>1. /\ pack' = p /\ stage' = "packed"
        /\ UNCHANGED <<kb, index, request, refusal, loaded, context, scores, result, expansion>>
    BY <1>3 DEF Pack
  <2>2. /\ Grounded' = Grounded /\ LoadedInv' = LoadedInv /\ ResultInv' = ResultInv
        /\ Document' = Document
    BY <2>1, SearchUndisturbed
  <2>3. FilesInv'
    BY <2>1, FilesUntouched
  <2>4. StageInv' /\ ExpansionInv'
    BY <2>1 DEF StageInv, ExpansionInv
  <2>5. result # None => ClaimsOfKb(p)
    BY PackIsOfKb
  <2> HIDE DEF p
  <2>6. PackInv'
    BY <2>1, <2>2, <2>5 DEF PackInv, ClaimsOfKb
  <2> QED
    BY <2>2, <2>3, <2>4, <2>6 DEF SearchInv
<1> QED
  BY <1>2, <1>3

LEMMA SearchInvStep == SearchInv /\ [SearchNext]_searchVars => SearchInv'
<1> SUFFICES ASSUME SearchInv, [SearchNext]_searchVars PROVE SearchInv'
  OBVIOUS
<1>1. ASSUME NEW d \in request.docs, WriteKb(d) \/ BuildIndex(d) PROVE SearchInv'
  BY <1>1, FilesRewritten
<1>2. ASSUME NEW d \in request.docs, LoadIndex(d) PROVE SearchInv'
  BY <1>2, IndexLoaded
<1>3. ASSUME NEW d \in request.docs, LoadFreshIndexContext(d) PROVE SearchInv'
  BY <1>3, ContextLoaded
<1>4. CASE Ask
  BY <1>4, Asked
<1>5. CASE ScoreRows
  BY <1>5, RowsScored
<1>6. CASE Search
  BY <1>6, RowsRanked
<1>7. CASE Expand
  BY <1>7, ReferencesExpanded
<1>8. CASE Pack
  BY <1>8, EvidencePacked
<1>9. CASE UNCHANGED searchVars
  BY <1>9, SearchMovesOn, FilesUntouched DEF searchVars
<1> QED
  BY <1>1, <1>2, <1>3, <1>4, <1>5, <1>6, <1>7, <1>8, <1>9 DEF SearchNext

LEMMA SearchInvariant == SearchSpec => []SearchInv
BY SearchInvInit, SearchInvStep, PTL DEF SearchSpec

\* Whatever is rewritten while a search reads: the rows it ranked and the
\* references it followed are of one KB, which passed its quality gate, and of
\* the provider that embedded the query (corpus_search.py, retrieval/*.py).
THEOREM EvidenceIsOfOneKb == SearchSpec => []EvidenceOfOneKb
<1>1. SearchInv => EvidenceOfOneKb
  BY DEF SearchInv, LoadedInv, ResultInv, PackInv, Grounded, ClaimsOfKb, EvidenceOfOneKb
<1> QED
  BY <1>1, SearchInvariant, PTL

\* Fusion never turns an order around on which both channels and the scope
\* agree, for every set of rows, score, filter, depth and constant
\* (retrieval/hybrid_search.py).
THEOREM AgreedOrderIsKept == SearchSpec => []AgreedOrderKept
<1>1. SearchInv => AgreedOrderKept
  BY OrderIsKept
<1> QED
  BY <1>1, SearchInvariant, PTL

LEMMA FiniteRange ==
  ASSUME NEW n \in Nat PROVE IsFiniteSet(1 .. n) /\ Cardinality(1 .. n) = n
BY FS_Interval

LEMMA DisjointCounted ==
  ASSUME NEW A, NEW B, IsFiniteSet(A), IsFiniteSet(B), A \cap B = {}
  PROVE  IsFiniteSet(A \cup B) /\ Cardinality(A \cup B) = Cardinality(A) + Cardinality(B)
<1>1. Cardinality(A \cap B) = 0
  BY FS_EmptySet
<1>2. IsFiniteSet(A \cup B) /\ Cardinality(A \cup B) = Cardinality(A) + Cardinality(B) - Cardinality(A \cap B)
  BY FS_Union
<1>3. Cardinality(A) \in Nat /\ Cardinality(B) \in Nat
  BY FS_CardinalityType
<1> QED
  BY <1>1, <1>2, <1>3

LEMMA LeastOfFinite ==
  ASSUME NEW S, IsFiniteSet(S), S \subseteq Int, S # {}
  PROVE  \E x \in S : \A y \in S : x <= y
<1> DEFINE f == InOrder(S, <)
<1>1. /\ Cardinality(S) \in Nat /\ DOMAIN f = 1 .. Cardinality(S)
      /\ Enumerates(f, S, IntOrder(S))
  BY PlacesListed
<1>2. Cardinality(S) # 0
  BY FS_EmptySet
<1> HIDE DEF f
<1>3. 1 \in DOMAIN f
  BY <1>1, <1>2
<1>4. f[1] \in S
  BY <1>1, <1>3 DEF Enumerates
<1>5. ASSUME NEW y \in S PROVE f[1] <= y
  <2>1. PICK k \in DOMAIN f : f[k] = y
    BY <1>1 DEF Enumerates
  <2>2. k = 1 \/ 1 < k
    BY <1>1
  <2>3. 1 < k => <<f[1], f[k]>> \in IntOrder(S)
    BY <1>1, <1>3 DEF Enumerates
  <2>4. 1 < k => f[1] < f[k]
    BY <2>3 DEF IntOrder
  <2>5. f[1] \in Int /\ y \in Int
    BY <1>4
  <2> QED
    BY <2>1, <2>2, <2>4, <2>5
<1> QED
  BY <1>4, <1>5

\* Every reference is met for the first time.
LEMMA FirstReferencesCover ==
  ASSUME NEW refs, refs \in Seq(Range(refs)), NEW h \in DOMAIN refs
  PROVE  LET first == InOrder(FirstReferences(refs), <)
         IN \E k \in DOMAIN first : refs[first[k]] = refs[h]
<1> DEFINE S == FirstReferences(refs)
           first == InOrder(S, <)
           T == {g \in DOMAIN refs : refs[g] = refs[h]}
<1>1. DOMAIN refs = 1 .. Len(refs) /\ Len(refs) \in Nat
  OBVIOUS
<1>2. IsFiniteSet(DOMAIN refs)
  BY <1>1, FS_Interval
<1>3. S \subseteq DOMAIN refs
  BY DEF FirstReferences
<1>4. IsFiniteSet(S) /\ S \subseteq Int
  BY <1>1, <1>2, <1>3, FS_Subset
<1>5. T \subseteq DOMAIN refs /\ T # {}
  OBVIOUS
<1>6. IsFiniteSet(T) /\ T \subseteq Int
  BY <1>1, <1>2, <1>5, FS_Subset
<1> HIDE DEF T
<1>7. PICK g \in T : \A x \in T : g <= x
  BY <1>5, <1>6, LeastOfFinite
<1>8. g \in DOMAIN refs /\ refs[g] = refs[h]
  BY DEF T
<1>9. \A x \in 1..(g - 1) : refs[x] # refs[g]
  <2> SUFFICES ASSUME NEW x \in 1..(g - 1), refs[x] = refs[g] PROVE FALSE
    OBVIOUS
  <2>1. x \in DOMAIN refs /\ x < g /\ g \in Int
    BY <1>1, <1>8
  <2>2. x \in T
    BY <1>8, <2>1 DEF T
  <2> QED
    BY <1>7, <2>1, <2>2
<1>10. g \in S
  BY <1>8, <1>9 DEF FirstReferences
<1> HIDE DEF S
<1>11. Enumerates(first, S, IntOrder(S))
  BY <1>4, PlacesListed
<1> HIDE DEF first
<1>12. \E k \in DOMAIN first : first[k] = g
  BY <1>10, <1>11 DEF Enumerates
<1> QED
  BY <1>8, <1>12 DEF first, S

\* The claims of a text are those of its references, each once.
ClaimsFollow(cs, claims) ==
  /\ DOMAIN claims = DOMAIN cs
  /\ \A i \in DOMAIN cs : \E m \in Nat : DOMAIN claims[i] = 1 .. m
  /\ \A i \in DOMAIN cs : \A c \in DOMAIN claims[i] :
       \E ref \in Range(cs[i].refs) : claims[i][c] = Claim(cs, i, ref)
  /\ \A i \in DOMAIN cs : \A ref \in Range(cs[i].refs) :
       \E c \in DOMAIN claims[i] : claims[i][c] = Claim(cs, i, ref)
  /\ \A i \in DOMAIN cs : \A c, d \in DOMAIN claims[i] :
       ReferenceOf(claims[i][c]) = ReferenceOf(claims[i][d]) => c = d

LEMMA ClaimsOfList ==
  ASSUME NEW cs, NEW n \in Nat, DOMAIN cs = 1 .. n,
         \A i \in DOMAIN cs :
           /\ cs[i].refs \in Seq(Range(cs[i].refs))
           /\ \A ref \in Range(cs[i].refs) :
                ref = [label |-> ref.label, key |-> ref.key, direction |-> ref.direction]
  PROVE  ClaimsFollow(cs, ClassifyReferenceClaims(cs))
<1> DEFINE claims == ClassifyReferenceClaims(cs)
<1>1. DOMAIN claims = DOMAIN cs
  BY DEF ClassifyReferenceClaims
<1>2. ASSUME NEW i \in DOMAIN cs
      PROVE  /\ \E m \in Nat : DOMAIN claims[i] = 1 .. m
             /\ \A c \in DOMAIN claims[i] : \E ref \in Range(cs[i].refs) : claims[i][c] = Claim(cs, i, ref)
             /\ \A ref \in Range(cs[i].refs) : \E c \in DOMAIN claims[i] : claims[i][c] = Claim(cs, i, ref)
             /\ \A c, d \in DOMAIN claims[i] :
                  ReferenceOf(claims[i][c]) = ReferenceOf(claims[i][d]) => c = d
  <2> DEFINE refs == cs[i].refs
             first == InOrder(FirstReferences(refs), <)
  <2>1. claims[i] = [k \in 1..Len(first) |-> Claim(cs, i, refs[first[k]])]
    BY DEF ClassifyReferenceClaims, FirstReferences
  <2>2. /\ refs \in Seq(Range(refs))
        /\ \A ref \in Range(refs) : ref = [label |-> ref.label, key |-> ref.key, direction |-> ref.direction]
    OBVIOUS
  <2> HIDE DEF refs
  <2>3. /\ Len(first) \in Nat /\ DOMAIN first = 1 .. Len(first)
        /\ \A k \in DOMAIN first : first[k] \in DOMAIN refs
        /\ \A k, l \in DOMAIN first : refs[first[k]] = refs[first[l]] => k = l
    BY <2>2, FirstReferencesDiffer
  <2>4. \A h \in DOMAIN refs : \E k \in DOMAIN first : refs[first[k]] = refs[h]
    BY <2>2, FirstReferencesCover
  <2>5. \A ref : ReferenceOf(Claim(cs, i, ref)) = <<ref.label, ref.key, ref.direction>>
    BY ClaimsOfChunk
  <2> HIDE DEF first, claims
  <2>6. DOMAIN claims[i] = DOMAIN first /\ \A k \in DOMAIN first : claims[i][k] = Claim(cs, i, refs[first[k]])
    BY <2>1, <2>3
  <2>7. \A k \in DOMAIN first : refs[first[k]] \in Range(refs)
    BY <2>3 DEF Range
  <2>8. \A c \in DOMAIN claims[i] : \E ref \in Range(refs) : claims[i][c] = Claim(cs, i, ref)
    BY <2>6, <2>7
  <2>9. \A ref \in Range(refs) : \E h \in DOMAIN refs : refs[h] = ref
    BY DEF Range
  <2>10. \A ref \in Range(refs) : \E c \in DOMAIN claims[i] : claims[i][c] = Claim(cs, i, ref)
    BY <2>4, <2>6, <2>9
  <2>11. ASSUME NEW c \in DOMAIN first, NEW d \in DOMAIN first,
                ReferenceOf(claims[i][c]) = ReferenceOf(claims[i][d])
         PROVE  c = d
    <3> DEFINE r == refs[first[c]]
               s == refs[first[d]]
    <3>1. <<r.label, r.key, r.direction>> = <<s.label, s.key, s.direction>>
      BY <2>5, <2>6, <2>11
    <3>2. /\ r = [label |-> r.label, key |-> r.key, direction |-> r.direction]
          /\ s = [label |-> s.label, key |-> s.key, direction |-> s.direction]
      BY <2>2, <2>7
    <3> HIDE DEF r, s
    <3>3. r.label = s.label /\ r.key = s.key /\ r.direction = s.direction
      BY <3>1
    <3>4. r = s
      BY <3>2, <3>3
    <3> QED
      BY <2>3, <3>4 DEF r, s
  <2>12. \E m \in Nat : DOMAIN claims[i] = 1 .. m
    BY <2>3, <2>6
  <2> QED
    BY <2>6, <2>8, <2>10, <2>11, <2>12 DEF refs
<1> HIDE DEF claims
<1> QED
  BY <1>1, <1>2 DEF claims, ClaimsFollow

LEMMA ClaimsFollowWhole ==
  ASSUME NEW cs, NEW n \in Nat, DOMAIN cs = 1 .. n, NEW k,
         DOMAIN k.facts = DOMAIN cs, ClaimsFollow(cs, k.claims)
  PROVE  ClaimsAreWhole(k)
<1>1. \A i \in DOMAIN cs : \A ref : ClaimIsWhole(Claim(cs, i, ref), i, DOMAIN cs)
  BY ClaimsOfChunk
<1>2. \A i \in DOMAIN k.claims : \A c \in DOMAIN k.claims[i] :
        ClaimIsWhole(k.claims[i][c], i, DOMAIN k.facts)
  BY <1>1 DEF ClaimsFollow
<1>3. \A i \in DOMAIN k.claims : \A c, d \in DOMAIN k.claims[i] :
        ReferenceOf(k.claims[i][c]) = ReferenceOf(k.claims[i][d]) => c = d
  BY DEF ClaimsFollow
<1> QED
  BY <1>2, <1>3 DEF ClaimsAreWhole

\* What a build derives of a file.
Kept(p) == FilterChunks(Chunks[p])

LEMMA ChunksKept ==
  ASSUME NEW p \in Pdfs
  PROVE  /\ Cardinality(Informative(Chunks[p])) \in Nat
         /\ DOMAIN Kept(p) = 1 .. Cardinality(Informative(Chunks[p]))
         /\ DOMAIN Kb[p].facts = DOMAIN Kept(p)
         /\ \A i \in DOMAIN Kept(p) :
              /\ Kept(p)[i].refs \in Seq(Range(Kept(p)[i].refs))
              /\ \A ref \in Range(Kept(p)[i].refs) :
                   ref = [label |-> ref.label, key |-> ref.key, direction |-> ref.direction]
<1> DEFINE raw == Chunks[p]
           cs == Kept(p)
           n == Cardinality(Informative(raw))
<1>1. /\ raw \in Seq(Range(raw))
      /\ \A c \in Range(raw) :
           /\ c.refs \in Seq(Range(c.refs)) /\ {"text", "refs", "near", "terms"} \subseteq DOMAIN c
           /\ \A ref \in Range(c.refs) :
                ref = [label |-> ref.label, key |-> ref.key, direction |-> ref.direction]
  BY SearchAssumption
<1>2. /\ n \in Nat /\ DOMAIN cs = 1 .. n
      /\ \A k \in DOMAIN cs : \E c \in Range(raw) :
           \A f \in {"text", "refs", "near", "terms"} : cs[k][f] = c[f]
  BY <1>1, FilteredChunks DEF Kept
<1>3. DOMAIN Kb[p].facts = DOMAIN Kept(p)
  BY DEF Kb, BuildDocumentKb, Kept
<1> HIDE DEF raw, cs, n
<1>4. ASSUME NEW k \in DOMAIN cs
      PROVE  /\ cs[k].refs \in Seq(Range(cs[k].refs))
             /\ \A ref \in Range(cs[k].refs) :
                  ref = [label |-> ref.label, key |-> ref.key, direction |-> ref.direction]
  <2>1. PICK c \in Range(raw) : \A f \in {"text", "refs", "near", "terms"} : cs[k][f] = c[f]
    BY <1>2
  <2>2. cs[k].refs = c.refs
    BY <2>1
  <2> QED
    BY <1>1, <2>2
<1> QED
  BY <1>2, <1>3, <1>4 DEF cs, n, raw

LEMMA ClaimsOfKbs ==
  ASSUME NEW p \in Pdfs PROVE ClaimsFollow(Kept(p), Kb[p].claims) /\ ClaimsAreWhole(Kb[p])
<1>1. Kb[p].claims = ClassifyReferenceClaims(Kept(p))
  BY DEF Kb, BuildDocumentKb, Kept
<1>2. ClaimsFollow(Kept(p), Kb[p].claims)
  BY <1>1, ChunksKept, ClaimsOfList
<1> QED
  BY <1>2, ChunksKept, ClaimsFollowWhole

LEMMA NoneLetThrough ==
  ASSUME NEW S, IsFiniteSet(S), NEW limit, limit = 0, Within(Cardinality(S), limit)
  PROVE  S = {}
<1>1. 0 # None
  <2>1. None \notin Nat
    BY SearchAssumption
  <2> QED
    BY <2>1
<1>2. Cardinality(S) \in Nat /\ Cardinality(S) <= 0
  BY <1>1, FS_CardinalityType DEF Within
<1>3. Cardinality(S) = 0
  BY <1>2
<1> QED
  BY <1>3, FS_EmptySet

\* The quality gate lets no fact through that has no page or no path.
LEMMA FactsHaveSources ==
  ASSUME NEW p \in Pdfs, Kb[p].passed, NEW i \in DOMAIN Kb[p].facts
  PROVE  Kb[p].facts[i].pages # {} /\ Kb[p].facts[i].path # {}
<1> DEFINE facts == Kb[p].facts
           S == {j \in DOMAIN facts : facts[j].pages = {}}
           T == {j \in DOMAIN facts : facts[j].path = {}}
<1>1. Within(Cardinality(S), Limits.pages) /\ Within(Cardinality(T), Limits.paths)
  BY DEF Kb, BuildDocumentKb, QualityGate
<1>2. IsFiniteSet(DOMAIN facts)
  <2>1. PICK n \in Nat : DOMAIN facts = 1 .. n
    BY ChunksKept
  <2> QED
    BY <2>1, FiniteRange
<1>3. IsFiniteSet(S) /\ IsFiniteSet(T)
  BY <1>2, FS_Subset
<1> HIDE DEF S, T
<1>4. S = {} /\ T = {}
  BY <1>1, <1>3, NoneLetThrough, SearchAssumption
<1> QED
  BY <1>4 DEF S, T

\* A fact is an informative chunk, and those have text.
LEMMA FactsHaveText ==
  ASSUME NEW p \in Pdfs, NEW i \in DOMAIN Kb[p].facts PROVE Kb[p].facts[i].text # ""
<1> DEFINE raw == Chunks[p]
           cs == Kept(p)
           context_ == ActiveContext(cs)
<1>1. /\ raw \in Seq(Range(raw))
      /\ \A c \in Range(raw) : {"text", "refs", "near", "terms"} \subseteq DOMAIN c
      /\ \A c \in Range(raw) : c.class = "informative" => c.text # ""
  BY SearchAssumption
<1>2. Kb[p].facts = [j \in DOMAIN cs |-> Fact(cs[j], context_[j])]
  BY DEF Kb, BuildDocumentKb, Kept
<1> HIDE DEF context_
<1>3. PICK c \in Range(raw) :
        c.class = "informative" /\ \A f \in {"text", "refs", "near", "terms"} : cs[i][f] = c[f]
  BY <1>1, <1>2, FilteredChunks DEF Kept
<1>4. Kb[p].facts[i].text = cs[i].text /\ cs[i].text = c.text
  BY <1>2, <1>3 DEF Fact
<1> QED
  BY <1>1, <1>3, <1>4

LEMMA DiagnosticsHold ==
  ASSUME NEW p \in Pdfs PROVE DiagnosticsReconcile(Kb[p])
<1> DEFINE raw == Chunks[p]
           A == Informative(raw)
           B == Merged(raw)
           C == Dropped(raw)
           k == Kb[p]
<1>1. /\ k.input = Len(raw) /\ k.dropped = Cardinality(C) /\ k.merged = Cardinality(B)
      /\ k.links = Cardinality(ClaimsWith(k.claims, "resolved"))
  BY DEF Kb, BuildDocumentKb
<1>2. DOMAIN raw = 1 .. Len(raw) /\ Len(raw) \in Nat
  <2>1. raw \in Seq(Range(raw))
    BY SearchAssumption
  <2> QED
    BY <2>1
<1>3. /\ A \subseteq DOMAIN raw /\ B \subseteq DOMAIN raw /\ A \cap B = {}
      /\ C = DOMAIN raw \ (A \cup B)
  BY DEF Informative, Merged, Headings, Dropped
<1>4. IsFiniteSet(DOMAIN raw) /\ Cardinality(DOMAIN raw) = Len(raw)
  <2>1. \A n \in Nat : IsFiniteSet(1 .. n) /\ Cardinality(1 .. n) = n
    BY FS_Interval
  <2> QED
    BY <1>2, <2>1
<1> HIDE DEF raw, A, B, C
<1>5. IsFiniteSet(A) /\ IsFiniteSet(B) /\ IsFiniteSet(C)
  BY <1>3, <1>4, FS_Subset
<1>6. Cardinality(A \cup B) = Cardinality(A) + Cardinality(B)
  BY <1>3, <1>5, DisjointCounted
<1>7. Cardinality(DOMAIN raw) = Cardinality(A \cup B) + Cardinality(C)
  <2>1. DOMAIN raw = (A \cup B) \cup C /\ (A \cup B) \cap C = {}
    BY <1>3
  <2>2. IsFiniteSet(A \cup B)
    BY <1>5, FS_Union
  <2> QED
    BY <1>5, <2>1, <2>2, DisjointCounted
<1>8. Len(k.facts) = Cardinality(A)
  <2>1. Cardinality(A) \in Nat /\ DOMAIN k.facts = 1 .. Cardinality(A)
    BY ChunksKept DEF A, raw
  <2>2. k.facts = [i \in DOMAIN k.facts |-> k.facts[i]]
    BY DEF Kb, BuildDocumentKb
  <2> HIDE DEF k
  <2>3. k.facts \in Seq({k.facts[i] : i \in DOMAIN k.facts})
    BY <2>1, <2>2
  <2> QED
    BY <2>1, <2>3
<1> QED
  BY <1>1, <1>4, <1>5, <1>6, <1>7, <1>8, FS_CardinalityType DEF DiagnosticsReconcile

\* What is ranked is ranked once, in the order, and as far as the depth goes.
LEMMA RankedLists ==
  ASSUME NEW score, Scored(score), NEW depth \in Nat,
         NEW ranking, ranking = Ranked(score, depth)
  PROVE  /\ ranking \in Seq(DOMAIN score) /\ Len(ranking) \in Nat
         /\ DOMAIN ranking = 1 .. Len(ranking)
         /\ Len(ranking) = Min({depth, Cardinality(DOMAIN score)})
         /\ Len(ranking) <= depth /\ Len(ranking) <= Cardinality(DOMAIN score)
         /\ \A j, k \in DOMAIN ranking : ranking[j] = ranking[k] => j = k
         /\ \A k \in DOMAIN ranking : k > 1 => <<ranking[k - 1], ranking[k]>> \in ScoreOrder(score)
<1> DEFINE S == DOMAIN score
           R == ScoreOrder(score)
<1>1. /\ IsFiniteSet(S) /\ Orders(S, R) /\ Cardinality(S) \in Nat
      /\ \A x \in S : Place(S, R, x) \in Nat
  <2>1. IsFiniteSet(S) /\ Orders(S, R) /\ Cardinality(S) \in Nat
    BY ScoresOrder, FS_CardinalityType DEF Scored
  <2> QED
    BY <2>1, PlacesRise
<1>2. /\ ranking \in Seq(S)
      /\ \A k \in DOMAIN ranking : k \in Nat \ {0} /\ k <= depth
      /\ \A x \in S : \A k \in Nat \ {0} :
           (k \in DOMAIN ranking /\ ranking[k] = x) <=> (k <= depth /\ Place(S, R, x) = k - 1)
  BY RankedByPlace DEF RanksPlaces
<1>3. Len(ranking) = Min({depth, Cardinality(S)})
  <2> DEFINE A(r, s) == score[r] > score[s] \/ (score[r] = score[s] /\ Before(r, s))
             E(k) == CHOOSE x \in S : Cardinality({y \in S : A(y, x)}) = k - 1
             f == [k \in 1 .. Cardinality(S) |-> E(k)]
             n == Min({depth, Len(f)})
  <2>1. ranking = SubSeq(f, 1, n)
    BY DEF Ranked, InOrder
  <2> HIDE DEF E
  <2>2. f \in Seq({E(k) : k \in 1 .. Cardinality(S)}) /\ Len(f) = Cardinality(S)
    BY <1>1
  <2> HIDE DEF f
  <2>3. n \in Nat /\ n <= Len(f)
    BY <1>1, <2>2, MinOfTwo
  <2> HIDE DEF n
  <2>4. Len(SubSeq(f, 1, n)) = n
    BY <2>2, <2>3
  <2> QED
    BY <2>1, <2>2, <2>4 DEF n
<1>4. Len(ranking) \in Nat /\ Len(ranking) <= depth /\ Len(ranking) <= Cardinality(S)
  BY <1>1, <1>3, MinOfTwo
<1>5. DOMAIN ranking = 1 .. Len(ranking) /\ \A k \in DOMAIN ranking : ranking[k] \in S
  BY <1>2
<1>6. \A k \in DOMAIN ranking : k \in Nat \ {0} /\ Place(S, R, ranking[k]) = k - 1
  BY <1>2, <1>5
<1> HIDE DEF S, R
<1>7. \A j, k \in DOMAIN ranking : ranking[j] = ranking[k] => j = k
  <2> SUFFICES ASSUME NEW j \in DOMAIN ranking, NEW k \in DOMAIN ranking, ranking[j] = ranking[k]
               PROVE  j = k
    OBVIOUS
  <2>1. j - 1 = k - 1 /\ j \in Nat /\ k \in Nat
    BY <1>6
  <2> QED
    BY <2>1
<1>8. ASSUME NEW k \in DOMAIN ranking, k > 1 PROVE <<ranking[k - 1], ranking[k]>> \in R
  <2>1. k - 1 \in DOMAIN ranking /\ k \in Int
    BY <1>4, <1>5, <1>8
  <2>2. Place(S, R, ranking[k - 1]) = (k - 1) - 1 /\ Place(S, R, ranking[k]) = k - 1
    BY <1>6, <2>1
  <2>3. Place(S, R, ranking[k - 1]) < Place(S, R, ranking[k])
    BY <2>1, <2>2
  <2> QED
    BY <1>1, <1>5, <2>1, <2>3, PlacesRise
<1> QED
  BY <1>2, <1>3, <1>4, <1>5, <1>7, <1>8 DEF S, R

LEMMA ChannelsHold ==
  ASSUME SearchInv, Grounded
  PROVE  /\ ChannelAccepted(VectorCandidates) /\ ChannelAccepted(LexicalCandidates)
         /\ Len(VectorCandidates) \in Nat /\ Len(LexicalCandidates) \in Nat
         /\ Len(VectorCandidates) <= Cardinality(DOMAIN scores)
         /\ Len(LexicalCandidates) <= Cardinality(DOMAIN scores)
         /\ DOMAIN VectorCandidates = 1 .. Len(VectorCandidates)
         /\ DOMAIN LexicalCandidates = 1 .. Len(LexicalCandidates)
<1>1. /\ Scored(Near) /\ Scored(Lexical) /\ Depth \in Nat
      /\ VectorCandidates = Ranked(Near, Depth) /\ LexicalCandidates = Ranked(Lexical, Depth)
  BY ChannelsAreScored, DepthIsNumber
<1>2. DOMAIN Near = DOMAIN scores /\ DOMAIN Lexical \subseteq DOMAIN scores
  BY DEF Near, Lexical
<1>3. DOMAIN scores = EligibleRows /\ IsFiniteSet(EligibleRows)
  BY ScoresAreNumbers, RowsOfSearch DEF Grounded
<1>4. Cardinality(DOMAIN Lexical) <= Cardinality(DOMAIN scores)
      /\ Cardinality(DOMAIN Lexical) \in Nat /\ Cardinality(DOMAIN scores) \in Nat
  BY <1>2, <1>3, FS_Subset, FS_CardinalityType
<1>5. ASSUME NEW score, Scored(score), DOMAIN score \subseteq EligibleRows,
             NEW channel, channel = Ranked(score, Depth)
      PROVE  /\ ChannelAccepted(channel) /\ Len(channel) \in Nat
             /\ DOMAIN channel = 1 .. Len(channel)
             /\ Len(channel) <= Cardinality(DOMAIN score)
  <2>1. /\ channel \in Seq(DOMAIN score) /\ Len(channel) \in Nat
        /\ DOMAIN channel = 1 .. Len(channel)
        /\ Len(channel) <= Depth /\ Len(channel) <= Cardinality(DOMAIN score)
        /\ \A j, k \in DOMAIN channel : channel[j] = channel[k] => j = k
    BY <1>1, <1>5, RankedLists
  <2>2. IsInjective(channel)
    BY <2>1 DEF IsInjective
  <2>3. \A k \in DOMAIN channel : channel[k] \in DOMAIN score
    BY <2>1
  <2>4. Range(channel) \subseteq EligibleRows
    BY <1>5, <2>3 DEF Range
  <2> QED
    BY <2>1, <2>2, <2>4 DEF ChannelAccepted, Depth
<1>6. /\ ChannelAccepted(VectorCandidates) /\ Len(VectorCandidates) \in Nat
      /\ DOMAIN VectorCandidates = 1 .. Len(VectorCandidates)
      /\ Len(VectorCandidates) <= Cardinality(DOMAIN Near)
  BY <1>1, <1>2, <1>3, <1>5
<1>7. /\ ChannelAccepted(LexicalCandidates) /\ Len(LexicalCandidates) \in Nat
      /\ DOMAIN LexicalCandidates = 1 .. Len(LexicalCandidates)
      /\ Len(LexicalCandidates) <= Cardinality(DOMAIN Lexical)
  BY <1>1, <1>2, <1>3, <1>5
<1> QED
  BY <1>2, <1>4, <1>6, <1>7

\* The hits of a result, as its audit reads them.
HitsAre(res, rows) ==
  /\ res.vector = VectorCandidates /\ res.lexical = LexicalCandidates
  /\ rows \in Seq(Candidates) /\ Len(rows) \in Nat
  /\ DOMAIN rows = 1 .. Len(rows) /\ DOMAIN res.hits = DOMAIN rows
  /\ Len(rows) = Min({request.top, Cardinality(Candidates)})
  /\ Len(rows) <= request.top /\ Len(rows) <= Cardinality(Candidates)
  /\ \A j, k \in DOMAIN rows : rows[j] = rows[k] => j = k
  /\ \A k \in DOMAIN rows :
       /\ rows[k] = res.hits[k].row /\ rows[k] \in Candidates
       /\ res.hits[k].score = FusedScore(rows[k])
  /\ \A k \in DOMAIN rows :
       k > 1 => \/ FusedScore(rows[k]) < FusedScore(rows[k - 1])
                \/ FusedScore(rows[k]) = FusedScore(rows[k - 1]) /\ Before(rows[k - 1], rows[k])
  /\ \A d \in request.docs : res.counts[d] = Cardinality({k \in DOMAIN rows : rows[k][1] = d})

LEMMA HitsHold ==
  ASSUME SearchInv, Grounded, NEW res, res = SearchResult(VectorCandidates, LexicalCandidates)
  PROVE  HitsAre(res, [k \in DOMAIN res.hits |-> res.hits[k].row])
<1> DEFINE g == [r \in Candidates |-> FusedScore(r)]
           hits == Ranked(g, request.top)
<1>1. /\ res.vector = VectorCandidates /\ res.lexical = LexicalCandidates
      /\ res.hits = [k \in DOMAIN hits |->
                       [row |-> hits[k], score |-> Fused(hits[k], VectorCandidates, LexicalCandidates)]]
      /\ res.counts = [d \in request.docs |-> Cardinality({k \in DOMAIN hits : hits[k][1] = d})]
  BY DEF SearchResult, FusedScore, Candidates
<1>2. Scored(g) /\ request.top \in Nat /\ DOMAIN g = Candidates
  BY FusedAreNumbers, DepthIsNumber
<1>3. ASSUME NEW x \in Candidates, NEW y \in Candidates, <<x, y>> \in ScoreOrder(g)
      PROVE  FusedScore(x) > FusedScore(y) \/ (FusedScore(x) = FusedScore(y) /\ Before(x, y))
  <2>1. g[x] = FusedScore(x) /\ g[y] = FusedScore(y)
    OBVIOUS
  <2> HIDE DEF g
  <2>2. g[x] > g[y] \/ (g[x] = g[y] /\ Before(x, y))
    BY <1>3 DEF ScoreOrder
  <2> QED
    BY <2>1, <2>2
<1> HIDE DEF g
<1>4. /\ hits \in Seq(Candidates) /\ Len(hits) \in Nat /\ DOMAIN hits = 1 .. Len(hits)
      /\ Len(hits) = Min({request.top, Cardinality(Candidates)})
      /\ Len(hits) <= request.top /\ Len(hits) <= Cardinality(Candidates)
      /\ \A j, k \in DOMAIN hits : hits[j] = hits[k] => j = k
      /\ \A k \in DOMAIN hits : k > 1 => <<hits[k - 1], hits[k]>> \in ScoreOrder(g)
  BY <1>2, RankedLists
<1> HIDE DEF hits
<1>5. DOMAIN res.hits = DOMAIN hits /\ \A k \in DOMAIN hits :
        res.hits[k].row = hits[k] /\ res.hits[k].score = FusedScore(hits[k])
  BY <1>1 DEF FusedScore
<1>6. hits = [k \in DOMAIN hits |-> hits[k]]
  BY <1>4
<1>7. [k \in DOMAIN res.hits |-> res.hits[k].row] = hits
  BY <1>5, <1>6
<1>8. \A k \in DOMAIN hits : hits[k] \in Candidates
  BY <1>4
<1>9. ASSUME NEW k \in DOMAIN hits, k > 1
      PROVE  \/ FusedScore(hits[k]) < FusedScore(hits[k - 1])
             \/ FusedScore(hits[k]) = FusedScore(hits[k - 1]) /\ Before(hits[k - 1], hits[k])
  <2>1. k - 1 \in DOMAIN hits
    BY <1>4, <1>9
  <2>2. hits[k - 1] \in Candidates /\ hits[k] \in Candidates
    BY <1>8, <2>1
  <2>3. FusedScore(hits[k]) \in Nat /\ FusedScore(hits[k - 1]) \in Nat
    BY <2>2, FusedAreNumbers
  <2>4. \/ FusedScore(hits[k - 1]) > FusedScore(hits[k])
        \/ FusedScore(hits[k - 1]) = FusedScore(hits[k]) /\ Before(hits[k - 1], hits[k])
    BY <1>3, <1>4, <1>9, <2>2
  <2> QED
    BY <2>3, <2>4
<1>10. \A d \in request.docs : res.counts[d] = Cardinality({k \in DOMAIN hits : hits[k][1] = d})
  BY <1>1
<1>11. \A k \in DOMAIN hits : k > 1 =>
         \/ FusedScore(hits[k]) < FusedScore(hits[k - 1])
         \/ FusedScore(hits[k]) = FusedScore(hits[k - 1]) /\ Before(hits[k - 1], hits[k])
  BY <1>9
<1>12. HitsAre(res, hits)
  BY <1>1, <1>4, <1>5, <1>8, <1>10, <1>11 DEF HitsAre
<1> QED
  BY <1>7, <1>12

LEMMA ResultHolds ==
  ASSUME SearchInv, Grounded, NEW res, res = SearchResult(VectorCandidates, LexicalCandidates)
  PROVE  ResultReconciles(res)
<1> DEFINE rows == [k \in DOMAIN res.hits |-> res.hits[k].row]
<1>0. HitsAre(res, rows)
  BY HitsHold
<1> HIDE DEF rows
<1>1. /\ res.vector = VectorCandidates /\ res.lexical = LexicalCandidates
      /\ rows \in Seq(Candidates) /\ Len(rows) \in Nat
      /\ DOMAIN rows = 1 .. Len(rows) /\ DOMAIN res.hits = DOMAIN rows
      /\ Len(rows) = Min({request.top, Cardinality(Candidates)})
      /\ \A j, k \in DOMAIN rows : rows[j] = rows[k] => j = k
      /\ \A k \in DOMAIN rows :
           /\ rows[k] = res.hits[k].row /\ rows[k] \in Candidates
           /\ res.hits[k].score = FusedScore(rows[k])
      /\ \A k \in DOMAIN rows :
           k > 1 => \/ FusedScore(rows[k]) < FusedScore(rows[k - 1])
                    \/ FusedScore(rows[k]) = FusedScore(rows[k - 1]) /\ Before(rows[k - 1], rows[k])
      /\ \A d \in request.docs : res.counts[d] = Cardinality({k \in DOMAIN rows : rows[k][1] = d})
  BY <1>0 DEF HitsAre
<1>2. ChannelAccepted(res.vector) /\ ChannelAccepted(res.lexical)
  BY <1>1, ChannelsHold
<1>3. Range(res.vector) \cup Range(res.lexical) = Candidates
  BY <1>1 DEF Candidates
<1>4. IsInjective(rows)
  BY <1>1 DEF IsInjective
<1>5. \A r \in Candidates : HitAccepted(r, res)
  <2>1. /\ Scored(Near) /\ Scored(Lexical) /\ Depth \in Nat
        /\ VectorCandidates = Ranked(Near, Depth) /\ LexicalCandidates = Ranked(Lexical, Depth)
    BY ChannelsAreScored, DepthIsNumber
  <2>2. \A r : r \in Range(VectorCandidates) => RankIn(VectorCandidates, r) # 0
    BY <2>1, RankIsPlace
  <2>3. \A r : r \in Range(LexicalCandidates) => RankIn(LexicalCandidates, r) # 0
    BY <2>1, RankIsPlace
  <2> QED
    BY <1>1, <2>2, <2>3 DEF Candidates, HitAccepted
<1>6. \A r \in Range(rows) : HitAccepted(r, res)
  BY <1>1, <1>5 DEF Range
<1>7. \A r \in Candidates : Matches(Payload(r), request.filter)
  BY FusedAreNumbers, ScoresAreNumbers DEF EligibleRows
<1>8. \A k \in DOMAIN rows :
        /\ Matches(Payload(rows[k]), request.filter)
        /\ res.hits[k].score = Fused(rows[k], res.vector, res.lexical)
        /\ k > 1 => \/ res.hits[k].score < res.hits[k - 1].score
                    \/ res.hits[k].score = res.hits[k - 1].score /\ Before(rows[k - 1], rows[k])
  <2> SUFFICES ASSUME NEW k \in DOMAIN rows
               PROVE  /\ Matches(Payload(rows[k]), request.filter)
                      /\ res.hits[k].score = Fused(rows[k], res.vector, res.lexical)
                      /\ k > 1 => \/ res.hits[k].score < res.hits[k - 1].score
                                  \/ res.hits[k].score = res.hits[k - 1].score /\ Before(rows[k - 1], rows[k])
    OBVIOUS
  <2>1. Matches(Payload(rows[k]), request.filter)
    BY <1>1, <1>7
  <2>2. res.hits[k].score = Fused(rows[k], res.vector, res.lexical)
    BY <1>1 DEF FusedScore
  <2>3. k > 1 => k - 1 \in DOMAIN rows
    BY <1>1
  <2>4. k > 1 => res.hits[k - 1].score = FusedScore(rows[k - 1])
    BY <1>1, <2>3
  <2>5. k > 1 => \/ res.hits[k].score < res.hits[k - 1].score
                 \/ res.hits[k].score = res.hits[k - 1].score /\ Before(rows[k - 1], rows[k])
    BY <1>1, <2>4
  <2> QED
    BY <2>1, <2>2, <2>5
<1> QED
  BY <1>1, <1>2, <1>3, <1>4, <1>6, <1>8 DEF ResultReconciles, rows

-----------------------------------------------------------------------------
(* What is taken of a list, and what of that again.                        *)
\* What Part takes of a list: its members at the places, each once, in order.
TakenAt(part, seq, kept, places) ==
  /\ Cardinality(places) \in Nat /\ DOMAIN part = 1 .. Cardinality(places)
  /\ DOMAIN kept = 1 .. Cardinality(places)
  /\ \A k \in DOMAIN part : kept[k] \in places /\ part[k] = seq[kept[k]]
  /\ \A n \in places : \E k \in DOMAIN part : kept[k] = n
  /\ \A j, k \in DOMAIN part : kept[j] = kept[k] => j = k
  /\ \A j, k \in DOMAIN part : j < k <=> kept[j] < kept[k]

LEMMA PartTakes ==
  ASSUME NEW seq, NEW places, IsFiniteSet(places), places \subseteq Int
  PROVE  TakenAt(Part(seq, places), seq, InOrder(places, <), places)
<1> DEFINE kept == InOrder(places, <)
           part == Part(seq, places)
<1>1. /\ Cardinality(places) \in Nat /\ DOMAIN kept = 1 .. Cardinality(places)
      /\ Enumerates(kept, places, IntOrder(places))
  BY PlacesListed
<1>2. part = [k \in DOMAIN kept |-> seq[kept[k]]]
  BY DEF Part
<1> HIDE DEF kept, part
<1>3. DOMAIN part = DOMAIN kept /\ \A k \in DOMAIN kept : part[k] = seq[kept[k]]
  BY <1>2
<1>4. /\ \A k \in DOMAIN kept : kept[k] \in places
      /\ \A n \in places : \E k \in DOMAIN kept : kept[k] = n
      /\ \A j, k \in DOMAIN kept : kept[j] = kept[k] => j = k
  BY <1>1 DEF Enumerates
<1>5. \A j, k \in DOMAIN kept : j < k <=> <<kept[j], kept[k]>> \in IntOrder(places)
  BY <1>1 DEF Enumerates
<1>6. \A j, k \in DOMAIN kept : <<kept[j], kept[k]>> \in IntOrder(places) <=> kept[j] < kept[k]
  BY <1>4 DEF IntOrder
<1> QED
  BY <1>1, <1>3, <1>4, <1>5, <1>6 DEF TakenAt, kept, part

\* r is kept of seq at the places R, and C are the places of r whose own
\* places in seq are in A.
TakesSome(r, seq, kept, R, A, C) ==
  /\ IsFiniteSet(R) /\ R \subseteq Int /\ A \subseteq R /\ TakenAt(r, seq, kept, R)
  /\ C \subseteq DOMAIN r /\ \A k \in DOMAIN r : k \in C <=> kept[k] \in A

\* What is taken of what was taken is taken of the whole.
LEMMA PartOfPart ==
  ASSUME NEW seq, NEW R, NEW A, NEW r, NEW kept, NEW C, TakesSome(r, seq, kept, R, A, C)
  PROVE  Part(r, C) = Part(seq, A)
<1>1. /\ IsFiniteSet(R) /\ R \subseteq Int /\ A \subseteq R /\ TakenAt(r, seq, kept, R)
      /\ C \subseteq DOMAIN r /\ \A k \in DOMAIN r : k \in C <=> kept[k] \in A
  BY DEF TakesSome
<1> DEFINE c == InOrder(C, <)
           a == InOrder(A, <)
<1> HIDE DEF c, a
<1>2. /\ Cardinality(R) \in Nat /\ DOMAIN r = 1 .. Cardinality(R) /\ DOMAIN kept = DOMAIN r
      /\ \A k \in DOMAIN r : kept[k] \in R /\ r[k] = seq[kept[k]]
      /\ \A n \in R : \E k \in DOMAIN r : kept[k] = n
      /\ \A j, k \in DOMAIN r : kept[j] = kept[k] => j = k
      /\ \A j, k \in DOMAIN r : j < k <=> kept[j] < kept[k]
  BY <1>1 DEF TakenAt
<1>3. IsFiniteSet(A) /\ A \subseteq Int /\ Cardinality(A) \in Nat
  BY <1>1, FS_Subset, FS_CardinalityType
<1>4. C \subseteq DOMAIN r
  BY <1>1
<1>5. IsFiniteSet(C) /\ C \subseteq Int
  <2>1. IsFiniteSet(DOMAIN r) /\ DOMAIN r \subseteq Int
    BY <1>2, FiniteRange
  <2> QED
    BY <1>4, <2>1, FS_Subset
<1>6. \A k \in C : kept[k] \in A
  BY <1>1, <1>4
<1>7. \A n \in A : \E k \in C : kept[k] = n
  BY <1>1, <1>2
<1>8. \A j, k \in C : kept[j] = kept[k] => j = k
  BY <1>2, <1>4
<1>9. \A T \in SUBSET C : Cardinality({kept[k] : k \in T}) = Cardinality(T)
  <2> SUFFICES ASSUME NEW T \in SUBSET C PROVE Cardinality({kept[k] : k \in T}) = Cardinality(T)
    OBVIOUS
  <2>1. IsFiniteSet(T)
    BY <1>5, FS_Subset
  <2> DEFINE g == [k \in T |-> kept[k]]
  <2>2. \A x, y \in T : g[x] = g[y] => x = y
    BY <1>8
  <2>3. \A x \in T : g[x] = kept[x]
    OBVIOUS
  <2>4. {g[x] : x \in T} = {kept[k] : k \in T}
    BY <2>3
  <2> HIDE DEF g
  <2>5. Cardinality({g[x] : x \in T}) = Cardinality(T)
    BY <2>1, <2>2, ImageCounted
  <2> QED
    BY <2>4, <2>5
<1>10. A = {kept[k] : k \in C}
  BY <1>6, <1>7
<1>11. Cardinality(A) = Cardinality(C)
  BY <1>9, <1>10
<1>12. /\ OrderedAs(a, A, IntOrder(A)) /\ Orders(A, IntOrder(A))
       /\ OrderedAs(c, C, IntOrder(C)) /\ Enumerates(c, C, IntOrder(C))
  BY <1>3, <1>5, InOrderOfPlaces, PlacesListed DEF a, c
<1>13. DOMAIN a = 1 .. Cardinality(A) /\ DOMAIN c = 1 .. Cardinality(A)
  BY <1>11, <1>12 DEF OrderedAs
<1>14. ASSUME NEW k \in 1 .. Cardinality(A)
       PROVE  c[k] \in C /\ a[k] = kept[c[k]]
  <2>1. c[k] \in C
    BY <1>12, <1>13 DEF Enumerates
  <2>2. Place(C, IntOrder(C), c[k]) = k - 1
    BY <1>11, <1>12, <2>1 DEF OrderedAs
  <2> DEFINE x == c[k]
  <2> HIDE DEF x
  <2>3. x \in C
    BY <2>1 DEF x
  <2>4. Earlier(C, IntOrder(C), x) = {z \in C : z < x}
    BY <2>3 DEF Earlier, IntOrder
  <2>5. Earlier(A, IntOrder(A), kept[x]) = {y \in A : y < kept[x]}
    BY <1>6, <2>3 DEF Earlier, IntOrder
  <2>6. {y \in A : y < kept[x]} = {kept[z] : z \in {z \in C : z < x}}
    <3>1. \A z \in C : z < x <=> kept[z] < kept[x]
      BY <1>2, <1>4, <2>3
    <3>2. \A y \in A : \E z \in C : y = kept[z]
      BY <1>7
    <3> QED
      BY <1>6, <3>1, <3>2
  <2>7. Cardinality({kept[z] : z \in {z \in C : z < x}}) = Cardinality({z \in C : z < x})
    BY <1>9
  <2>8. Place(A, IntOrder(A), kept[x]) = k - 1
    BY <2>2, <2>4, <2>5, <2>6, <2>7 DEF Place, x
  <2>9. kept[x] \in A
    BY <1>6, <2>3
  <2>10. a[k] = kept[x]
    BY <1>12, <2>8, <2>9 DEF OrderedAs
  <2> QED
    BY <2>1, <2>10 DEF x
<1>15. Part(r, C) = [k \in DOMAIN c |-> r[c[k]]]
  BY DEF Part, c
<1>16. Part(seq, A) = [k \in DOMAIN a |-> seq[a[k]]]
  BY DEF Part, a
<1>17. \A k \in DOMAIN a : r[c[k]] = seq[a[k]]
  <2> SUFFICES ASSUME NEW k \in DOMAIN a PROVE r[c[k]] = seq[a[k]]
    OBVIOUS
  <2>1. c[k] \in C /\ a[k] = kept[c[k]]
    BY <1>13, <1>14
  <2>2. r[c[k]] = seq[kept[c[k]]]
    BY <1>2, <1>4, <2>1
  <2> QED
    BY <2>1, <2>2
<1> QED
  BY <1>13, <1>15, <1>16, <1>17

LEMMA Concatenated ==
  ASSUME NEW S, NEW s \in Seq(S), NEW t \in Seq(S)
  PROVE  /\ Len(s) \in Nat /\ Len(t) \in Nat /\ DOMAIN (s \o t) = 1 .. (Len(s) + Len(t))
         /\ DOMAIN s = 1 .. Len(s) /\ DOMAIN t = 1 .. Len(t)
         /\ \A k \in DOMAIN (s \o t) :
              \/ k \in DOMAIN s /\ (s \o t)[k] = s[k]
              \/ k - Len(s) \in DOMAIN t /\ k > Len(s) /\ (s \o t)[k] = t[k - Len(s)]
         /\ \A k \in DOMAIN s : k \in DOMAIN (s \o t) /\ (s \o t)[k] = s[k]
         /\ \A k \in DOMAIN t : Len(s) + k \in DOMAIN (s \o t) /\ (s \o t)[Len(s) + k] = t[k]
OBVIOUS

LEMMA RangeOfBoth ==
  ASSUME NEW S, NEW s \in Seq(S), NEW t \in Seq(S)
  PROVE  Range(s \o t) = Range(s) \cup Range(t)
<1> DEFINE u == s \o t
           l == Len(s)
<1>0. /\ \A k \in DOMAIN u : \/ k \in DOMAIN s /\ u[k] = s[k]
                             \/ k - l \in DOMAIN t /\ k > l /\ u[k] = t[k - l]
      /\ \A k \in DOMAIN s : k \in DOMAIN u /\ u[k] = s[k]
      /\ \A k \in DOMAIN t : l + k \in DOMAIN u /\ u[l + k] = t[k]
  BY Concatenated
<1> HIDE DEF u, l
<1>1. /\ \A k \in DOMAIN u : (\E j \in DOMAIN s : u[k] = s[j]) \/ (\E j \in DOMAIN t : u[k] = t[j])
      /\ \A k \in DOMAIN s : \E j \in DOMAIN u : u[j] = s[k]
      /\ \A k \in DOMAIN t : \E j \in DOMAIN u : u[j] = t[k]
  BY <1>0
<1>2. Range(u) = Range(s) \cup Range(t)
  BY <1>1 DEF Range
<1> QED
  BY <1>2 DEF u

\* Two lists whose members differ in what f says of them, joined.
LEMMA JoinedDiffer ==
  ASSUME NEW S, NEW s \in Seq(S), NEW t \in Seq(S), NEW f,
         \A j, k \in DOMAIN s : f[s[j]] = f[s[k]] => j = k,
         \A j, k \in DOMAIN t : f[t[j]] = f[t[k]] => j = k,
         \A j \in DOMAIN s : \A k \in DOMAIN t : f[s[j]] # f[t[k]]
  PROVE  \A j, k \in DOMAIN (s \o t) : f[(s \o t)[j]] = f[(s \o t)[k]] => j = k
<1> DEFINE u == s \o t
           l == Len(s)
<1>1. /\ l \in Nat /\ Len(t) \in Nat /\ DOMAIN u = 1 .. (l + Len(t))
      /\ \A k \in DOMAIN u : \/ k \in DOMAIN s /\ u[k] = s[k]
                             \/ k - l \in DOMAIN t /\ k > l /\ u[k] = t[k - l]
  BY Concatenated
<1> HIDE DEF u, l
<1>2. ASSUME NEW j \in DOMAIN u, NEW k \in DOMAIN u, f[u[j]] = f[u[k]] PROVE j = k
  <2>1. j \in Int /\ k \in Int
    BY <1>1
  <2>2. \/ j \in DOMAIN s /\ u[j] = s[j]
        \/ j - l \in DOMAIN t /\ j > l /\ u[j] = t[j - l]
    BY <1>1
  <2>3. \/ k \in DOMAIN s /\ u[k] = s[k]
        \/ k - l \in DOMAIN t /\ k > l /\ u[k] = t[k - l]
    BY <1>1
  <2>4. CASE j \in DOMAIN s /\ u[j] = s[j]
    BY <1>2, <2>3, <2>4
  <2>5. CASE j - l \in DOMAIN t /\ j > l /\ u[j] = t[j - l]
    <3>1. ~ (k \in DOMAIN s /\ u[k] = s[k])
      BY <1>2, <2>5
    <3>2. k - l \in DOMAIN t /\ u[k] = t[k - l]
      BY <2>3, <3>1
    <3>3. j - l = k - l
      BY <1>2, <2>5, <3>2
    <3> QED
      BY <1>1, <2>1, <3>3
  <2> QED
    BY <2>2, <2>4, <2>5
<1> QED
  BY <1>2 DEF u

\* Results among facts whose claims are whole: what references are followed of.
Citing(claims, primaries, facts) ==
  /\ primaries \in Seq(facts)
  /\ \A j, k \in DOMAIN primaries : primaries[j] = primaries[k] => j = k
  /\ \A i \in facts : \E m \in Nat : DOMAIN claims[i] = 1 .. m
  /\ \A i \in facts : \A c \in DOMAIN claims[i] : ClaimIsWhole(claims[i][c], i, facts)
  /\ \A i \in facts : \A c, d \in DOMAIN claims[i] :
       ReferenceOf(claims[i][c]) = ReferenceOf(claims[i][d]) => c = d

\* What is known of a view: it is of a claim of a result, and of its own one.
ViewIs(v, claims, primaries) ==
  /\ v.rank \in DOMAIN primaries /\ v.place \in DOMAIN claims[primaries[v.rank]]
  /\ v.claim = claims[primaries[v.rank]][v.place]
  /\ v.disposition = Disposition(v.claim, primaries)
  /\ v.at = RankIn(primaries, v.claim.target)

ViewsAre(views, claims, primaries) ==
  /\ \E n \in Nat : DOMAIN views = 1 .. n
  /\ \A n \in DOMAIN views : ViewIs(views[n], claims, primaries)
  /\ \A m, n \in DOMAIN views :
       views[m].rank = views[n].rank /\ views[m].place = views[n].place => m = n
  /\ \A k \in DOMAIN primaries : \E m \in Nat :
       {views[n].place : n \in {x \in DOMAIN views : views[x].rank = k}} = 1 .. m

\* No claim of a result is left out.
ViewsCover(views, claims, primaries) ==
  \A k \in DOMAIN primaries : \A c \in DOMAIN claims[primaries[k]] :
    \E n \in DOMAIN views : views[n].rank = k /\ views[n].place = c

LEMMA ViewsListed ==
  ASSUME NEW claims, NEW primaries, NEW facts, Citing(claims, primaries, facts),
         NEW ex, ex = ExpandReferences(claims, primaries)
  PROVE  ViewsAre(ex.views, claims, primaries) /\ ViewsCover(ex.views, claims, primaries)
<1> DEFINE D(k) == DOMAIN claims[primaries[k]]
           X == UNION {{k} \X D(k) : k \in DOMAIN primaries}
           View(k, c) == [rank |-> k, place |-> c, claim |-> claims[primaries[k]][c],
                     disposition |-> Disposition(claims[primaries[k]][c], primaries),
                     at |-> RankIn(primaries, claims[primaries[k]][c].target)]
           cited == InOrder(X, Before)
           views == ex.views
<1>1. views = [n \in DOMAIN cited |-> View(cited[n][1], cited[n][2])]
  BY DEF ExpandReferences
<1>2. \A k, c : /\ View(k, c).rank = k /\ View(k, c).place = c
                /\ View(k, c).claim = claims[primaries[k]][c]
                /\ View(k, c).disposition = Disposition(View(k, c).claim, primaries)
                /\ View(k, c).at = RankIn(primaries, View(k, c).claim.target)
  OBVIOUS
<1>3. /\ \E n \in Nat : DOMAIN primaries = 1 .. n
      /\ \A k \in DOMAIN primaries : \E m \in Nat : D(k) = 1 .. m
  <2>1. primaries \in Seq(facts) /\ \A i \in facts : \E m \in Nat : DOMAIN claims[i] = 1 .. m
    BY DEF Citing
  <2>2. /\ Len(primaries) \in Nat /\ DOMAIN primaries = 1 .. Len(primaries)
        /\ \A k \in DOMAIN primaries : primaries[k] \in facts
    BY <2>1
  <2> QED
    BY <2>1, <2>2
<1> HIDE DEF D, View
<1>4. IsFiniteSet(DOMAIN primaries) /\ DOMAIN primaries \subseteq Nat
  BY <1>3, FiniteRange
<1>5. \A k \in DOMAIN primaries : IsFiniteSet({k} \X D(k)) /\ D(k) \subseteq Nat
  <2> SUFFICES ASSUME NEW k \in DOMAIN primaries PROVE IsFiniteSet({k} \X D(k)) /\ D(k) \subseteq Nat
    OBVIOUS
  <2>1. PICK m \in Nat : D(k) = 1 .. m
    BY <1>3
  <2>2. IsFiniteSet(D(k)) /\ D(k) \subseteq Nat
    BY <2>1, FiniteRange
  <2> QED
    BY <2>2, FS_Product, FS_Singleton
<1>6. IsFiniteSet(X)
  <2> DEFINE f == [k \in DOMAIN primaries |-> {k} \X D(k)]
  <2>1. \A k \in DOMAIN primaries : f[k] = {k} \X D(k)
    OBVIOUS
  <2>2. X = UNION {f[k] : k \in DOMAIN primaries}
    BY <2>1
  <2> HIDE DEF f, X
  <2> QED
    BY <1>4, <1>5, <2>1, <2>2, FiniteFamily
<1>7. /\ \A x \in X : x = <<x[1], x[2]>> /\ x[1] \in DOMAIN primaries /\ x[2] \in D(x[1])
      /\ \A k \in DOMAIN primaries : \A c \in D(k) : <<k, c>> \in X
  OBVIOUS
<1> HIDE DEF X
<1>8. X \subseteq Nat \X Nat
  <2> SUFFICES ASSUME NEW x \in X PROVE x \in Nat \X Nat
    OBVIOUS
  <2>1. x = <<x[1], x[2]>> /\ x[1] \in DOMAIN primaries /\ x[2] \in D(x[1])
    BY <1>7
  <2>2. x[1] \in Nat /\ x[2] \in Nat
    BY <1>4, <1>5, <2>1
  <2> QED
    BY <2>1, <2>2
<1>9. /\ Cardinality(X) \in Nat /\ DOMAIN cited = 1 .. Cardinality(X)
      /\ Enumerates(cited, X, RowOrder(X))
  BY <1>6, <1>8, RowsListed
<1> HIDE DEF cited
<1>10. /\ \A n \in DOMAIN cited : cited[n] \in X
       /\ \A x \in X : \E n \in DOMAIN cited : cited[n] = x
       /\ \A m, n \in DOMAIN cited : cited[m] = cited[n] => m = n
  BY <1>9 DEF Enumerates
<1>11. DOMAIN views = DOMAIN cited /\ \A n \in DOMAIN cited : views[n] = View(cited[n][1], cited[n][2])
  BY <1>1
<1> HIDE DEF views
<1>12. \A n \in DOMAIN views : /\ views[n].rank = cited[n][1] /\ views[n].place = cited[n][2]
                               /\ cited[n] = <<views[n].rank, views[n].place>>
  BY <1>2, <1>7, <1>10, <1>11
<1>13. ASSUME NEW n \in DOMAIN views PROVE ViewIs(views[n], claims, primaries)
  <2>1. views[n].rank \in DOMAIN primaries /\ views[n].place \in D(views[n].rank)
    BY <1>7, <1>10, <1>11, <1>12
  <2>2. /\ views[n].claim = claims[primaries[views[n].rank]][views[n].place]
        /\ views[n].disposition = Disposition(views[n].claim, primaries)
        /\ views[n].at = RankIn(primaries, views[n].claim.target)
    BY <1>2, <1>11, <1>12
  <2> QED
    BY <2>1, <2>2 DEF ViewIs, D
<1>14. \A m, n \in DOMAIN views :
         views[m].rank = views[n].rank /\ views[m].place = views[n].place => m = n
  BY <1>10, <1>11, <1>12
<1>15. \A k \in DOMAIN primaries : \A c \in D(k) :
         \E n \in DOMAIN views : views[n].rank = k /\ views[n].place = c
  <2> SUFFICES ASSUME NEW k \in DOMAIN primaries, NEW c \in D(k)
               PROVE  \E n \in DOMAIN views : views[n].rank = k /\ views[n].place = c
    OBVIOUS
  <2>1. PICK n \in DOMAIN views : cited[n] = <<k, c>>
    BY <1>7, <1>10, <1>11
  <2> QED
    BY <1>12, <2>1
<1>16. \A k \in DOMAIN primaries : \E m \in Nat :
         {views[n].place : n \in {x \in DOMAIN views : views[x].rank = k}} = 1 .. m
  <2> SUFFICES ASSUME NEW k \in DOMAIN primaries
               PROVE  \E m \in Nat : {views[n].place : n \in {x \in DOMAIN views : views[x].rank = k}} = 1 .. m
    OBVIOUS
  <2>1. {views[n].place : n \in {x \in DOMAIN views : views[x].rank = k}} = D(k)
    <3>1. \A n \in DOMAIN views : views[n].rank = k => views[n].place \in D(k)
      BY <1>7, <1>10, <1>11, <1>12
    <3> QED
      BY <1>15, <3>1
  <2> QED
    BY <1>3, <2>1
<1>17. \E n \in Nat : DOMAIN views = 1 .. n
  BY <1>9, <1>11
<1>18. ViewsAre(views, claims, primaries)
  BY <1>13, <1>14, <1>16, <1>17 DEF ViewsAre
<1>19. ViewsCover(views, claims, primaries)
  BY <1>15 DEF ViewsCover, D
<1> QED
  BY <1>18, <1>19 DEF views

Leading(views) == {n \in DOMAIN views : views[n].disposition = "attached_target"}

\* Targets in the order of the views that lead to them first.
TargetsOf(views) ==
  LET attached == Leading(views)
      Leads(n) == views[n].claim.target
      first == InOrder({n \in attached : \A m \in attached : m < n => Leads(m) # Leads(n)}, <)
  IN [k \in DOMAIN first |->
        [fact |-> Leads(first[k]),
         incoming |-> Part(views, {n \in attached : Leads(n) = Leads(first[k])})]]

LEMMA TargetsOfViews ==
  ASSUME NEW claims, NEW primaries, NEW ex, ex = ExpandReferences(claims, primaries)
  PROVE  ex.targets = TargetsOf(ex.views)
<1> DEFINE View(k, c) == [rank |-> k, place |-> c, claim |-> claims[primaries[k]][c],
                     disposition |-> Disposition(claims[primaries[k]][c], primaries),
                     at |-> RankIn(primaries, claims[primaries[k]][c].target)]
           cited == InOrder(UNION {{k} \X DOMAIN claims[primaries[k]] : k \in DOMAIN primaries}, Before)
           views == [n \in DOMAIN cited |-> View(cited[n][1], cited[n][2])]
<1>1. ex = [views |-> views, targets |-> TargetsOf(views)]
  BY DEF ExpandReferences, TargetsOf, Leading
<1> HIDE DEF views
<1>2. ex.views = views /\ ex.targets = TargetsOf(views)
  BY <1>1
<1> QED
  BY <1>2

\* What is attached: every target that a view leads to, once, with those views.
TargetsAre(targets, views) ==
  /\ \E n \in Nat : DOMAIN targets = 1 .. n
  /\ \A k \in DOMAIN targets :
       /\ \E n \in Leading(views) : views[n].claim.target = targets[k].fact
       /\ targets[k].incoming = Part(views, {n \in Leading(views) : views[n].claim.target = targets[k].fact})
  /\ \A n \in Leading(views) : \E k \in DOMAIN targets : targets[k].fact = views[n].claim.target
  /\ \A j, k \in DOMAIN targets : targets[j].fact = targets[k].fact => j = k

LEMMA TargetsListed ==
  ASSUME NEW claims, NEW primaries, NEW ex, ex = ExpandReferences(claims, primaries),
         \E n \in Nat : DOMAIN ex.views = 1 .. n
  PROVE  TargetsAre(ex.targets, ex.views)
<1> DEFINE views == ex.views
           attached == Leading(views)
           Leads(n) == views[n].claim.target
           F == {n \in attached : \A m \in attached : m < n => Leads(m) # Leads(n)}
           first == InOrder(F, <)
           targets == ex.targets
<1>1. targets = [k \in DOMAIN first |->
                   [fact |-> Leads(first[k]),
                    incoming |-> Part(views, {n \in attached : Leads(n) = Leads(first[k])})]]
  <2>1. targets = TargetsOf(views)
    BY TargetsOfViews
  <2>2. TargetsOf(views) =
          [k \in DOMAIN first |->
             [fact |-> Leads(first[k]),
              incoming |-> Part(views, {n \in attached : Leads(n) = Leads(first[k])})]]
    BY DEF TargetsOf
  <2> HIDE DEF first, targets, views, attached, Leads
  <2> QED
    BY <2>1, <2>2
<1> HIDE DEF first, targets, views
<1>2. attached \subseteq DOMAIN views
  BY DEF Leading
<1>3. IsFiniteSet(DOMAIN views) /\ DOMAIN views \subseteq Int
  <2>1. PICK n \in Nat : DOMAIN views = 1 .. n
    BY DEF views
  <2> QED
    BY <2>1, FiniteRange
<1>4. IsFiniteSet(attached) /\ attached \subseteq Int
  BY <1>2, <1>3, FS_Subset
<1> HIDE DEF attached
<1>5. F \subseteq attached
  OBVIOUS
<1>6. IsFiniteSet(F) /\ F \subseteq Int
  BY <1>4, <1>5, FS_Subset
<1>7. \A m, n \in F : Leads(m) = Leads(n) => m = n
  <2>1. \A m, n \in F : m < n => Leads(m) # Leads(n)
    OBVIOUS
  <2> SUFFICES ASSUME NEW m \in F, NEW n \in F, Leads(m) = Leads(n), m # n PROVE FALSE
    OBVIOUS
  <2> HIDE DEF F, Leads
  <2>2. m \in Int /\ n \in Int
    BY <1>6
  <2>3. m < n \/ n < m
    BY <2>2
  <2> QED
    BY <2>1, <2>3
<1>8. \A n \in attached : \E m \in F : Leads(m) = Leads(n)
  <2> SUFFICES ASSUME NEW n \in attached PROVE \E m \in F : Leads(m) = Leads(n)
    OBVIOUS
  <2> DEFINE T == {m \in attached : Leads(m) = Leads(n)}
  <2>1. T \subseteq attached /\ n \in T
    OBVIOUS
  <2>2. IsFiniteSet(T) /\ T \subseteq Int
    BY <1>4, <2>1, FS_Subset
  <2>3. PICK m \in T : \A x \in T : m <= x
    <3> HIDE DEF T
    <3> QED
      BY <2>1, <2>2, LeastOfFinite
  <2>4. \A x \in attached : x < m => Leads(x) # Leads(m)
    <3> SUFFICES ASSUME NEW x \in attached, x < m, Leads(x) = Leads(m) PROVE FALSE
      OBVIOUS
    <3>1. x \in T
      OBVIOUS
    <3>2. x \in Int /\ m \in Int /\ m <= x
      BY <1>4, <2>3, <3>1
    <3> QED
      BY <3>2
  <2> QED
    BY <2>4
<1> HIDE DEF F
<1>9. /\ Cardinality(F) \in Nat /\ DOMAIN first = 1 .. Cardinality(F)
      /\ Enumerates(first, F, IntOrder(F))
  BY <1>6, PlacesListed DEF first
<1>10. /\ \A k \in DOMAIN first : first[k] \in F
       /\ \A x \in F : \E k \in DOMAIN first : first[k] = x
       /\ \A j, k \in DOMAIN first : first[j] = first[k] => j = k
  BY <1>9 DEF Enumerates
<1>11. DOMAIN targets = DOMAIN first /\ \A k \in DOMAIN first :
         /\ targets[k].fact = Leads(first[k])
         /\ targets[k].incoming = Part(views, {n \in attached : Leads(n) = Leads(first[k])})
  BY <1>1
<1>12. \E n \in Nat : DOMAIN targets = 1 .. n
  BY <1>9, <1>11
<1>13. ASSUME NEW k \in DOMAIN targets
       PROVE  /\ \E n \in attached : Leads(n) = targets[k].fact
              /\ targets[k].incoming = Part(views, {n \in attached : Leads(n) = targets[k].fact})
  <2>1. first[k] \in attached /\ targets[k].fact = Leads(first[k])
    BY <1>5, <1>10, <1>11
  <2>2. targets[k].incoming = Part(views, {n \in attached : Leads(n) = Leads(first[k])})
    BY <1>11
  <2> HIDE DEF Leads
  <2> QED
    BY <2>1, <2>2
<1>14. \A n \in attached : \E k \in DOMAIN targets : targets[k].fact = Leads(n)
  <2> SUFFICES ASSUME NEW n \in attached PROVE \E k \in DOMAIN targets : targets[k].fact = Leads(n)
    OBVIOUS
  <2> HIDE DEF Leads
  <2>1. PICK m \in F : Leads(m) = Leads(n)
    BY <1>8
  <2>2. PICK k \in DOMAIN first : first[k] = m
    BY <1>10
  <2> QED
    BY <1>11, <2>1, <2>2
<1>15. \A j, k \in DOMAIN targets : targets[j].fact = targets[k].fact => j = k
  <2> SUFFICES ASSUME NEW j \in DOMAIN first, NEW k \in DOMAIN first,
                      targets[j].fact = targets[k].fact
               PROVE  j = k
    BY <1>11
  <2> HIDE DEF Leads
  <2>1. Leads(first[j]) = Leads(first[k])
    BY <1>11
  <2>2. first[j] = first[k]
    BY <1>7, <1>10, <2>1
  <2> QED
    BY <1>10, <2>2
<1>16. TargetsAre(targets, views)
  BY <1>12, <1>13, <1>14, <1>15 DEF TargetsAre, attached
<1> QED
  BY <1>16 DEF targets, views

Resolved(views) == {n \in DOMAIN views : views[n].claim.status = "resolved"}
Open(views) == {n \in DOMAIN views : views[n].claim.status # "resolved"}

LEMMA RanksInSequence ==
  ASSUME NEW S, NEW seq \in Seq(S), NEW x
  PROVE  /\ RankIn(seq, x) = 0 <=> x \notin Range(seq)
         /\ RankIn(seq, x) # 0 => RankIn(seq, x) \in DOMAIN seq /\ seq[RankIn(seq, x)] = x
<1>1. \A k \in DOMAIN seq : k # 0
  OBVIOUS
<1>2. x \in Range(seq) <=> \E k \in DOMAIN seq : seq[k] = x
  BY DEF Range
<1>3. CASE \E k \in DOMAIN seq : seq[k] = x
  <2> DEFINE c == CHOOSE k \in DOMAIN seq : seq[k] = x
  <2>1. c \in DOMAIN seq /\ seq[c] = x
    BY <1>3
  <2>2. RankIn(seq, x) = c
    BY <1>3 DEF RankIn
  <2> HIDE DEF c
  <2> QED
    BY <1>1, <1>2, <1>3, <2>1, <2>2
<1>4. CASE ~ \E k \in DOMAIN seq : seq[k] = x
  <2>1. RankIn(seq, x) = 0
    BY <1>4 DEF RankIn
  <2> QED
    BY <1>2, <1>4, <2>1
<1> QED
  BY <1>3, <1>4

\* What every view says of its claim.
ViewHolds(v, primaries, facts) ==
  /\ v.rank \in DOMAIN primaries /\ primaries[v.rank] = v.claim.source
  /\ v.claim.status = "resolved" =>
       /\ v.claim.target \in v.claim.candidates /\ v.claim.target \in facts
       /\ v.disposition \in {"attached_target", "already_primary"}
       /\ v.disposition = "attached_target" <=> v.at = 0
       /\ v.disposition = "attached_target" => v.claim.target \notin Range(primaries)
       /\ v.disposition # "attached_target" => v.at \in DOMAIN primaries /\ primaries[v.at] = v.claim.target
  /\ v.claim.status # "resolved" => v.disposition \notin {"attached_target", "already_primary"}

LEMMA ViewsHold ==
  ASSUME NEW claims, NEW primaries, NEW facts, Citing(claims, primaries, facts),
         NEW v, ViewIs(v, claims, primaries)
  PROVE  ViewHolds(v, primaries, facts)
<1> DEFINE c == v.claim
           i == primaries[v.rank]
<1>1. v.rank \in DOMAIN primaries /\ v.place \in DOMAIN claims[i] /\ c = claims[i][v.place]
  BY DEF ViewIs
<1>2. v.disposition = Disposition(c, primaries) /\ v.at = RankIn(primaries, c.target)
  BY DEF ViewIs
<1>3. primaries \in Seq(facts)
  BY DEF Citing
<1>4. i \in facts
  BY <1>1, <1>3
<1>5. ClaimIsWhole(c, i, facts)
  BY <1>1, <1>4 DEF Citing
<1>6. /\ RankIn(primaries, c.target) = 0 <=> c.target \notin Range(primaries)
      /\ RankIn(primaries, c.target) # 0 =>
           RankIn(primaries, c.target) \in DOMAIN primaries /\ primaries[RankIn(primaries, c.target)] = c.target
  BY <1>3, RanksInSequence
<1> HIDE DEF c, i
<1>7. /\ c.source = i /\ c.status \in {"resolved", "unresolved", "ambiguous"} /\ c.candidates \subseteq facts
      /\ c.status = "resolved" => c.target \in c.candidates \ {i}
  BY <1>5 DEF ClaimIsWhole
<1>8. CASE c.status = "resolved"
  <2>1. v.disposition = IF c.target \in Range(primaries) THEN "already_primary" ELSE "attached_target"
    BY <1>2, <1>8 DEF Disposition
  <2> QED
    BY <1>1, <1>2, <1>6, <1>7, <1>8, <2>1 DEF ViewHolds, c, i
<1>9. CASE c.status # "resolved"
  <2>1. v.disposition = c.status
    BY <1>2, <1>9 DEF Disposition
  <2>2. v.disposition \in {"unresolved", "ambiguous"}
    BY <1>7, <1>9, <2>1
  <2> QED
    BY <1>1, <1>7, <1>9, <2>2 DEF ViewHolds, c, i
<1> QED
  BY <1>8, <1>9

LEMMA IdentitiesDiffer ==
  ASSUME NEW claims, NEW primaries, NEW facts, Citing(claims, primaries, facts),
         NEW views, ViewsAre(views, claims, primaries),
         NEW m \in DOMAIN views, NEW n \in DOMAIN views, Identity(views[m]) = Identity(views[n])
  PROVE  m = n
<1> DEFINE v == views[m]
           w == views[n]
<1>1. ViewIs(v, claims, primaries) /\ ViewIs(w, claims, primaries)
  BY DEF ViewsAre
<1>2. Identity(v) = Identity(w)
  OBVIOUS
<1>3. v.rank = w.rank /\ v.place = w.place => m = n
  BY DEF ViewsAre
<1> HIDE DEF v, w
<1>4. /\ v.rank = w.rank /\ v.claim.label = w.claim.label /\ v.claim.key = w.claim.key
      /\ v.claim.direction = w.claim.direction
  BY <1>2 DEF Identity
<1>5. ReferenceOf(v.claim) = ReferenceOf(w.claim)
  BY <1>4 DEF ReferenceOf
<1> DEFINE i == primaries[v.rank]
<1>6. /\ v.rank \in DOMAIN primaries
      /\ v.place \in DOMAIN claims[i] /\ v.claim = claims[i][v.place]
      /\ w.place \in DOMAIN claims[i] /\ w.claim = claims[i][w.place]
  BY <1>1, <1>4 DEF ViewIs
<1>7. i \in facts
  BY <1>6 DEF Citing
<1> HIDE DEF i
<1>8. v.place = w.place
  BY <1>5, <1>6, <1>7 DEF Citing
<1> QED
  BY <1>3, <1>4, <1>8

\* The relations and the warnings of a pack, and both together.
PackedAre(views, relations, warnings) ==
  /\ Range(relations) = {views[n] : n \in Resolved(views)}
  /\ Range(relations \o warnings) = {views[n] : n \in DOMAIN views}
  /\ \A j, k \in DOMAIN (relations \o warnings) :
       Identity((relations \o warnings)[j]) = Identity((relations \o warnings)[k]) => j = k
  /\ relations \in Seq({views[n] : n \in DOMAIN views})
  /\ warnings \in Seq({views[n] : n \in DOMAIN views})

LEMMA PackedClaims ==
  ASSUME NEW claims, NEW primaries, NEW facts, Citing(claims, primaries, facts),
         NEW views, ViewsAre(views, claims, primaries),
         NEW relations, relations = Part(views, Resolved(views)),
         NEW warnings, warnings = Part(views, Open(views))
  PROVE  PackedAre(views, relations, warnings)
<1> DEFINE R == Resolved(views)
           W == Open(views)
           V == {views[n] : n \in DOMAIN views}
           kr == InOrder(R, <)
           kw == InOrder(W, <)
<1>1. R \subseteq DOMAIN views /\ W \subseteq DOMAIN views /\ R \cup W = DOMAIN views /\ R \cap W = {}
  BY DEF Resolved, Open
<1>2. IsFiniteSet(DOMAIN views) /\ DOMAIN views \subseteq Int
  <2>1. PICK n \in Nat : DOMAIN views = 1 .. n
    BY DEF ViewsAre
  <2> QED
    BY <2>1, FiniteRange
<1> HIDE DEF R, W
<1>3. IsFiniteSet(R) /\ R \subseteq Int /\ IsFiniteSet(W) /\ W \subseteq Int
  BY <1>1, <1>2, FS_Subset
<1>4. TakenAt(relations, views, kr, R) /\ TakenAt(warnings, views, kw, W)
  BY <1>3, PartTakes DEF R, W
<1> HIDE DEF kr, kw
<1>5. relations \in Seq(V) /\ warnings \in Seq(V)
  <2>1. relations \in Seq({views[n] : n \in R}) /\ warnings \in Seq({views[n] : n \in W})
    BY <1>3, PartIsTaken DEF R, W
  <2>2. {views[n] : n \in R} \subseteq V /\ {views[n] : n \in W} \subseteq V
    BY <1>1
  <2> HIDE DEF V
  <2> QED
    BY <2>1, <2>2
<1>6. /\ \A k \in DOMAIN relations : kr[k] \in R /\ relations[k] = views[kr[k]]
      /\ \A n \in R : \E k \in DOMAIN relations : kr[k] = n
      /\ \A j, k \in DOMAIN relations : kr[j] = kr[k] => j = k
  BY <1>4 DEF TakenAt
<1>7. /\ \A k \in DOMAIN warnings : kw[k] \in W /\ warnings[k] = views[kw[k]]
      /\ \A n \in W : \E k \in DOMAIN warnings : kw[k] = n
      /\ \A j, k \in DOMAIN warnings : kw[j] = kw[k] => j = k
  BY <1>4 DEF TakenAt
<1>8. Range(relations) = {views[n] : n \in R}
  BY <1>6 DEF Range
<1>9. Range(warnings) = {views[n] : n \in W}
  BY <1>7 DEF Range
<1>10. Range(relations \o warnings) = V
  <2>1. Range(relations \o warnings) = Range(relations) \cup Range(warnings)
    BY <1>5, RangeOfBoth
  <2>2. {views[n] : n \in R} \cup {views[n] : n \in W} = V
    BY <1>1
  <2> QED
    BY <1>8, <1>9, <2>1, <2>2
<1>11. \A m, n \in DOMAIN views : Identity(views[m]) = Identity(views[n]) => m = n
  BY IdentitiesDiffer
<1> DEFINE f == [v \in V |-> Identity(v)]
<1>12. \A n \in DOMAIN views : views[n] \in V
  OBVIOUS
<1>13. \A v \in V : f[v] = Identity(v)
  OBVIOUS
<1> HIDE DEF f, V
<1>14. \A j, k \in DOMAIN relations : f[relations[j]] = f[relations[k]] => j = k
  BY <1>1, <1>6, <1>11, <1>12, <1>13
<1>15. \A j, k \in DOMAIN warnings : f[warnings[j]] = f[warnings[k]] => j = k
  BY <1>1, <1>7, <1>11, <1>12, <1>13
<1>16. \A j \in DOMAIN relations : \A k \in DOMAIN warnings : f[relations[j]] # f[warnings[k]]
  BY <1>1, <1>6, <1>7, <1>11, <1>12, <1>13
<1> DEFINE u == relations \o warnings
<1>17. \A j, k \in DOMAIN u : f[u[j]] = f[u[k]] => j = k
  BY <1>5, <1>14, <1>15, <1>16, JoinedDiffer
<1>18. \A k \in DOMAIN u : u[k] \in V
  BY <1>10 DEF Range
<1> HIDE DEF u
<1>19. \A j, k \in DOMAIN u : Identity(u[j]) = Identity(u[k]) => j = k
  BY <1>13, <1>17, <1>18
<1> QED
  BY <1>5, <1>8, <1>10, <1>19 DEF u, R, V, PackedAre

\* What a pack attaches: each target with the relations that lead to it.
AttachedHolds(t, relations, primaries, facts) ==
  /\ AttachedAccepted(t)
  /\ t.fact \in facts \ Range(primaries)
  /\ \E v \in Range(relations) : v.claim.target = t.fact
  /\ t.incoming =
       Part(relations, {n \in DOMAIN relations :
                          /\ relations[n].disposition = "attached_target"
                          /\ relations[n].claim.target = t.fact})

LEMMA AttachedHold ==
  ASSUME NEW claims, NEW primaries, NEW facts, Citing(claims, primaries, facts),
         NEW views, ViewsAre(views, claims, primaries),
         NEW targets, TargetsAre(targets, views), NEW k \in DOMAIN targets,
         NEW relations, relations = Part(views, Resolved(views))
  PROVE  AttachedHolds(targets[k], relations, primaries, facts)
<1> DEFINE R == Resolved(views)
           t == targets[k]
           A == {n \in Leading(views) : views[n].claim.target = t.fact}
           kr == InOrder(R, <)
           ka == InOrder(A, <)
<1>1. \A n \in DOMAIN views : ViewHolds(views[n], primaries, facts)
  BY ViewsHold DEF ViewsAre
<1>2. IsFiniteSet(DOMAIN views) /\ DOMAIN views \subseteq Int
  <2>1. PICK n \in Nat : DOMAIN views = 1 .. n
    BY DEF ViewsAre
  <2> QED
    BY <2>1, FiniteRange
<1>3. A # {} /\ t.incoming = Part(views, A)
  BY DEF TargetsAre
<1>4. \A n \in A : /\ n \in DOMAIN views /\ views[n].disposition = "attached_target"
                   /\ views[n].claim.target = t.fact
  BY DEF Leading
<1>5. A \subseteq R
  BY <1>1, <1>4 DEF ViewHolds, Resolved
<1>6. IsFiniteSet(R) /\ R \subseteq Int /\ IsFiniteSet(A) /\ A \subseteq Int /\ R \subseteq DOMAIN views
  <2>1. R \subseteq DOMAIN views
    BY DEF Resolved
  <2> HIDE DEF R, A
  <2>2. IsFiniteSet(R) /\ R \subseteq Int
    BY <1>2, <2>1, FS_Subset
  <2> QED
    BY <1>5, <2>1, <2>2, FS_Subset
<1>7. \A n \in DOMAIN views :
        views[n].disposition = "attached_target" /\ views[n].claim.target = t.fact => n \in A
  BY DEF Leading
<1> HIDE DEF R, A, t
<1>8. TakenAt(relations, views, kr, R) /\ TakenAt(t.incoming, views, ka, A)
  BY <1>3, <1>6, PartTakes DEF R
<1> HIDE DEF kr, ka
<1>9. t.incoming # <<>>
  <2>1. DOMAIN t.incoming # {}
    <3>1. PICK n \in A : TRUE
      BY <1>3
    <3>2. \E j \in DOMAIN t.incoming : ka[j] = n
      BY <1>8 DEF TakenAt
    <3> QED
      BY <3>2
  <2>2. DOMAIN <<>> = {}
    OBVIOUS
  <2> QED
    BY <2>1, <2>2
<1>10. IsInjective([n \in DOMAIN t.incoming |-> Identity(t.incoming[n])])
  <2> DEFINE g == [n \in DOMAIN t.incoming |-> Identity(t.incoming[n])]
  <2>1. /\ \A j \in DOMAIN t.incoming : ka[j] \in A /\ t.incoming[j] = views[ka[j]]
        /\ \A i, j \in DOMAIN t.incoming : ka[i] = ka[j] => i = j
    BY <1>8 DEF TakenAt
  <2>2. \A m, n \in DOMAIN views : Identity(views[m]) = Identity(views[n]) => m = n
    BY IdentitiesDiffer
  <2>3. ASSUME NEW i \in DOMAIN t.incoming, NEW j \in DOMAIN t.incoming,
               Identity(t.incoming[i]) = Identity(t.incoming[j])
        PROVE  i = j
    <3>1. ka[i] \in DOMAIN views /\ ka[j] \in DOMAIN views
      BY <1>4, <2>1
    <3>2. Identity(views[ka[i]]) = Identity(views[ka[j]])
      BY <2>1, <2>3
    <3>3. ka[i] = ka[j]
      BY <2>2, <3>1, <3>2
    <3> QED
      BY <2>1, <3>3
  <2>4. DOMAIN g = DOMAIN t.incoming /\ \A n \in DOMAIN g : g[n] = Identity(t.incoming[n])
    OBVIOUS
  <2> HIDE DEF g
  <2>5. IsInjective(g)
    BY <2>3, <2>4 DEF IsInjective
  <2> QED
    BY <2>5 DEF g
<1>11. t.fact \in facts \ Range(primaries)
  <2>1. PICK n \in A : TRUE
    BY <1>3
  <2>2. /\ n \in DOMAIN views /\ views[n].disposition = "attached_target"
        /\ views[n].claim.target = t.fact /\ views[n].claim.status = "resolved"
    BY <1>4, <1>5 DEF R, Resolved
  <2> QED
    BY <1>1, <2>2 DEF ViewHolds
<1>12. /\ \A j \in DOMAIN relations : kr[j] \in R /\ relations[j] = views[kr[j]]
       /\ \A n \in R : \E j \in DOMAIN relations : kr[j] = n
  BY <1>8 DEF TakenAt
<1>13. \E v \in Range(relations) : v.claim.target = t.fact
  <2>1. PICK n \in A : TRUE
    BY <1>3
  <2>2. PICK j \in DOMAIN relations : kr[j] = n
    BY <1>5, <1>12
  <2>3. relations[j].claim.target = t.fact
    BY <1>4, <1>12, <2>2
  <2> QED
    BY <2>3 DEF Range
<1> DEFINE C == {j \in DOMAIN relations : kr[j] \in A}
<1>14. Part(relations, C) = Part(views, A)
  <2>1. TakesSome(relations, views, kr, R, A, C)
    BY <1>5, <1>6, <1>8 DEF TakesSome
  <2> HIDE DEF C
  <2> QED
    BY <2>1, PartOfPart
<1>15. C = {n \in DOMAIN relations : /\ relations[n].disposition = "attached_target"
                                     /\ relations[n].claim.target = t.fact}
  <2>1. ASSUME NEW j \in DOMAIN relations
        PROVE  kr[j] \in A <=> /\ relations[j].disposition = "attached_target"
                               /\ relations[j].claim.target = t.fact
    <3>1. kr[j] \in DOMAIN views /\ relations[j] = views[kr[j]]
      BY <1>6, <1>12
    <3> QED
      BY <1>4, <1>7, <3>1
  <2> QED
    BY <2>1
<1> HIDE DEF C
<1>16. AttachedAccepted(t)
  BY <1>9, <1>10 DEF AttachedAccepted
<1>17. t.incoming = Part(relations, {n \in DOMAIN relations :
                       /\ relations[n].disposition = "attached_target"
                       /\ relations[n].claim.target = t.fact})
  BY <1>3, <1>14, <1>15
<1> QED
  BY <1>11, <1>13, <1>16, <1>17 DEF AttachedHolds, t

\* What the pack says of references agrees with itself.
ReferencesHold(primary, attached, relations, warnings, facts) ==
  LET found == [k \in DOMAIN attached |-> attached[k].fact]
      all == relations \o warnings
  IN /\ Range(primary) \cup Range(found) \subseteq facts
     /\ \A t \in Range(attached) : AttachedAccepted(t)
     /\ \A v \in Range(relations) : RelationAccepted(v)
     /\ IsInjective(primary \o found)
     /\ IsInjective([k \in DOMAIN all |-> Identity(all[k])])
     /\ \A v \in Range(all) : primary[v.rank] = v.claim.source
     /\ \A k \in DOMAIN primary :
          LET places == {v.place : v \in {x \in Range(all) : x.rank = k}}
          IN places = 1..Cardinality(places)
     /\ \A v \in Range(relations) :
          IF v.disposition = "attached_target" THEN v.claim.target \in Range(found)
          ELSE v.at \in DOMAIN primary /\ primary[v.at] = v.claim.target
     /\ \A k \in DOMAIN attached :
          attached[k].incoming =
            Part(relations, {n \in DOMAIN relations :
                               /\ relations[n].disposition = "attached_target"
                               /\ relations[n].claim.target = attached[k].fact})

LEMMA ReferencesReconcile ==
  ASSUME NEW claims, NEW primaries, NEW facts, Citing(claims, primaries, facts),
         NEW views, ViewsAre(views, claims, primaries),
         NEW targets, TargetsAre(targets, views),
         NEW relations, relations = Part(views, Resolved(views)),
         NEW warnings, warnings = Part(views, Open(views))
  PROVE  ReferencesHold(primaries, targets, relations, warnings, facts)
<1> DEFINE found == [k \in DOMAIN targets |-> targets[k].fact]
           all == relations \o warnings
<1>1. \A k \in DOMAIN targets : AttachedHolds(targets[k], relations, primaries, facts)
  BY AttachedHold
<1>2. \A n \in DOMAIN views : ViewHolds(views[n], primaries, facts)
  BY ViewsHold DEF ViewsAre
<1>0. PackedAre(views, relations, warnings)
  BY PackedClaims
<1>3. /\ Range(relations) = {views[n] : n \in Resolved(views)}
      /\ Range(all) = {views[n] : n \in DOMAIN views}
      /\ \A j, k \in DOMAIN all : Identity(all[j]) = Identity(all[k]) => j = k
  BY <1>0 DEF PackedAre
<1>4. primaries \in Seq(facts) /\ \A j, k \in DOMAIN primaries : primaries[j] = primaries[k] => j = k
  BY DEF Citing
<1>5. \A v \in Range(relations) : ViewHolds(v, primaries, facts) /\ v.claim.status = "resolved"
  BY <1>2, <1>3 DEF Resolved
<1>6. \A v \in Range(all) : ViewHolds(v, primaries, facts)
  BY <1>2, <1>3
<1> HIDE DEF all
<1>7. DOMAIN found = DOMAIN targets /\ \A k \in DOMAIN targets : found[k] = targets[k].fact
  OBVIOUS
<1>8. \E n \in Nat : DOMAIN targets = 1 .. n
  BY DEF TargetsAre
<1>9. found \in Seq(facts)
  <2>1. PICK n \in Nat : DOMAIN targets = 1 .. n
    BY <1>8
  <2>2. found = [k \in 1 .. n |-> targets[k].fact]
    BY <2>1
  <2>3. \A k \in 1 .. n : targets[k].fact \in facts
    BY <1>1, <2>1 DEF AttachedHolds
  <2> HIDE DEF found
  <2> QED
    BY <2>2, <2>3
<1> HIDE DEF found
<1>10. \A j, k \in DOMAIN found : found[j] = found[k] => j = k
  BY <1>7 DEF TargetsAre
<1>11. \A j \in DOMAIN primaries : \A k \in DOMAIN found : primaries[j] # found[k]
  <2> SUFFICES ASSUME NEW j \in DOMAIN primaries, NEW k \in DOMAIN found PROVE primaries[j] # found[k]
    OBVIOUS
  <2>1. found[k] \notin Range(primaries)
    BY <1>1, <1>7 DEF AttachedHolds
  <2>2. primaries[j] \in Range(primaries)
    BY DEF Range
  <2> QED
    BY <2>1, <2>2
<1>12. IsInjective(primaries \o found)
  <2> DEFINE f == [x \in facts |-> x]
             u == primaries \o found
  <2>1. \A j \in DOMAIN primaries : primaries[j] \in facts /\ f[primaries[j]] = primaries[j]
    BY <1>4
  <2>2. \A k \in DOMAIN found : found[k] \in facts /\ f[found[k]] = found[k]
    BY <1>9
  <2> HIDE DEF f
  <2>3. \A j, k \in DOMAIN u : f[u[j]] = f[u[k]] => j = k
    BY <1>4, <1>9, <1>10, <1>11, <2>1, <2>2, JoinedDiffer
  <2> HIDE DEF u
  <2>4. IsInjective(u)
    BY <2>3 DEF IsInjective
  <2> QED
    BY <2>4 DEF u
<1>13. Range(primaries) \cup Range(found) \subseteq facts
  BY <1>4, <1>9 DEF Range
<1>14. \A t \in Range(targets) : AttachedAccepted(t)
  BY <1>1 DEF AttachedHolds, Range
<1>15. \A v \in Range(relations) : RelationAccepted(v)
  BY <1>5 DEF ViewHolds, RelationAccepted
<1>16. IsInjective([k \in DOMAIN all |-> Identity(all[k])])
  <2> DEFINE g == [k \in DOMAIN all |-> Identity(all[k])]
  <2>1. DOMAIN g = DOMAIN all /\ \A k \in DOMAIN all : g[k] = Identity(all[k])
    OBVIOUS
  <2> HIDE DEF g
  <2>2. IsInjective(g)
    BY <1>3, <2>1 DEF IsInjective
  <2> QED
    BY <2>2 DEF g
<1>17. \A v \in Range(all) : primaries[v.rank] = v.claim.source
  BY <1>6 DEF ViewHolds
<1>18. \A k \in DOMAIN primaries :
         LET places == {v.place : v \in {x \in Range(all) : x.rank = k}}
         IN places = 1..Cardinality(places)
  <2> SUFFICES ASSUME NEW k \in DOMAIN primaries,
                      NEW places, places = {v.place : v \in {x \in Range(all) : x.rank = k}}
               PROVE  places = 1..Cardinality(places)
    OBVIOUS
  <2>1. places = {views[n].place : n \in {x \in DOMAIN views : views[x].rank = k}}
    BY <1>3
  <2>2. PICK m \in Nat : {views[n].place : n \in {x \in DOMAIN views : views[x].rank = k}} = 1 .. m
    BY DEF ViewsAre
  <2> QED
    BY <2>1, <2>2, FiniteRange
<1>19. \A v \in Range(relations) :
         IF v.disposition = "attached_target" THEN v.claim.target \in Range(found)
         ELSE v.at \in DOMAIN primaries /\ primaries[v.at] = v.claim.target
  <2> SUFFICES ASSUME NEW v \in Range(relations)
               PROVE  IF v.disposition = "attached_target" THEN v.claim.target \in Range(found)
                      ELSE v.at \in DOMAIN primaries /\ primaries[v.at] = v.claim.target
    OBVIOUS
  <2>1. CASE v.disposition = "attached_target"
    <3>1. PICK n \in DOMAIN views : v = views[n]
      BY <1>3 DEF Resolved
    <3>2. n \in Leading(views)
      BY <2>1, <3>1 DEF Leading
    <3>3. PICK k \in DOMAIN targets : targets[k].fact = v.claim.target
      BY <3>1, <3>2 DEF TargetsAre
    <3> QED
      BY <1>7, <2>1, <3>3 DEF Range
  <2>2. CASE v.disposition # "attached_target"
    BY <1>5, <2>2 DEF ViewHolds
  <2> QED
    BY <2>1, <2>2
<1>20. \A k \in DOMAIN targets :
         targets[k].incoming =
           Part(relations, {n \in DOMAIN relations :
                              /\ relations[n].disposition = "attached_target"
                              /\ relations[n].claim.target = targets[k].fact})
  BY <1>1 DEF AttachedHolds
<1> QED
  BY <1>12, <1>13, <1>14, <1>15, <1>16, <1>17, <1>18, <1>19, <1>20 DEF ReferencesHold, found, all

-----------------------------------------------------------------------------
(* Nothing that was derived is refused later.                              *)

\* Rows were ranked, and the result is that of the channels.
Searched == Grounded /\ result = SearchResult(VectorCandidates, LexicalCandidates)

LEMMA OneDocument ==
  ASSUME SearchInv, Cardinality(request.docs) = 1 PROVE request.docs = {Document}
<1>1. IsFiniteSet(request.docs)
  BY SearchAssumption DEF SearchInv, FilesInv
<1>2. PICK d : request.docs = {d}
  BY <1>1, FS_Singleton
<1> QED
  BY <1>2 DEF Document

LEMMA DocumentLoaded ==
  ASSUME SearchInv, Grounded, Cardinality(request.docs) = 1
  PROVE  /\ Document \in request.docs /\ loaded[Document].kb \in Pdfs
         /\ context[Document] = loaded[Document].kb /\ Kb[context[Document]].passed
<1>1. Document \in request.docs
  BY OneDocument
<1>2. DOMAIN context = request.docs
  BY DEF Grounded
<1>3. LoadedInv
  BY DEF SearchInv
<1> QED
  BY <1>1, <1>2, <1>3 DEF LoadedInv

\* What the hits are: different facts of the document, each ranked, eligible
\* and found in the channels.
PrimariesAre(rows, facts) ==
  /\ HitsAre(result, rows) /\ Primaries \in Seq(facts)
  /\ DOMAIN Primaries = DOMAIN rows /\ DOMAIN rows = 1 .. Len(rows)
  /\ \A k \in DOMAIN rows : /\ rows[k] = <<Document, Primaries[k]>> /\ rows[k] \in EligibleRows
                            /\ result.hits[k].row = rows[k]
  /\ \A j, k \in DOMAIN Primaries : Primaries[j] = Primaries[k] => j = k

LEMMA HitsOfDocument ==
  ASSUME SearchInv, Searched, Cardinality(request.docs) = 1,
         NEW rows, rows = [k \in DOMAIN result.hits |-> result.hits[k].row]
  PROVE  PrimariesAre(rows, DOMAIN Kb[loaded[Document].kb].facts)
<1> DEFINE facts == DOMAIN Kb[loaded[Document].kb].facts
<1>1. HitsAre(result, rows)
  BY HitsHold DEF Searched
<1>2. request.docs = {Document}
  BY OneDocument
<1>3. Candidates \subseteq EligibleRows
  BY FusedAreNumbers, ScoresAreNumbers DEF Searched
<1>4. /\ Rows \subseteq Nat \X Nat /\ EligibleRows \subseteq Rows
      /\ \A r \in Rows : r[1] \in request.docs /\ r[2] \in DOMAIN Kb[loaded[r[1]].kb].facts
  BY RowsOfSearch DEF Searched, Grounded
<1>5. /\ DOMAIN rows = 1 .. Len(rows) /\ Len(rows) \in Nat /\ DOMAIN result.hits = DOMAIN rows
      /\ \A j, k \in DOMAIN rows : rows[j] = rows[k] => j = k
      /\ \A k \in DOMAIN rows : rows[k] = result.hits[k].row /\ rows[k] \in Candidates
  BY <1>1 DEF HitsAre
<1>6. /\ DOMAIN Primaries = DOMAIN rows
      /\ \A k \in DOMAIN rows : Primaries[k] = rows[k][2]
  BY <1>5 DEF Primaries
<1>7. Primaries = [k \in 1 .. Len(rows) |-> Primaries[k]]
  BY <1>5 DEF Primaries
<1>8. ASSUME NEW k \in DOMAIN rows
      PROVE  /\ rows[k] \in EligibleRows /\ rows[k] = <<Document, Primaries[k]>>
             /\ Primaries[k] \in facts
  <2>1. rows[k] \in EligibleRows /\ rows[k] \in Rows
    BY <1>3, <1>4, <1>5
  <2>2. rows[k][1] = Document /\ rows[k][2] \in facts /\ rows[k] = <<rows[k][1], rows[k][2]>>
    BY <1>2, <1>4, <2>1
  <2> QED
    BY <1>6, <2>1, <2>2
<1>9. Primaries \in Seq(facts)
  <2> HIDE DEF facts
  <2> QED
    BY <1>5, <1>7, <1>8
<1>10. ASSUME NEW j \in DOMAIN Primaries, NEW k \in DOMAIN Primaries, Primaries[j] = Primaries[k]
       PROVE  j = k
  <2>1. j \in DOMAIN rows /\ k \in DOMAIN rows
    BY <1>6
  <2>2. rows[j] = <<Document, Primaries[j]>> /\ rows[k] = <<Document, Primaries[k]>>
    BY <1>8, <2>1
  <2>3. rows[j] = rows[k]
    BY <1>10, <2>2
  <2> QED
    BY <1>5, <2>1, <2>3
<1> QED
  BY <1>1, <1>5, <1>6, <1>8, <1>9, <1>10 DEF PrimariesAre

LEMMA DocumentCites ==
  ASSUME SearchInv, Searched, Cardinality(request.docs) = 1
  PROVE  Citing(Kb[context[Document]].claims, Primaries, DOMAIN Kb[loaded[Document].kb].facts)
<1> DEFINE p == loaded[Document].kb
           k == Kb[p]
<1>1. p \in Pdfs /\ context[Document] = p
  BY DocumentLoaded DEF Searched
<1>2. KbIsWhole(k) /\ ClaimsAreWhole(k)
  BY <1>1, KbsAreWhole, ClaimsOfKbs
<1>3. /\ Primaries \in Seq(DOMAIN k.facts)
      /\ \A j, n \in DOMAIN Primaries : Primaries[j] = Primaries[n] => j = n
  BY HitsOfDocument DEF PrimariesAre
<1> HIDE DEF k, p
<1>4. Citing(k.claims, Primaries, DOMAIN k.facts)
  BY <1>2, <1>3 DEF Citing, KbIsWhole, ClaimsAreWhole
<1> QED
  BY <1>1, <1>4 DEF k, p

\* Expansion always finds the index and the claims aligned.
LEMMA DocumentAligned ==
  ASSUME SearchInv, Searched, Cardinality(request.docs) = 1 PROVE Aligned(Document)
<1> DEFINE k == Kb[context[Document]]
<1>1. context[Document] \in Pdfs /\ context[Document] = loaded[Document].kb
  BY DocumentLoaded DEF Searched
<1>2. DiagnosticsReconcile(k) /\ ClaimsAreWhole(k)
  BY <1>1, DiagnosticsHold, ClaimsOfKbs
<1>3. k.facts = Kb[loaded[Document].kb].facts
  BY <1>1
<1> HIDE DEF k
<1>4. ASSUME NEW i \in DOMAIN k.claims, NEW c \in Range(k.claims[i])
      PROVE  /\ c.candidates \subseteq DOMAIN k.facts
             /\ IF c.status = "resolved" THEN c.target \in c.candidates \ {i} ELSE c.target = None
  <2>1. PICK n \in DOMAIN k.claims[i] : c = k.claims[i][n]
    BY DEF Range
  <2> QED
    BY <1>2, <2>1 DEF ClaimsAreWhole, ClaimIsWhole
<1> QED
  BY <1>2, <1>3, <1>4 DEF Aligned, k

\* An expansion of these results, or none at all.
Follows(ex) ==
  /\ ViewsAre(ex.views, Kb[context[Document]].claims, Primaries)
  /\ TargetsAre(ex.targets, ex.views)

LEMMA ExpansionFollows ==
  ASSUME SearchInv, Searched, Cardinality(request.docs) = 1,
         NEW ex, ex = ExpandReferences(Kb[context[Document]].claims, Primaries) \/ ex = NoReferences
  PROVE  Follows(ex)
<1> DEFINE claims == Kb[context[Document]].claims
<1>1. CASE ex = ExpandReferences(claims, Primaries)
  <2>1. ViewsAre(ex.views, claims, Primaries)
    BY <1>1, DocumentCites, ViewsListed
  <2>2. \E n \in Nat : DOMAIN ex.views = 1 .. n
    BY <2>1 DEF ViewsAre
  <2>3. TargetsAre(ex.targets, ex.views)
    BY <1>1, <2>2, TargetsListed
  <2> QED
    BY <2>1, <2>3 DEF Follows
<1>2. CASE ex = NoReferences
  <2>1. ex.views = <<>> /\ ex.targets = <<>> /\ DOMAIN <<>> = {} /\ {} = 1 .. 0
    BY <1>2 DEF NoReferences
  <2>2. \A k \in DOMAIN Primaries : \E m \in Nat :
          {ex.views[n].place : n \in {x \in DOMAIN ex.views : ex.views[x].rank = k}} = 1 .. m
    BY <2>1
  <2>3. ViewsAre(ex.views, claims, Primaries)
    <3> HIDE DEF claims
    <3> QED
      BY <2>1, <2>2 DEF ViewsAre
  <2>4. Leading(ex.views) = {}
    BY <2>1 DEF Leading
  <2>5. TargetsAre(ex.targets, ex.views)
    BY <2>1, <2>4 DEF TargetsAre
  <2> QED
    BY <2>3, <2>5 DEF Follows
<1> QED
  BY <1>1, <1>2

LEMMA DepthIsAccepted ==
  ASSUME SearchInv, SearchInputAccepted(request) PROVE DepthAccepted
<1>1. request.top \in Nat /\ request.candidates \in Nat /\ DefaultCandidates \in Nat
  BY SearchAssumption DEF SearchInv, FilesInv
<1>2. CASE request.candidates = 0
  <2> DEFINE T == {request.top, DefaultCandidates}
  <2>1. IsFiniteSet(T)
    <3>1. T = {request.top} \cup {DefaultCandidates}
      OBVIOUS
    <3>2. IsFiniteSet({request.top})
      BY FS_Singleton
    <3> HIDE DEF T
    <3> QED
      BY <3>1, <3>2, FS_AddElement
  <2>2. Max(T) >= request.top
    <3> HIDE DEF T
    <3>1. request.top \in T /\ T \subseteq Int /\ T # {}
      BY <1>1 DEF T
    <3> QED
      BY <2>1, <3>1, GreatestOfFinite
  <2>3. ResolveCandidateDepth(request) = Max(T)
    BY <1>2 DEF ResolveCandidateDepth
  <2> QED
    BY <1>2, <2>2, <2>3 DEF DepthAccepted
<1>3. CASE request.candidates # 0
  BY <1>1, <1>3 DEF DepthAccepted, ResolveCandidateDepth, SearchInputAccepted
<1> QED
  BY <1>2, <1>3

LEMMA RuntimeIsAccepted ==
  ASSUME SearchInv, Searched
  PROVE  /\ RuntimeAccepted(Runtime)
         /\ Runtime.eligible = Cardinality(DOMAIN scores)
         /\ Runtime.vector = Len(VectorCandidates) /\ Runtime.lexical = Len(LexicalCandidates)
<1>1. /\ Len(VectorCandidates) <= Cardinality(DOMAIN scores)
      /\ Len(LexicalCandidates) <= Cardinality(DOMAIN scores)
  BY ChannelsHold DEF Searched
<1>2. DOMAIN scores = EligibleRows
  BY ScoresAreNumbers DEF Searched
<1>3. IsFiniteSet(Rows) /\ EligibleRows \subseteq Rows
  BY RowsOfSearch DEF Searched, Grounded
<1>4. Cardinality(DOMAIN scores) <= Cardinality(Rows)
  BY <1>2, <1>3, FS_Subset
<1>5. result.vector = VectorCandidates /\ result.lexical = LexicalCandidates
  BY DEF Searched, SearchResult
<1> QED
  BY <1>1, <1>4, <1>5 DEF RuntimeAccepted, Runtime

LEMMA ResultsAreAccepted ==
  ASSUME SearchInv, Searched, Cardinality(request.docs) = 1, NEW k \in DOMAIN Primaries
  PROVE  PrimaryAccepted(Kb[loaded[Document].kb].facts[Primaries[k]],
                         Provenance(result.hits[k].row), Runtime)
<1> DEFINE rows == [j \in DOMAIN result.hits |-> result.hits[j].row]
           r == rows[k]
           f == Kb[loaded[Document].kb].facts[Primaries[k]]
<1>1. PrimariesAre(rows, DOMAIN Kb[loaded[Document].kb].facts)
  BY HitsOfDocument
<1> HIDE DEF rows
<1>2. /\ k \in DOMAIN rows /\ r = <<Document, Primaries[k]>> /\ r \in EligibleRows
      /\ result.hits[k].row = r
  BY <1>1 DEF PrimariesAre
<1>3. r \in Candidates
  <2>1. HitsAre(result, rows)
    BY <1>1 DEF PrimariesAre
  <2> QED
    BY <1>2, <2>1 DEF HitsAre
<1>4. Payload(r) = f
  BY <1>2 DEF Payload
<1>5. Matches(f, request.filter)
  BY <1>2, <1>4 DEF EligibleRows
<1>6. scores[r].boost = ScopeBoost(f)
  BY <1>2, <1>4 DEF Searched, Grounded, Scores
<1>7. /\ Scored(Near) /\ Scored(Lexical) /\ Depth \in Nat
      /\ VectorCandidates = Ranked(Near, Depth) /\ LexicalCandidates = Ranked(Lexical, Depth)
  BY ChannelsAreScored, DepthIsNumber DEF Searched
<1> DEFINE v == RankIn(VectorCandidates, r)
           l == RankIn(LexicalCandidates, r)
<1>8. v # 0 \/ l # 0
  <2>1. \/ r \in Range(VectorCandidates)
        \/ r \in Range(LexicalCandidates)
    BY <1>3 DEF Candidates
  <2>2. r \in Range(VectorCandidates) <=> v # 0
    BY <1>7, RankIsPlace
  <2>3. r \in Range(LexicalCandidates) <=> l # 0
    BY <1>7, RankIsPlace
  <2> QED
    BY <2>1, <2>2, <2>3
<1>9. v <= Runtime.vector /\ l <= Runtime.lexical
  <2>1. /\ Runtime.vector = Len(VectorCandidates) /\ Runtime.lexical = Len(LexicalCandidates)
    BY RuntimeIsAccepted
  <2>2. /\ Len(VectorCandidates) \in Nat /\ Len(LexicalCandidates) \in Nat
        /\ DOMAIN VectorCandidates = 1 .. Len(VectorCandidates)
        /\ DOMAIN LexicalCandidates = 1 .. Len(LexicalCandidates)
    BY ChannelsHold DEF Searched
  <2>3. v \in DOMAIN VectorCandidates \cup {0}
    BY DEF RankIn
  <2>4. l \in DOMAIN LexicalCandidates \cup {0}
    BY DEF RankIn
  <2> HIDE DEF v, l
  <2> QED
    BY <2>1, <2>2, <2>3, <2>4
<1>10. /\ Provenance(r).vector = v /\ Provenance(r).lexical = l /\ Provenance(r).boost = scores[r].boost
  BY DEF Provenance, Searched, SearchResult
<1> HIDE DEF v, l, r, f
<1>11. PrimaryAccepted(f, Provenance(r), Runtime)
  BY <1>5, <1>6, <1>8, <1>9, <1>10 DEF PrimaryAccepted
<1> QED
  BY <1>2, <1>11 DEF f

\* A pack refers to no results but its own.
LEMMA ExpansionIsBound ==
  ASSUME SearchInv, Searched, Cardinality(request.docs) = 1, NEW ex, Follows(ex)
  PROVE  ExpansionBound(ex)
<1> DEFINE facts == DOMAIN Kb[loaded[Document].kb].facts
           claims == Kb[context[Document]].claims
<1>1. Citing(claims, Primaries, facts)
  BY DocumentCites
<1>2. ASSUME NEW v \in Range(ex.views) PROVE ViewHolds(v, Primaries, facts)
  <2>1. PICK n \in DOMAIN ex.views : v = ex.views[n]
    BY DEF Range
  <2>2. ViewIs(v, claims, Primaries)
    BY <2>1 DEF Follows, ViewsAre
  <2> HIDE DEF claims, facts
  <2> QED
    BY <1>1, <2>2, ViewsHold
<1>3. Kb[context[Document]].facts = Kb[loaded[Document].kb].facts
  BY DocumentLoaded DEF Searched
<1> HIDE DEF claims, facts
<1>4. \A v \in Range(ex.views) :
        /\ v.rank \in DOMAIN Primaries /\ v.claim.source = Primaries[v.rank]
        /\ v.claim.status = "resolved" <=> v.disposition \in {"attached_target", "already_primary"}
  BY <1>2 DEF ViewHolds
<1> QED
  BY <1>3, <1>4 DEF ExpansionBound

LEMMA PackIsAccepted ==
  ASSUME SearchInv, Searched, Cardinality(request.docs) = 1, SearchInputAccepted(request),
         NEW ex, Follows(ex)
  PROVE  PackReconciles(EvidencePack(Primaries, ex))
<1> DEFINE k == Kb[loaded[Document].kb]
           facts == DOMAIN k.facts
           claims == Kb[context[Document]].claims
           p == EvidencePack(Primaries, ex)
           attached == [n \in DOMAIN p.attached |-> p.attached[n].fact]
           all == p.relations \o p.warnings
<1>1. /\ p.runtime = Runtime /\ p.primary = Primaries /\ p.attached = ex.targets
      /\ p.relations = Part(ex.views, Resolved(ex.views))
      /\ p.warnings = Part(ex.views, Open(ex.views))
      /\ \A n \in DOMAIN Primaries : p.found[n] = Provenance(result.hits[n].row)
  BY DEF EvidencePack, Resolved, Open
<1>2. ReferencesHold(Primaries, ex.targets, p.relations, p.warnings, facts)
  <2>1. Citing(claims, Primaries, facts)
    BY DocumentCites
  <2>2. ViewsAre(ex.views, claims, Primaries) /\ TargetsAre(ex.targets, ex.views)
    BY DEF Follows
  <2> HIDE DEF claims, facts, p
  <2> QED
    BY <1>1, <2>1, <2>2, ReferencesReconcile
<1> HIDE DEF p
<1>3. ReferencesHold(p.primary, p.attached, p.relations, p.warnings, facts)
  BY <1>1, <1>2
<1>4. DepthAccepted /\ RuntimeAccepted(p.runtime)
  BY <1>1, DepthIsAccepted, RuntimeIsAccepted
<1>5. \A i \in facts : RecordAccepted(k.facts[i])
  BY FactsHaveSources, FactsHaveText, DocumentLoaded DEF RecordAccepted, Searched
<1>6. \A n \in DOMAIN p.primary : PrimaryAccepted(k.facts[p.primary[n]], p.found[n], p.runtime)
  BY <1>1, ResultsAreAccepted
<1>7. Len(p.primary) <= request.top /\ Len(p.primary) <= p.runtime.eligible
  <2> DEFINE rows == [j \in DOMAIN result.hits |-> result.hits[j].row]
  <2>1. PrimariesAre(rows, facts)
    BY HitsOfDocument
  <2> HIDE DEF rows
  <2>2. /\ Len(rows) \in Nat /\ Len(rows) <= request.top /\ Len(rows) <= Cardinality(Candidates)
        /\ DOMAIN rows = 1 .. Len(rows) /\ DOMAIN Primaries = 1 .. Len(rows)
    BY <2>1 DEF PrimariesAre, HitsAre
  <2>3. Len(Primaries) = Len(rows)
    <3>1. Primaries \in Seq(facts)
      BY <2>1 DEF PrimariesAre
    <3> HIDE DEF facts
    <3> QED
      BY <2>2, <3>1
  <2>4. Cardinality(Candidates) <= Cardinality(DOMAIN scores) /\ Cardinality(Candidates) \in Nat
    <3>1. Candidates \subseteq DOMAIN scores
      BY FusedAreNumbers DEF Searched
    <3>2. IsFiniteSet(DOMAIN scores)
      BY ScoresAreNumbers, RowsOfSearch DEF Searched, Grounded
    <3> QED
      BY <3>1, <3>2, FS_Subset, FS_CardinalityType
  <2>5. p.runtime.eligible = Cardinality(DOMAIN scores) /\ Cardinality(DOMAIN scores) \in Nat
    BY <1>1, RuntimeIsAccepted, ScoresAreNumbers, RowsOfSearch, FS_CardinalityType DEF Searched, Grounded
  <2>6. request.top \in Nat
    BY DepthIsNumber
  <2> QED
    BY <1>1, <2>2, <2>3, <2>4, <2>5, <2>6
<1>8. /\ Range(p.primary) \cup Range(attached) \subseteq facts
      /\ \A t \in Range(p.attached) : AttachedAccepted(t)
      /\ \A v \in Range(p.relations) : RelationAccepted(v)
      /\ IsInjective(p.primary \o attached)
      /\ IsInjective([n \in DOMAIN all |-> Identity(all[n])])
      /\ \A v \in Range(all) : p.primary[v.rank] = v.claim.source
      /\ \A n \in DOMAIN p.primary :
           LET places == {v.place : v \in {x \in Range(all) : x.rank = n}}
           IN places = 1..Cardinality(places)
  BY <1>3 DEF ReferencesHold
<1>9. /\ \A v \in Range(p.relations) :
           IF v.disposition = "attached_target" THEN v.claim.target \in Range(attached)
           ELSE v.at \in DOMAIN p.primary /\ p.primary[v.at] = v.claim.target
      /\ \A n \in DOMAIN p.attached :
           p.attached[n].incoming =
             Part(p.relations, {m \in DOMAIN p.relations :
                                  /\ p.relations[m].disposition = "attached_target"
                                  /\ p.relations[m].claim.target = p.attached[n].fact})
  BY <1>3 DEF ReferencesHold
<1>10. \A i \in Range(p.primary) \cup Range(attached) : RecordAccepted(k.facts[i])
  BY <1>5, <1>8
<1>11. PackReconciles(p)
  BY <1>4, <1>6, <1>7, <1>8, <1>9, <1>10 DEF PackReconciles
<1> QED
  BY <1>11 DEF p

\* The references of the results, followed.
Followed == ExpandReferences(Kb[context[Document]].claims, Primaries)

PackedInv ==
  pack # None /\ expansion # None =>
    /\ Searched /\ request.mode # "corpus"
    /\ expansion = Followed /\ pack = EvidencePack(Primaries, expansion)

\* No step was refused for what another derived, and what the next step needs
\* for that is there.
ReconcileInv ==
  /\ PipelineReconciles
  /\ stage \notin {"asked", "refused"} => SearchInputAccepted(request)
  /\ stage \in {"searched", "ranked", "expanded"} => Searched
  /\ stage \in {"asked", "loading", "loaded", "scored", "searched", "ranked"} => expansion = None
  /\ PackedInv

LEMMA SearchRemains ==
  ASSUME UNCHANGED <<request, loaded, context, scores, result>>
  PROVE  /\ Searched' = Searched /\ Followed' = Followed /\ Primaries' = Primaries
         /\ \A ex : EvidencePack(Primaries, ex)' = EvidencePack(Primaries, ex)
<1>1. /\ Grounded' = Grounded /\ Primaries' = Primaries /\ Document' = Document
      /\ (result = SearchResult(VectorCandidates, LexicalCandidates))'
           = (result = SearchResult(VectorCandidates, LexicalCandidates))
  BY SearchUndisturbed
<1>2. Followed' = Followed
  BY <1>1 DEF Followed
<1>3. Runtime' = Runtime
  BY DEF Runtime, Rows
<1>4. \A ex : EvidencePack(Primaries, ex)' = EvidencePack(Primaries, ex)
  BY <1>1, <1>3 DEF EvidencePack, Provenance
<1> QED
  BY <1>1, <1>2, <1>4 DEF Searched

\* The steps before there is a pack.
LEMMA ReconciledStill ==
  ASSUME ReconcileInv, UNCHANGED <<request, refusal, pack, expansion>>, pack = None,
         stage' \notin {"asked", "refused"} => SearchInputAccepted(request),
         stage' \in {"searched", "ranked", "expanded"} => Searched',
         stage' \in {"asked", "loading", "loaded", "scored", "searched", "ranked"} => expansion = None
  PROVE  ReconcileInv'
<1>1. SearchInputAccepted(request)' = SearchInputAccepted(request)
  BY DEF SearchInputAccepted
<1> QED
  BY <1>1 DEF ReconcileInv, PackedInv, PipelineReconciles

LEMMA ReconciledRefused ==
  ASSUME ReconcileInv, pack = None, NEW reason, reason # "contract", Refuse(reason)
  PROVE  ReconcileInv'
BY DEF Refuse, ReconcileInv, PackedInv, PipelineReconciles

LEMMA ReconcileInvInit == SearchInit => ReconcileInv
BY DEF SearchInit, ReconcileInv, PackedInv, PipelineReconciles

LEMMA ReconciledBefore ==
  ASSUME SearchInv, ReconcileInv,
         \/ \E d \in request.docs : WriteKb(d) \/ BuildIndex(d) \/ LoadIndex(d) \/ LoadFreshIndexContext(d)
         \/ Ask \/ ScoreRows
  PROVE  ReconcileInv'
<1>1. pack # None => stage = "packed"
  BY DEF SearchInv, StageInv
<1>2. /\ stage \notin {"asked", "refused"} => SearchInputAccepted(request)
      /\ stage \in {"asked", "loading", "loaded", "scored", "searched", "ranked"} => expansion = None
  BY DEF ReconcileInv
<1>3. ASSUME NEW d \in request.docs, WriteKb(d) \/ BuildIndex(d) PROVE ReconcileInv'
  <2>1. /\ stage \in {"asked", "loading"}
        /\ UNCHANGED <<request, stage, refusal, loaded, context, scores, result, expansion, pack>>
    BY <1>3 DEF WriteKb, BuildIndex, Reading
  <2> QED
    BY <1>1, <1>2, <2>1, ReconciledStill
<1>4. ASSUME NEW d \in request.docs, LoadIndex(d) PROVE ReconcileInv'
  <2>1. CASE index[d] = None
    BY <1>1, <1>4, <2>1, ReconciledRefused DEF LoadIndex
  <2>2. CASE index[d] # None
    <3>1. stage = "loading" /\ UNCHANGED <<request, stage, refusal, expansion, pack>>
      BY <1>4, <2>2 DEF LoadIndex
    <3> QED
      BY <1>1, <1>2, <3>1, ReconciledStill
  <2> QED
    BY <2>1, <2>2
<1>5. ASSUME NEW d \in request.docs, LoadFreshIndexContext(d) PROVE ReconcileInv'
  <2>1. stage = "loading"
    BY <1>5 DEF LoadFreshIndexContext
  <2>2. CASE Refuse("kb") \/ Refuse("stale")
    BY <1>1, <2>1, <2>2, ReconciledRefused
  <2>3. CASE ~ (Refuse("kb") \/ Refuse("stale"))
    <3>1. stage' \in {"loaded", "loading"} /\ UNCHANGED <<request, refusal, expansion, pack>>
      BY <1>5, <2>3 DEF LoadFreshIndexContext
    <3> QED
      BY <1>1, <1>2, <2>1, <3>1, ReconciledStill
  <2> QED
    BY <2>2, <2>3
<1>6. CASE Ask
  <2>1. CASE SearchInputAccepted(request)
    <3>1. stage = "asked" /\ stage' = "loading" /\ UNCHANGED <<request, refusal, expansion, pack>>
      BY <1>6, <2>1 DEF Ask
    <3> QED
      BY <1>1, <1>2, <2>1, <3>1, ReconciledStill
  <2>2. CASE ~ SearchInputAccepted(request)
    BY <1>1, <1>6, <2>2, ReconciledRefused DEF Ask
  <2> QED
    BY <2>1, <2>2
<1>7. CASE ScoreRows
  <2>1. stage = "loaded"
    BY <1>7 DEF ScoreRows
  <2>2. CASE Refuse("provider")
    BY <1>1, <2>1, <2>2, ReconciledRefused
  <2>3. CASE ~ Refuse("provider")
    <3>1. stage' = "scored" /\ UNCHANGED <<request, refusal, expansion, pack>>
      BY <1>7, <2>3 DEF ScoreRows
    <3> QED
      BY <1>1, <1>2, <2>1, <3>1, ReconciledStill
  <2> QED
    BY <2>2, <2>3
<1> QED
  BY <1>3, <1>4, <1>5, <1>6, <1>7

\* The self-audit of the result finds nothing.
LEMMA RankedReconciled ==
  ASSUME SearchInv, ReconcileInv, Search PROVE ReconcileInv'
<1> DEFINE res == SearchResult(VectorCandidates, LexicalCandidates)
<1>1. stage = "scored" /\ Grounded /\ pack = None /\ expansion = None /\ SearchInputAccepted(request)
  BY DEF Search, SearchInv, StageInv, ReconcileInv
<1>2. ResultReconciles(res)
  BY <1>1, ResultHolds
<1>3. /\ result' = res /\ stage' \in {"searched", "ranked"}
      /\ UNCHANGED <<kb, index, request, refusal, loaded, context, scores, expansion, pack>>
  BY <1>2 DEF Search
<1>4. Searched'
  <2>1. Grounded'
    BY <1>1, <1>3, ScoresOfLoaded DEF Grounded
  <2>2. VectorCandidates' = VectorCandidates /\ LexicalCandidates' = LexicalCandidates
    BY <1>3 DEF VectorCandidates, LexicalCandidates
  <2>3. SearchResult(VectorCandidates, LexicalCandidates)' = res
    BY <1>3, <2>2 DEF SearchResult, Fused
  <2> QED
    BY <1>3, <2>1, <2>3 DEF Searched
<1> QED
  BY <1>1, <1>3, <1>4, ReconciledStill

LEMMA OneIndexOneDocument ==
  ASSUME SearchInv, request.mode # "corpus" PROVE Cardinality(request.docs) = 1
BY SearchAssumption DEF SearchInv, FilesInv

\* Expansion finds the index and the claims aligned.
LEMMA ExpandedReconciled ==
  ASSUME SearchInv, ReconcileInv, Expand PROVE ReconcileInv'
<1>1. stage = "ranked" /\ request.mode # "corpus" /\ pack = None
  BY DEF Expand, SearchInv, StageInv
<1>2. Searched /\ SearchInputAccepted(request)
  BY <1>1 DEF ReconcileInv
<1>3. Aligned(Document)
  BY <1>1, <1>2, OneIndexOneDocument, DocumentAligned
<1>4. stage' = "expanded" /\ UNCHANGED <<request, refusal, loaded, context, scores, result, pack>>
  BY <1>3 DEF Expand
<1>5. Searched'
  BY <1>2, <1>4, SearchRemains
<1>6. SearchInputAccepted(request)' /\ PipelineReconciles'
  BY <1>2, <1>4 DEF SearchInputAccepted, PipelineReconciles, ReconcileInv
<1> QED
  BY <1>1, <1>4, <1>5, <1>6 DEF ReconcileInv, PackedInv

\* The pack is accepted, with or without references.
LEMMA PackedReconciled ==
  ASSUME SearchInv, ReconcileInv, Pack PROVE ReconcileInv'
<1> DEFINE ex == IF stage = "expanded" THEN expansion ELSE NoReferences
           p == EvidencePack(Primaries, ex)
<1>1. /\ stage \in {"expanded", "searched"} /\ Searched /\ SearchInputAccepted(request)
      /\ stage = "searched" => Cardinality(request.docs) = 1 /\ expansion = None
  BY DEF Pack, ReconcileInv
<1>2. stage = "expanded" => request.mode # "corpus" /\ expansion = Followed
  BY DEF SearchInv, StageInv, ExpansionInv, Followed
<1>3. Cardinality(request.docs) = 1
  BY <1>1, <1>2, OneIndexOneDocument
<1>4. Follows(ex)
  <2>1. ex = Followed \/ ex = NoReferences
    BY <1>2
  <2> HIDE DEF ex
  <2> QED
    BY <1>1, <1>3, <2>1, ExpansionFollows DEF Followed
<1>5. ExpansionBound(ex) /\ PackReconciles(p)
  <2> HIDE DEF ex
  <2> QED
    BY <1>1, <1>3, <1>4, ExpansionIsBound, PackIsAccepted
<1>6. /\ pack' = p /\ stage' = "packed"
      /\ UNCHANGED <<kb, index, request, refusal, loaded, context, scores, result, expansion>>
  BY <1>5 DEF Pack
<1> HIDE DEF p
<1>7. /\ Searched' = Searched /\ Followed' = Followed /\ Primaries' = Primaries
      /\ EvidencePack(Primaries, expansion)' = EvidencePack(Primaries, expansion)
  BY <1>6, SearchRemains
<1>8. PackedInv'
  <2> SUFFICES ASSUME expansion # None PROVE PackedInv'
    BY <1>6 DEF PackedInv
  <2>1. stage = "expanded"
    BY <1>1
  <2>2. p = EvidencePack(Primaries, expansion)
    BY <2>1 DEF p
  <2>3. request'.mode # "corpus" /\ expansion' = Followed' /\ pack' = EvidencePack(Primaries, expansion)'
    BY <1>2, <1>6, <1>7, <2>1, <2>2
  <2> QED
    BY <1>1, <1>7, <2>3 DEF PackedInv
<1>9. SearchInputAccepted(request)' /\ PipelineReconciles'
  BY <1>1, <1>6 DEF SearchInputAccepted, PipelineReconciles, ReconcileInv
<1> QED
  BY <1>6, <1>8, <1>9 DEF ReconcileInv

LEMMA ReconcileInvStep == SearchInv /\ ReconcileInv /\ [SearchNext]_searchVars => ReconcileInv'
<1> SUFFICES ASSUME SearchInv, ReconcileInv, [SearchNext]_searchVars PROVE ReconcileInv'
  OBVIOUS
<1>1. CASE UNCHANGED searchVars
  <2>1. UNCHANGED <<request, stage, refusal, loaded, context, scores, result, expansion, pack>>
    BY <1>1 DEF searchVars
  <2>2. /\ Searched' = Searched /\ Followed' = Followed /\ Primaries' = Primaries
        /\ EvidencePack(Primaries, expansion)' = EvidencePack(Primaries, expansion)
    BY <2>1, SearchRemains
  <2>3. PackedInv'
    BY <2>1, <2>2 DEF ReconcileInv, PackedInv
  <2>4. /\ SearchInputAccepted(request)' = SearchInputAccepted(request)
        /\ PipelineReconciles' = PipelineReconciles
    BY <2>1 DEF SearchInputAccepted, PipelineReconciles
  <2> QED
    BY <2>1, <2>2, <2>3, <2>4 DEF ReconcileInv
<1>2. CASE Search
  BY <1>2, RankedReconciled
<1>3. CASE Expand
  BY <1>3, ExpandedReconciled
<1>4. CASE Pack
  BY <1>4, PackedReconciled
<1> QED
  BY <1>1, <1>2, <1>3, <1>4, ReconciledBefore DEF SearchNext

LEMMA ReconcileInvariant == SearchSpec => []ReconcileInv
BY ReconcileInvInit, ReconcileInvStep, SearchInvariant, PTL DEF SearchSpec

\* No step is refused for what an earlier one derived: whatever documents,
\* filters, depths and margins, and whatever is rewritten while a search reads,
\* the audits of the result and of the pack find nothing (hybrid_search.py,
\* reference_expansion.py, schemas/evidence_pack.py).
THEOREM DerivedIsAccepted == SearchSpec => []PipelineReconciles
<1>1. ReconcileInv => PipelineReconciles
  BY DEF ReconcileInv
<1> QED
  BY <1>1, ReconcileInvariant, PTL

-----------------------------------------------------------------------------
(* No guess is hidden in a pack.                                           *)

BestOf(cs, claim, j) ==
  LET own == {e \in ScoredTargets(cs, claim.source, claim) : e.target = j}
  IN IF own = {} THEN 0 ELSE Max({e.score : e \in own})

\* A claim scores the chunks as the reference it was made of.
LEMMA ClaimScores ==
  ASSUME NEW cs, NEW i, NEW ref, NEW claim, claim = Claim(cs, i, ref)
  PROVE  ScoredTargets(cs, claim.source, claim) = ScoredTargets(cs, i, ref)
<1>1. claim.source = i /\ claim.key = ref.key /\ claim.direction = ref.direction
  BY DEF Claim
<1>2. \A j, a : CandidateScore(cs, i, j, claim, a) = CandidateScore(cs, i, j, ref, a)
  BY <1>1 DEF CandidateScore
<1> QED
  BY <1>1, <1>2 DEF ScoredTargets

\* A resolved claim leads to the chunk that beats the others by the margin.
LEMMA ClaimBeatsOthers ==
  ASSUME NEW cs, NEW n \in Nat, DOMAIN cs = 1 .. n, NEW i \in 1 .. n, NEW ref,
         NEW claim, claim = Claim(cs, i, ref), claim.status = "resolved",
         NEW j, j # claim.target
  PROVE  BestOf(cs, claim, claim.target) > BestOf(cs, claim, j) + (IF BestOf(cs, claim, j) = 0 THEN 0 ELSE Margin)
<1> DEFINE scored == ScoredTargets(cs, i, ref)
           top == Max({e.score : e \in scored})
           best == {e \in scored : e.score = top}
           t == CHOOSE e \in best : TRUE
           Own(x) == {e \in scored : e.target = x}
<1>1. /\ \A e \in scored : e.score \in Int /\ e.score > 0
      /\ IsFiniteSet({e.score : e \in scored})
  BY TargetsScored
<1>2. /\ scored # {} /\ claim.target = t.target
      /\ \A e \in scored : \A b \in best : e # b => top - e.score > Margin
  <2> HIDE DEF scored
  <2> QED
    BY DEF Claim, scored
<1>3. ScoredTargets(cs, claim.source, claim) = scored
  BY ClaimScores
<1> HIDE DEF scored
<1>4. top \in {e.score : e \in scored} /\ \A e \in scored : top >= e.score
  <2> DEFINE S == {e.score : e \in scored}
  <2>1. S \subseteq Int /\ S # {} /\ IsFiniteSet(S)
    BY <1>1, <1>2
  <2>2. \A e \in scored : e.score \in S
    OBVIOUS
  <2> HIDE DEF S
  <2>3. Max(S) \in S /\ \A y \in S : Max(S) >= y
    BY <2>1, GreatestOfFinite
  <2> QED
    BY <2>2, <2>3 DEF S
<1> HIDE DEF top
<1>5. t \in scored /\ t.score = top
  BY <1>4
<1>6. \A e \in scored : e # t => top - e.score > Margin
  BY <1>2, <1>5
<1> HIDE DEF t, best
<1>7. ASSUME NEW x, Own(x) # {}
      PROVE  /\ \E e \in Own(x) : Max({f.score : f \in Own(x)}) = e.score
             /\ \A e \in Own(x) : Max({f.score : f \in Own(x)}) >= e.score
  <2> DEFINE S == {f.score : f \in Own(x)}
  <2>1. S \subseteq {e.score : e \in scored} /\ S \subseteq Int /\ S # {}
    BY <1>1, <1>7
  <2>2. \A e \in Own(x) : e.score \in S
    OBVIOUS
  <2>3. \A s \in S : \E e \in Own(x) : s = e.score
    OBVIOUS
  <2> HIDE DEF S, Own
  <2>4. IsFiniteSet(S)
    BY <1>1, <2>1, FS_Subset
  <2>5. Max(S) \in S /\ \A y \in S : Max(S) >= y
    BY <2>1, <2>4, GreatestOfFinite
  <2> QED
    BY <2>2, <2>3, <2>5 DEF S
<1>8. \A x : BestOf(cs, claim, x) = IF Own(x) = {} THEN 0 ELSE Max({f.score : f \in Own(x)})
  BY <1>3 DEF BestOf
<1>9. Margin \in Nat
  BY SearchAssumption
<1>10. BestOf(cs, claim, claim.target) = top
  <2>1. t \in Own(claim.target)
    BY <1>2, <1>5
  <2>2. PICK e \in Own(claim.target) : BestOf(cs, claim, claim.target) = e.score /\ e.score >= t.score
    BY <1>7, <1>8, <2>1
  <2> QED
    BY <1>1, <1>4, <1>5, <2>2
<1>11. CASE Own(j) = {}
  <2>1. BestOf(cs, claim, j) = 0
    BY <1>8, <1>11
  <2> HIDE DEF Own
  <2> QED
    BY <1>1, <1>5, <1>10, <2>1
<1>12. CASE Own(j) # {}
  <2>1. PICK e \in Own(j) : BestOf(cs, claim, j) = e.score
    BY <1>7, <1>8, <1>12
  <2>2. e \in scored /\ e # t
    BY <1>2, <2>1
  <2>3. top - e.score > Margin /\ e.score \in Int /\ e.score > 0 /\ top \in Int
    BY <1>1, <1>5, <1>6, <2>2
  <2> HIDE DEF Own
  <2> QED
    BY <1>9, <1>10, <2>1, <2>3
<1> QED
  BY <1>11, <1>12

LEMMA UncertaintyShown ==
  ASSUME SearchInv, ReconcileInv PROVE UncertaintyVisible
<1> SUFFICES ASSUME pack # None, expansion # None PROVE UncertaintyVisible
  BY DEF UncertaintyVisible
<1> DEFINE p == context[Document]
           cs == Kept(p)
           claims == Kb[p].claims
           facts == DOMAIN Kb[p].facts
           views == expansion.views
           all == pack.relations \o pack.warnings
<1>1. /\ Searched /\ request.mode # "corpus" /\ expansion = Followed
      /\ pack = EvidencePack(Primaries, expansion)
  BY DEF ReconcileInv, PackedInv
<1>2. Cardinality(request.docs) = 1
  BY <1>1, OneIndexOneDocument
<1>3. p \in Pdfs /\ p = loaded[Document].kb
  BY <1>1, <1>2, DocumentLoaded DEF Searched
<1>4. ClaimsFollow(cs, claims)
  BY <1>3, ClaimsOfKbs
<1>5. Citing(claims, Primaries, facts)
  BY <1>1, <1>2, <1>3, DocumentCites
<1>6. facts = DOMAIN cs /\ \E n \in Nat : DOMAIN cs = 1 .. n
  BY <1>3, ChunksKept
<1>7. /\ pack.primary = Primaries /\ pack.attached = expansion.targets
      /\ pack.relations = Part(views, Resolved(views))
      /\ pack.warnings = Part(views, Open(views))
  BY <1>1 DEF EvidencePack, Resolved, Open
<1>8. ViewsAre(views, claims, Primaries) /\ ViewsCover(views, claims, Primaries)
  <2>1. expansion = ExpandReferences(claims, Primaries)
    BY <1>1 DEF Followed
  <2> HIDE DEF claims, facts
  <2> QED
    BY <1>5, <2>1, ViewsListed
<1>9. TargetsAre(expansion.targets, views)
  BY <1>1, <1>2, ExpansionFollows DEF Followed, Follows
<1> HIDE DEF claims, facts, cs, p, views
<1>10. PackedAre(views, pack.relations, pack.warnings)
  BY <1>5, <1>7, <1>8, PackedClaims
<1>11. /\ Range(pack.relations) = {views[n] : n \in Resolved(views)}
       /\ Range(all) = {views[n] : n \in DOMAIN views}
       /\ \A j, k \in DOMAIN all : Identity(all[j]) = Identity(all[k]) => j = k
  BY <1>10 DEF PackedAre
<1> HIDE DEF all
<1>12. ASSUME NEW v \in Range(pack.relations), NEW j, j # v.claim.target
       PROVE  BestOf(cs, v.claim, v.claim.target)
                > BestOf(cs, v.claim, j) + (IF BestOf(cs, v.claim, j) = 0 THEN 0 ELSE Margin)
  <2>1. PICK n \in DOMAIN views : v = views[n] /\ v.claim.status = "resolved"
    BY <1>11 DEF Resolved
  <2>2. ViewIs(v, claims, Primaries)
    BY <1>8, <2>1 DEF ViewsAre
  <2>3. PICK i \in DOMAIN cs : \E c \in DOMAIN claims[i] : v.claim = claims[i][c]
    <3>1. Primaries[v.rank] \in DOMAIN cs
      BY <1>5, <1>6, <2>2 DEF Citing, ViewIs
    <3> QED
      BY <2>2, <3>1 DEF ViewIs
  <2>4. \E ref \in Range(cs[i].refs) : v.claim = Claim(cs, i, ref)
    BY <1>4, <2>3 DEF ClaimsFollow
  <2>5. PICK ref : v.claim = Claim(cs, i, ref)
    BY <2>4
  <2>6. PICK m \in Nat : DOMAIN cs = 1 .. m
    BY <1>6
  <2> QED
    BY <1>12, <2>1, <2>3, <2>5, <2>6, ClaimBeatsOthers
<1>13. ASSUME NEW k \in DOMAIN pack.attached
       PROVE  /\ pack.attached[k].fact \notin Range(pack.primary)
              /\ \E v \in Range(pack.relations) : v.claim.target = pack.attached[k].fact
  <2>1. AttachedHolds(pack.attached[k], pack.relations, Primaries, facts)
    BY <1>5, <1>7, <1>8, <1>9, AttachedHold
  <2> QED
    BY <1>7, <2>1 DEF AttachedHolds
<1>14. ASSUME NEW k \in DOMAIN pack.primary, NEW ref \in Range(cs[pack.primary[k]].refs)
       PROVE  Cardinality({n \in DOMAIN all : /\ all[n].rank = k
                                              /\ ReferenceOf(all[n].claim) = <<ref.label, ref.key, ref.direction>>}) = 1
  <2> DEFINE i == Primaries[k]
             C == {n \in DOMAIN all : /\ all[n].rank = k
                                      /\ ReferenceOf(all[n].claim) = <<ref.label, ref.key, ref.direction>>}
  <2>1. k \in DOMAIN Primaries /\ i \in DOMAIN cs /\ ref \in Range(cs[i].refs)
    BY <1>5, <1>6, <1>7 DEF Citing
  <2>2. PICK c \in DOMAIN claims[i] : claims[i][c] = Claim(cs, i, ref)
    BY <1>4, <2>1 DEF ClaimsFollow
  <2>3. PICK n \in DOMAIN views : views[n].rank = k /\ views[n].place = c
    BY <1>8, <2>1 DEF ViewsCover
  <2>4. views[n].claim = Claim(cs, i, ref)
    <3>1. ViewIs(views[n], claims, Primaries)
      BY <1>8 DEF ViewsAre
    <3> QED
      BY <2>2, <2>3, <3>1 DEF ViewIs
  <2>5. ReferenceOf(Claim(cs, i, ref)) = <<ref.label, ref.key, ref.direction>>
    <3>1. PICK m \in Nat : DOMAIN cs = 1 .. m
      BY <1>6
    <3> QED
      BY <2>1, <3>1, ClaimsOfChunk
  <2>6. PICK m \in DOMAIN all : all[m] = views[n]
    BY <1>11 DEF Range
  <2>7. m \in C
    BY <2>3, <2>4, <2>5, <2>6
  <2>8. \A x, y \in C : x = y
    <3> SUFFICES ASSUME NEW x \in C, NEW y \in C PROVE x = y
      OBVIOUS
    <3>1. Identity(all[x]) = Identity(all[y])
      BY DEF Identity, ReferenceOf
    <3> QED
      BY <1>11, <3>1
  <2> HIDE DEF C
  <2>9. C = {m}
    BY <2>7, <2>8
  <2>10. Cardinality(C) = 1
    BY <2>9, FS_Singleton
  <2> QED
    BY <2>10 DEF C
<1> QED
  BY <1>12, <1>13, <1>14 DEF UncertaintyVisible, BestOf, ReferenceOf, Kept, cs, p, all

\* A pack hides no guess: a reference is followed only to the chunk that beats
\* every other by more than the margin, and each reference of a result is in the
\* pack once, followed or as a warning (reference_resolver.py,
\* retrieval/reference_expansion.py, schemas/evidence_pack.py).
THEOREM UncertaintyStaysVisible == SearchSpec => []UncertaintyVisible
<1>1. SearchInv /\ ReconcileInv => UncertaintyVisible
  BY UncertaintyShown
<1> QED
  BY <1>1, SearchInvariant, ReconcileInvariant, PTL
=============================================================================
