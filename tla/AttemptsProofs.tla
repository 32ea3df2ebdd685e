--------------------------- MODULE AttemptsProofs ---------------------------
(***************************************************************************)
(* What Attempts guarantees for every number of attempts, concurrent       *)
(* requests, credentials, answers and grades, and what scoring makes of    *)
(* every sheet (Marking).                                                  *)
(***************************************************************************)
EXTENDS AttemptView, Marking, TLAPS
LOCAL INSTANCE FiniteSetTheorems
LOCAL INSTANCE Functions      \* Range, SumFunction
LOCAL INSTANCE FiniteSetsExt  \* Max, Min

-----------------------------------------------------------------------------
(* Sums.  A sum is a recursive function on subsets, of which there is      *)
(* exactly one; a claim that fails of a finite set fails of a least        *)
(* subset, and that is how it is refuted.                                  *)

AnyOf(s) == CHOOSE x \in s : TRUE

(* g adds up f over every subset of S.                                     *)
AddsUp(g, f, S) ==
  g = [s \in SUBSET S |-> IF s = {} THEN 0 ELSE f[AnyOf(s)] + g[s \ {AnyOf(s)}]]

LEMMA SumIs ==
  ASSUME NEW f, NEW S
  PROVE  SumFunctionOnSet(f, S) = (CHOOSE g : AddsUp(g, f, S))[S]
  BY DEF SumFunctionOnSet, FoldFunctionOnSet, MapThenFoldSet, AddsUp, AnyOf

(* Induction over a finite set: of the subsets that fail, one is minimal.  *)
LEMMA LeastSubset ==
  ASSUME NEW S, IsFiniteSet(S), NEW T, T \subseteq SUBSET S, T # {}
  PROVE  \E s \in T : \A t \in T : t \subseteq s => t = s
<1>1. IsWellFoundedOn(StrictSubsetOrdering(S), SUBSET S)
  BY FS_StrictSubsetOrderingWellFounded, FS_FiniteSubsetsOfFinite
<1>2. PICK s \in T : \A t \in T : ~ (<<t, s>> \in StrictSubsetOrdering(S))
  BY <1>1, WFMin
<1> QED
  BY <1>2 DEF StrictSubsetOrdering

LEMMA AnyOfIn == ASSUME NEW s, s # {} PROVE AnyOf(s) \in s /\ s \ {AnyOf(s)} # s
  BY DEF AnyOf

LEMMA AddsUpAlike ==
  ASSUME NEW f, NEW S, NEW R, IsFiniteSet(S), NEW g, AddsUp(g, f, S), NEW h, AddsUp(h, f, R),
         S \subseteq R
  PROVE  \A s \in SUBSET S : g[s] = h[s]
<1> DEFINE T == {s \in SUBSET S : g[s] # h[s]}
<1> SUFFICES ASSUME T # {} PROVE FALSE
  OBVIOUS
<1>1. PICK s \in T : \A t \in T : t \subseteq s => t = s
  <2>1. T \subseteq SUBSET S
    OBVIOUS
  <2> HIDE DEF T
  <2> QED
    BY <2>1, LeastSubset
<1>2. s \in SUBSET S /\ s \in SUBSET R /\ g[s] # h[s]
  BY <1>1
<1>3. /\ g[s] = IF s = {} THEN 0 ELSE f[AnyOf(s)] + g[s \ {AnyOf(s)}]
      /\ h[s] = IF s = {} THEN 0 ELSE f[AnyOf(s)] + h[s \ {AnyOf(s)}]
  BY <1>2 DEF AddsUp
<1>4. s # {} => g[s \ {AnyOf(s)}] = h[s \ {AnyOf(s)}]
  BY <1>1, <1>2, AnyOfIn
<1> QED
  BY <1>2, <1>3, <1>4

LEMMA SomeAddsUp ==
  ASSUME NEW f, NEW S, IsFiniteSet(S)
  PROVE  \E g : AddsUp(g, f, S)
<1> DEFINE T == {s \in SUBSET S : ~ \E g : AddsUp(g, f, s)}
<1> SUFFICES ASSUME T # {} PROVE FALSE
  OBVIOUS
<1>1. PICK s \in T : \A t \in T : t \subseteq s => t = s
  <2>1. T \subseteq SUBSET S
    OBVIOUS
  <2> HIDE DEF T
  <2> QED
    BY <2>1, LeastSubset
<1>2. s \in SUBSET S /\ ~ \E g : AddsUp(g, f, s)
  BY <1>1
<1> DEFINE Some(t) == CHOOSE g : AddsUp(g, f, t)
           a == AnyOf(s)
           h == [t \in SUBSET s |-> IF t = s
                                    THEN IF s = {} THEN 0 ELSE f[a] + Some(s \ {a})[s \ {a}]
                                    ELSE Some(t)[t]]
<1>3. \A t \in SUBSET s : t # s => AddsUp(Some(t), f, t)
  BY <1>1, <1>2
<1>4. ASSUME NEW t \in SUBSET s, t # s, t # {}
      PROVE  Some(t)[t] = f[AnyOf(t)] + Some(t \ {AnyOf(t)})[t \ {AnyOf(t)}]
  <2> DEFINE r == t \ {AnyOf(t)}
  <2>1. r \in SUBSET t /\ r \in SUBSET s /\ r # s /\ IsFiniteSet(r)
    BY <1>2, <1>4, AnyOfIn, FS_Subset
  <2>2. AddsUp(Some(t), f, t) /\ AddsUp(Some(r), f, r)
    BY <1>3, <1>4, <2>1
  <2> HIDE DEF Some
  <2>3. Some(t)[t] = f[AnyOf(t)] + Some(t)[r]
    BY <1>4, <2>2 DEF AddsUp
  <2>4. Some(r)[r] = Some(t)[r]
    BY <2>1, <2>2, AddsUpAlike
  <2> QED
    BY <2>3, <2>4
<1> HIDE DEF Some
<1>5. \A t \in SUBSET s : h[t] = IF t = {} THEN 0 ELSE f[AnyOf(t)] + h[t \ {AnyOf(t)}]
  <2> SUFFICES ASSUME NEW t \in SUBSET s
               PROVE  h[t] = IF t = {} THEN 0 ELSE f[AnyOf(t)] + h[t \ {AnyOf(t)}]
    OBVIOUS
  <2>1. t # {} => t \ {AnyOf(t)} \in SUBSET s /\ t \ {AnyOf(t)} # s
    BY AnyOfIn
  <2>2. t # {} => h[t \ {AnyOf(t)}] = Some(t \ {AnyOf(t)})[t \ {AnyOf(t)}]
    BY <2>1
  <2>3. CASE t = s
    BY <2>2, <2>3
  <2>4. CASE t # s /\ t # {}
    BY <1>4, <2>2, <2>4
  <2>5. CASE t # s /\ t = {}
    <3>1. AddsUp(Some(t), f, t)
      BY <1>3, <2>5
    <3> QED
      BY <2>5, <3>1 DEF AddsUp
  <2> QED
    BY <2>3, <2>4, <2>5
<1> HIDE DEF h
<1>6. h = [t \in SUBSET s |-> h[t]]
  BY DEF h
<1>7. AddsUp(h, f, s)
  BY <1>5, <1>6 DEF AddsUp
<1> QED
  BY <1>2, <1>7

(* The sum, one index after the other.                                     *)
LEMMA SumOneByOne ==
  ASSUME NEW f, NEW S, IsFiniteSet(S)
  PROVE  SumFunctionOnSet(f, S) =
           IF S = {} THEN 0
           ELSE f[AnyOf(S)] + SumFunctionOnSet(f, S \ {AnyOf(S)})
<1> DEFINE Some(t) == CHOOSE g : AddsUp(g, f, t)
           r == S \ {AnyOf(S)}
<1>1. IsFiniteSet(r) /\ r \subseteq S
  BY FS_Subset
<1>2. AddsUp(Some(S), f, S) /\ AddsUp(Some(r), f, r)
  BY <1>1, SomeAddsUp
<1>3. SumFunctionOnSet(f, S) = Some(S)[S] /\ SumFunctionOnSet(f, r) = Some(r)[r]
  BY SumIs
<1> HIDE DEF Some
<1>4. Some(S)[r] = Some(r)[r]
  <2>1. \A t \in SUBSET r : Some(r)[t] = Some(S)[t]
    BY <1>1, <1>2, AddsUpAlike
  <2> QED
    BY <2>1
<1>5. Some(S)[S] = IF S = {} THEN 0 ELSE f[AnyOf(S)] + Some(S)[r]
  BY <1>2 DEF AddsUp
<1> QED
  BY <1>3, <1>4, <1>5

(* Sums of natural numbers: larger summands, larger sum.                   *)
LEMMA SumsGrow ==
  ASSUME NEW f, NEW g, NEW S, IsFiniteSet(S),
         \A i \in S : f[i] \in Nat /\ g[i] \in Nat /\ f[i] <= g[i]
  PROVE  /\ SumFunctionOnSet(f, S) \in Nat /\ SumFunctionOnSet(g, S) \in Nat
         /\ SumFunctionOnSet(f, S) <= SumFunctionOnSet(g, S)
<1> DEFINE Grows(s) == /\ SumFunctionOnSet(f, s) \in Nat /\ SumFunctionOnSet(g, s) \in Nat
                       /\ SumFunctionOnSet(f, s) <= SumFunctionOnSet(g, s)
           T == {s \in SUBSET S : ~ Grows(s)}
<1> SUFFICES ASSUME T # {} PROVE FALSE
  OBVIOUS
<1>1. PICK s \in T : \A t \in T : t \subseteq s => t = s
  <2>1. T \subseteq SUBSET S
    OBVIOUS
  <2> HIDE DEF T
  <2> QED
    BY <2>1, LeastSubset
<1> DEFINE a == AnyOf(s)  r == s \ {a}
<1>2. s \in SUBSET S /\ ~ Grows(s) /\ IsFiniteSet(s)
  BY <1>1, FS_Subset
<1>3. s # {} => Grows(r) /\ a \in S
  BY <1>1, <1>2, AnyOfIn
<1>4. /\ SumFunctionOnSet(f, s) = IF s = {} THEN 0 ELSE f[a] + SumFunctionOnSet(f, r)
      /\ SumFunctionOnSet(g, s) = IF s = {} THEN 0 ELSE g[a] + SumFunctionOnSet(g, r)
  BY <1>2, SumOneByOne
<1> HIDE DEF a, r
<1> QED
  BY <1>2, <1>3, <1>4

LEMMA SumPositive ==
  ASSUME NEW f, NEW S, IsFiniteSet(S), S # {}, \A i \in S : f[i] \in Nat \ {0}
  PROVE  SumFunctionOnSet(f, S) \in Nat \ {0}
<1> DEFINE a == AnyOf(S)  r == S \ {a}
<1>1. a \in S /\ IsFiniteSet(r) /\ r \subseteq S
  BY AnyOfIn, FS_Subset
<1>2. SumFunctionOnSet(f, r) \in Nat
  BY <1>1, SumsGrow
<1>3. SumFunctionOnSet(f, S) = f[a] + SumFunctionOnSet(f, r)
  BY SumOneByOne
<1> HIDE DEF a, r
<1> QED
  BY <1>1, <1>2, <1>3

-----------------------------------------------------------------------------
(* Arithmetic.                                                             *)

LEMMA Products ==
  /\ \A a, b \in Nat : a * b \in Nat /\ a * b = b * a
  /\ \A a, b, x \in Nat : a <= b => a * x <= b * x /\ x * a <= x * b
  /\ \A a, x \in Nat : a * (x + 1) = a * x + a
<1>1. \A a, b \in Nat : a * b \in Nat /\ a * b = b * a
  OBVIOUS
<1>2. \A a, b, x \in Nat : a <= b => a * x <= b * x /\ x * a <= x * b
  OBVIOUS
<1>3. \A a, x \in Nat : a * (x + 1) = a * x + a
  OBVIOUS
<1> QED
  BY <1>1, <1>2, <1>3

LEMMA Quotient ==
  ASSUME NEW x \in Nat, NEW d \in Nat \ {0}
  PROVE  /\ x \div d \in Nat /\ d * (x \div d) \in Nat
         /\ d * (x \div d) <= x /\ x < d * (x \div d) + d
<1>1. x \div d \in Nat /\ x % d \in 0..d - 1 /\ x = d * (x \div d) + (x % d)
  OBVIOUS
<1>2. d * (x \div d) \in Nat
  BY <1>1, Products
<1> QED
  BY <1>1, <1>2

(* A quotient is bounded where the multiple of the divisor is.             *)
LEMMA QuotientBound ==
  ASSUME NEW x \in Nat, NEW d \in Nat \ {0}, NEW b \in Nat
  PROVE  /\ x < d * b + d => x \div d <= b
         /\ d * b <= x => b <= x \div d
<1> DEFINE q == x \div d
<1>1. q \in Nat /\ d * q \in Nat /\ d * q <= x /\ x < d * q + d /\ d * b \in Nat
  BY Quotient, Products
<1> HIDE DEF q
<1>2. b + 1 <= q => d * b + d <= d * q
  BY <1>1, Products
<1>3. q + 1 <= b => d * q + d <= d * b
  BY <1>1, Products
<1>4. (x < d * b + d => q <= b) /\ (d * b <= x => b <= q)
  BY <1>1, <1>2, <1>3
<1> QED
  BY <1>4 DEF q

LEMMA QuotientsGrow ==
  ASSUME NEW x \in Nat, NEW y \in Nat, NEW d \in Nat \ {0}, x <= y
  PROVE  x \div d <= y \div d
<1>1. x \div d \in Nat /\ d * (x \div d) <= x /\ d * (x \div d) \in Nat
  BY Quotient
<1>2. d * (x \div d) <= y
  BY <1>1
<1> QED
  BY <1>1, <1>2, QuotientBound

LEMMA GreaterOf == ASSUME NEW n \in Int PROVE Max({0, n}) = IF n > 0 THEN n ELSE 0
<1> DEFINE x == IF n > 0 THEN n ELSE 0
<1>1. x \in {0, n} /\ \A y \in {0, n} : x >= y
  OBVIOUS
<1>2. \A z \in {0, n} : (\A y \in {0, n} : z >= y) => z = x
  OBVIOUS
<1> HIDE DEF x
<1>3. Max({0, n}) = x
  BY <1>1, <1>2 DEF Max
<1> QED
  BY <1>3 DEF x

LEMMA LesserOf ==
  ASSUME NEW n \in Nat, NEW k \in Nat PROVE Min({n, k}) = IF n <= k THEN n ELSE k
<1> DEFINE x == IF n <= k THEN n ELSE k
<1>1. x \in {n, k} /\ \A y \in {n, k} : x <= y
  OBVIOUS
<1>2. \A z \in {n, k} : (\A y \in {n, k} : z <= y) => z = x
  OBVIOUS
<1> HIDE DEF x
<1>3. Min({n, k}) = x
  BY <1>1, <1>2 DEF Min
<1> QED
  BY <1>3 DEF x

-----------------------------------------------------------------------------
(* Scoring.                                                                *)

LEMMA Assessed ==
  /\ Grades \subseteq Nat /\ NULL \notin Nat /\ NULL \notin BOOLEAN
  /\ \A i \in Items : Points[i] \in Nat \ {0}
  /\ PassPercent \in Nat \ {0} /\ Fine \in Nat \ {0}
<1>1. Grades \subseteq Nat /\ NULL \notin Nat /\ NULL \notin BOOLEAN
  BY AssessmentAssumption DEF AssessmentAssumption
<1>2. /\ Points \in [Items -> Nat \ {0}] /\ Fine \in Nat \ {0}
      /\ PassPercent \in (100 * Fine)..(10000 * Fine)
  BY AssessmentAssumption DEF AssessmentAssumption
<1>3. PassPercent \in Nat \ {0}
  BY <1>2
<1> QED
  BY <1>1, <1>2, <1>3

(* A response, and what the handlers hand to scoreAttempt.                 *)
Picked(x) == x \in Seq(Range(x))
Scorable(s, m) == \A i \in Items : /\ s[i] = NULL \/ Picked(s[i])
                                   /\ m[i] \in Grades \cup {NULL}

LEMMA PickedIsFinite == ASSUME NEW x, Picked(x) PROVE IsFiniteSet(Range(x))
<1>1. x \in [1..Len(x) -> Range(x)] /\ Len(x) \in Nat
  BY DEF Picked
<1>2. x \in Surjection(1..Len(x), Range(x))
  BY <1>1 DEF Surjection, Range
<1> QED
  BY <1>1, <1>2, FS_Surjection, FS_Interval

(* The key of an item that needs one.                                      *)
LEMMA KeyIsFinite ==
  ASSUME NEW i \in Items, Kind[i] # "constructed"
  PROVE  IsFiniteSet(Range(Key[i])) /\ Cardinality(Range(Key[i])) \in Nat \ {0}
<1>1. Picked(Key[i]) /\ Len(Key[i]) > 0
  BY AssessmentAssumption DEF Picked
<1>2. IsFiniteSet(Range(Key[i]))
  BY <1>1, PickedIsFinite
<1>3. Range(Key[i]) # {}
  <2>1. 1 \in DOMAIN Key[i]
    BY <1>1 DEF Picked
  <2> QED
    BY <2>1 DEF Range
<1> QED
  BY <1>2, <1>3, FS_CardinalityType, FS_EmptySet

(* The share of the key that a set of picks earns.                         *)
Share(picks, key) ==
  Max({0, Cardinality(picks \cap key) - Cardinality(picks \ key)})

LEMMA ShareInRange ==
  ASSUME NEW picks, NEW key, IsFiniteSet(picks), IsFiniteSet(key)
  PROVE  Share(picks, key) \in 0..Cardinality(key)
<1>1. /\ Cardinality(picks \cap key) \in Nat /\ Cardinality(picks \ key) \in Nat
      /\ Cardinality(key) \in Nat /\ Cardinality(picks \cap key) <= Cardinality(key)
  BY FS_Subset, FS_CardinalityType
<1> QED
  BY <1>1, GreaterOf DEF Share

(* More key options and fewer wrong ones earn no less.                     *)
LEMMA SharesGrow ==
  ASSUME NEW p, NEW q, NEW key, IsFiniteSet(p), IsFiniteSet(q), IsFiniteSet(key),
         p \cap key \subseteq q, q \ key \subseteq p
  PROVE  Share(p, key) <= Share(q, key)
<1>1. /\ p \cap key \subseteq q \cap key /\ q \ key \subseteq p \ key
      /\ IsFiniteSet(q \cap key) /\ IsFiniteSet(p \ key)
      /\ IsFiniteSet(p \cap key) /\ IsFiniteSet(q \ key)
  BY FS_Subset
<1>2. /\ Cardinality(p \cap key) <= Cardinality(q \cap key)
      /\ Cardinality(q \ key) <= Cardinality(p \ key)
      /\ Cardinality(p \cap key) \in Nat /\ Cardinality(q \cap key) \in Nat
      /\ Cardinality(q \ key) \in Nat /\ Cardinality(p \ key) \in Nat
  BY <1>1, FS_Subset, FS_CardinalityType
<1> DEFINE a == Cardinality(p \cap key)  b == Cardinality(p \ key)
           c == Cardinality(q \cap key)  d == Cardinality(q \ key)
<1>3. a \in Nat /\ b \in Nat /\ c \in Nat /\ d \in Nat /\ a <= c /\ d <= b
  BY <1>2
<1>4. Share(p, key) = Max({0, a - b}) /\ Share(q, key) = Max({0, c - d})
  BY DEF Share
<1> HIDE DEF a, b, c, d
<1>5. a - b \in Int /\ c - d \in Int /\ a - b <= c - d
  BY <1>3
<1>6. /\ Max({0, a - b}) = IF a - b > 0 THEN a - b ELSE 0
      /\ Max({0, c - d}) = IF c - d > 0 THEN c - d ELSE 0
  BY <1>5, GreaterOf
<1> QED
  BY <1>4, <1>5, <1>6

LEMMA MultiPointsByShare ==
  ASSUME NEW i, NEW x
  PROVE  MultiPoints(i, x) =
           (Share(Range(x), Range(Key[i])) * Points[i]) \div Cardinality(Range(Key[i]))
  BY DEF MultiPoints, Share

(* An answer earns nothing below zero and nothing above the item's points. *)
LEMMA MultiPointsInRange ==
  ASSUME NEW i \in Items, Kind[i] = "multi", NEW x, Picked(x)
  PROVE  MultiPoints(i, x) \in 0..Points[i]
<1> DEFINE n == Share(Range(x), Range(Key[i]))  d == Cardinality(Range(Key[i]))  p == Points[i]
<1>1. n \in 0..d /\ d \in Nat \ {0} /\ p \in Nat
  BY PickedIsFinite, KeyIsFinite, ShareInRange, AssessmentAssumption
<1>2. MultiPoints(i, x) = (n * p) \div d
  BY MultiPointsByShare
<1> HIDE DEF n, d, p
<1>3. n * p \in Nat /\ d * p \in Nat /\ n * p <= d * p
  BY <1>1, Products
<1>4. n * p < d * p + d
  BY <1>1, <1>3
<1>5. (n * p) \div d \in Nat /\ (n * p) \div d <= p
  BY <1>1, <1>3, <1>4, Quotient, QuotientBound
<1>6. MultiPoints(i, x) \in 0..p
  BY <1>1, <1>2, <1>5
<1> QED
  BY <1>6 DEF p

LEMMA MultiPointsGrow ==
  ASSUME NEW i \in Items, Kind[i] = "multi", NEW x, Picked(x), NEW y, Picked(y),
         Range(x) \cap Range(Key[i]) \subseteq Range(y),
         Range(y) \ Range(Key[i]) \subseteq Range(x)
  PROVE  MultiPoints(i, x) <= MultiPoints(i, y)
<1> DEFINE key == Range(Key[i])  d == Cardinality(key)  p == Points[i]
           n == Share(Range(x), key)  k == Share(Range(y), key)
<1>1. n \in 0..d /\ k \in 0..d /\ d \in Nat \ {0} /\ p \in Nat
  BY PickedIsFinite, KeyIsFinite, ShareInRange, AssessmentAssumption
<1>2. n <= k
  BY PickedIsFinite, KeyIsFinite, SharesGrow
<1>3. MultiPoints(i, x) = (n * p) \div d /\ MultiPoints(i, y) = (k * p) \div d
  BY MultiPointsByShare
<1> HIDE DEF n, k, d, p
<1>4. n * p \in Nat /\ k * p \in Nat /\ n * p <= k * p
  BY <1>1, <1>2, Products
<1> QED
  BY <1>1, <1>3, <1>4, QuotientsGrow

LEMMA AwardInRange ==
  ASSUME NEW s, NEW m, Scorable(s, m), NEW i \in Items
  PROVE  Awarded(i, s, m) \in 0..Points[i] \cup {NULL}
<1>1. Points[i] \in Nat \ {0}
  BY AssessmentAssumption
<1>2. CASE s[i] = NULL
  BY <1>1, <1>2 DEF Awarded
<1>3. CASE s[i] # NULL /\ Kind[i] = "single"
  BY <1>1, <1>3 DEF Awarded, SinglePoints
<1>4. CASE s[i] # NULL /\ Kind[i] = "multi"
  <2>1. MultiPoints(i, s[i]) \in 0..Points[i]
    BY <1>4, MultiPointsInRange DEF Scorable
  <2> QED
    BY <1>4, <2>1 DEF Awarded
<1>5. CASE s[i] # NULL /\ Kind[i] \notin {"single", "multi"} /\ m[i] = NULL
  BY <1>5 DEF Awarded
<1>6. CASE s[i] # NULL /\ Kind[i] \notin {"single", "multi"} /\ m[i] # NULL
  <2>1. m[i] \in Nat
    BY <1>6, Assessed DEF Scorable
  <2>2. GradePoints(i, m[i]) \in 0..Points[i]
    BY <1>1, <2>1, LesserOf DEF GradePoints
  <2> QED
    BY <1>6, <2>2 DEF Awarded
<1> QED
  BY <1>2, <1>3, <1>4, <1>5, <1>6

LEMMA EarnedInRange ==
  ASSUME NEW s, NEW m, Scorable(s, m)
  PROVE  /\ \A i \in Items : EarnedBy(s, m)[i] \in 0..Points[i]
         /\ SumFunction(Points) \in Nat \ {0}
         /\ SumFunction(EarnedBy(s, m)) \in 0..SumFunction(Points)
<1>1. \A i \in Items : EarnedBy(s, m)[i] \in 0..Points[i] /\ Points[i] \in Nat \ {0}
  BY AwardInRange, AssessmentAssumption DEF EarnedBy, Ungraded
<1>2. /\ DOMAIN Points = Items /\ DOMAIN EarnedBy(s, m) = Items
      /\ IsFiniteSet(Items) /\ Items # {}
  BY AssessmentAssumption DEF EarnedBy
<1> DEFINE e == EarnedBy(s, m)
<1> HIDE DEF e
<1>3. SumFunctionOnSet(Points, Items) \in Nat \ {0}
  BY <1>1, <1>2, SumPositive
<1>4. /\ SumFunctionOnSet(EarnedBy(s, m), Items) \in Nat
      /\ SumFunctionOnSet(EarnedBy(s, m), Items) <= SumFunctionOnSet(Points, Items)
  BY <1>1, <1>2, SumsGrow
<1> QED
  BY <1>1, <1>2, <1>3, <1>4 DEF SumFunction

(* The percent is the quotient, to the nearest hundredth, half rounds up.  *)
LEMMA Rounded ==
  ASSUME NEW e \in Nat, NEW p \in Nat \ {0}
  PROVE  LET r == RoundedPercent(e, p)
         IN  /\ r \in Nat /\ r * p \in Nat
             /\ 2 * (r * p) <= 20000 * e + p /\ 20000 * e < 2 * (r * p) + p
             /\ e <= p => r <= 10000
<1> DEFINE r == RoundedPercent(e, p)  x == 2 * e * 10000 + p  d == 2 * p
<1>1. x \in Nat /\ d \in Nat \ {0} /\ x = 20000 * e + p
  OBVIOUS
<1>2. r = x \div d
  BY DEF RoundedPercent
<1>3. r \in Nat /\ d * r <= x /\ x < d * r + d
  <2> HIDE DEF x, d, r
  <2> QED
    BY <1>1, <1>2, Quotient
<1>4. r * p \in Nat /\ d * r = 2 * (r * p)
  <2> HIDE DEF r
  <2> QED
    BY <1>3
<1>5. e <= p => r <= 10000
  <2>1. e <= p => x < d * 10000 + d
    BY <1>1
  <2> HIDE DEF x, d
  <2> QED
    BY <1>1, <1>2, <2>1, QuotientBound
<1> HIDE DEF r
<1>6. 2 * (r * p) <= 20000 * e + p /\ 20000 * e < 2 * (r * p) + p
  BY <1>1, <1>3, <1>4
<1> QED
  BY <1>3, <1>4, <1>5, <1>6 DEF r

LEMMA RoundedGrows ==
  ASSUME NEW e \in Nat, NEW f \in Nat, NEW p \in Nat \ {0}, e <= f
  PROVE  RoundedPercent(e, p) <= RoundedPercent(f, p)
<1> DEFINE x == 2 * e * 10000 + p  y == 2 * f * 10000 + p  d == 2 * p
<1>1. x \in Nat /\ y \in Nat /\ x <= y /\ d \in Nat \ {0}
  OBVIOUS
<1>2. RoundedPercent(e, p) = x \div d /\ RoundedPercent(f, p) = y \div d
  BY DEF RoundedPercent
<1> HIDE DEF x, y, d
<1> QED
  BY <1>1, <1>2, QuotientsGrow

(* The mark is reached exactly when the quotient rounds to it.             *)
LEMMA RoundedReaches ==
  ASSUME NEW e \in Nat, NEW p \in Nat \ {0}, NEW mark \in Nat \ {0}
  PROVE  RoundedPercent(e, p) >= mark <=> 2 * e * 10000 >= (2 * mark - 1) * p
<1> DEFINE r == RoundedPercent(e, p)
<1>1. r \in Nat /\ r * p \in Nat /\ 2 * (r * p) <= 20000 * e + p /\ 20000 * e < 2 * (r * p) + p
  BY Rounded
<1>2. mark * p \in Nat /\ (2 * mark - 1) * p = 2 * (mark * p) - p
  OBVIOUS
<1> HIDE DEF r
<1>3. mark <= r => mark * p <= r * p
  BY <1>1, Products
<1>4. r + 1 <= mark => r * p + p <= mark * p
  BY <1>1, Products
<1>5. r >= mark <=> 2 * e * 10000 >= (2 * mark - 1) * p
  BY <1>1, <1>2, <1>3, <1>4, SMTT(30)
<1> QED
  BY <1>5 DEF r

LEMMA PercentInRange ==
  ASSUME NEW s, NEW m, Scorable(s, m)
  PROVE  ScorePercent(s, m) \in 0..10000
<1> DEFINE e == SumFunction(EarnedBy(s, m))  p == SumFunction(Points)
<1>1. e \in Nat /\ p \in Nat \ {0} /\ e <= p
  BY EarnedInRange
<1>2. ScorePercent(s, m) = RoundedPercent(e, p)
  BY DEF ScorePercent
<1> HIDE DEF e, p
<1> DEFINE r == RoundedPercent(e, p)
<1>3. r \in Nat /\ r <= 10000
  BY <1>1, Rounded
<1> HIDE DEF r
<1>4. r \in 0..10000
  BY <1>3, SMTT(30)
<1> QED
  BY <1>2, <1>4, SMTT(30) DEF r

(* What scoreAttempt returns can be stored, and its verdict and its score  *)
(* are missing together, exactly when an item waits for a grader.          *)
LEMMA ScoreAttemptResult ==
  ASSUME NEW s \in Sheets, NEW m \in Manuals
  PROVE  LET out == ScoreAttempt(s, m)
         IN  /\ out.perItem \in [Items -> PointValues]
             /\ out.score \in ScoreValues
             /\ out.passed \in BOOLEAN \cup {NULL}
             /\ out.passed # NULL <=> ~ out.needsGrading
             /\ out.score # NULL <=> ~ out.needsGrading
<1> DEFINE out == ScoreAttempt(s, m)
<1>1. out.perItem \in [Items -> PointValues]
  BY DEF ScoreAttempt, PointValues
<1>2. out.score \in ScoreValues
  BY DEF ScoreValues
<1>3. /\ out.passed \in BOOLEAN \cup {NULL}
      /\ out.passed # NULL <=> ~ out.needsGrading
  <2>1. /\ out.passed = Verdict(s, m)
        /\ out.needsGrading = (Ungraded(s, m) # {})
    BY DEF ScoreAttempt
  <2>2. CASE Ungraded(s, m) # {}
    BY <2>1, <2>2 DEF Verdict
  <2>3. CASE Ungraded(s, m) = {}
    <3>1. out.passed = Reaches(ScorePercent(s, m))
      BY <2>1, <2>3 DEF Verdict
    <3>2. Reaches(ScorePercent(s, m)) \in BOOLEAN
      BY SMT DEF Reaches
    <3> QED
      BY <2>1, <2>3, <3>1, <3>2, Assessed
  <2> QED
    BY <2>2, <2>3
<1>4. out.score # NULL <=> ~ out.needsGrading
  <2>1. Scorable(s, m)
    BY RequestAssumption DEF Scorable, Picked, Sheets, Manuals
  <2>2. ScorePercent(s, m) # NULL
    <3> DEFINE score == ScorePercent(s, m)
    <3>1. score \in 0..10000
      BY <2>1, PercentInRange
    <3> HIDE DEF score
    <3>2. score \in Nat
      BY <3>1
    <3>3. score # NULL
      BY <3>2, Assessed
    <3> QED
      BY <3>3 DEF score
  <2> QED
    BY <2>2 DEF ScoreAttempt
<1> QED
  BY <1>1, <1>2, <1>3, <1>4

-----------------------------------------------------------------------------
(* Type correctness.                                                       *)

LEMMA InitTypeOK == Init => TypeOK
<1> SUFFICES ASSUME Init PROVE TypeOK
  OBVIOUS
<1>1. NULL \in PointValues /\ NULL \in ScoreValues
  BY DEF PointValues, ScoreValues
<1> QED
  BY <1>1, RequestAssumption
     DEF Init, TypeOK, AttemptRow, Sheets, RowsConsistent, RequestsConsistent,
         AttemptPcs, ScoringPcs, IssuingPcs

(* A beginning request leaves the rows alone: only its own slot changes.   *)
LEMMA BeginTypeOK ==
  ASSUME TypeOK, raced' \in [AttemptIds -> SUBSET {"answering", "scoring", "issuing"}],
         NEW r \in Reqs, NEW where, NEW target, NEW sent,
         Begin(r, where, target, sent),
         \/ where = "answers" /\ target \in AttemptIds /\ sent \in AnswerBodies
         \/ where = "score" /\ target \in AttemptIds /\ sent \in Manuals
         \/ where = "issue" /\ target \in AttemptIds /\ sent = NULL
         \/ /\ where = "revoke" /\ target \in Creds /\ sent \in Reasons
            /\ credential[target] # NULL
  PROVE  TypeOK'
<1>1. RowsConsistent'
  BY DEF TypeOK, RowsConsistent, Begin, rows
<1>2. RequestsConsistent'
  BY DEF TypeOK, RequestsConsistent, Begin, rows, AttemptPcs, ScoringPcs, IssuingPcs
<1> QED
  BY <1>1, <1>2 DEF TypeOK, Begin, rows, AttemptPcs, ScoringPcs, IssuingPcs

(* The end of a request frees its slot and keeps every other request.      *)
LEMMA EndRequests ==
  ASSUME TypeOK, NEW r \in Reqs, End(r),
         \A c \in Creds : credential[c] # NULL => credential'[c] # NULL
  PROVE  /\ RequestsConsistent'
         /\ pc' \in [Reqs -> AttemptPcs \cup {"idle", "revoke"}]
         /\ on' \in [Reqs -> AttemptIds \cup Creds \cup {NULL}]
         /\ body' \in [Reqs -> AnswerBodies \cup Manuals \cup Reasons \cup {NULL}]
         /\ read' \in [Reqs -> Sheets \cup {NULL}]
         /\ raced' \in [AttemptIds -> SUBSET {"answering", "scoring", "issuing"}]
  BY DEF TypeOK, RequestsConsistent, End, AttemptPcs, ScoringPcs, IssuingPcs

LEMMA OverlapType ==
  ASSUME TypeOK, NEW a \in AttemptIds,
         NEW kinds \in SUBSET {"answering", "scoring", "issuing"}, Overlap(a, kinds)
  PROVE  raced' \in [AttemptIds -> SUBSET {"answering", "scoring", "issuing"}]
  BY DEF TypeOK, Overlap

(* Type correctness is inductive: one step per action.                     *)
LEMMA TypeStep == TypeOK /\ [Next]_vars => TypeOK'
<1> SUFFICES ASSUME TypeOK, [Next]_vars PROVE TypeOK'
  OBVIOUS
<1> USE RequestAssumption, RowAssumption
<1>1. ASSUME NEW r \in Reqs, NEW a \in AttemptIds, NEW b \in AnswerBodies,
             BeginAnswers(r, a, b)
      PROVE  TypeOK'
  <2>1. Races("answering", a, ScoringPcs) \subseteq {"answering", "scoring", "issuing"}
    BY DEF Races
  <2> QED
    BY <1>1, <2>1, OverlapType, BeginTypeOK DEF BeginAnswers
<1>2. ASSUME NEW r \in Reqs, NEW a \in AttemptIds, BeginSubmit(r, a)
      PROVE  TypeOK'
  <2>1. Races("answering", a, {"answers"}) \cup Races("scoring", a, ScoringPcs)
          \subseteq {"answering", "scoring", "issuing"}
    BY DEF Races
  <2>2. NoManual \in Manuals
    BY DEF NoManual, Manuals
  <2> QED
    BY <1>2, <2>1, <2>2, OverlapType, BeginTypeOK DEF BeginSubmit
<1>3. ASSUME NEW r \in Reqs, NEW a \in AttemptIds, NEW g \in GradeBodies,
             BeginGrade(r, a, g)
      PROVE  TypeOK'
  <2>1. Races("scoring", a, ScoringPcs) \subseteq {"answering", "scoring", "issuing"}
    BY DEF Races
  <2>2. ManualOf(g) \in Manuals
    BY DEF ManualOf, Manuals
  <2> QED
    BY <1>3, <2>1, <2>2, OverlapType, BeginTypeOK DEF BeginGrade
<1>4. ASSUME NEW r \in Reqs, NEW a \in AttemptIds, BeginIssue(r, a)
      PROVE  TypeOK'
  <2>1. Races("issuing", a, IssuingPcs) \subseteq {"answering", "scoring", "issuing"}
    BY DEF Races
  <2> QED
    BY <1>4, <2>1, OverlapType, BeginTypeOK DEF BeginIssue
<1>5. ASSUME NEW r \in Reqs, NEW c \in Creds, NEW reason \in Reasons,
             BeginRevoke(r, c, reason)
      PROVE  TypeOK'
  BY <1>5, BeginTypeOK DEF BeginRevoke, TypeOK
<1>6. ASSUME NEW r \in Reqs, RecordAnswers(r)
      PROVE  TypeOK'
  <2>1. on[r] \in AttemptIds /\ body[r] \in AnswerBodies
    BY <1>6 DEF RecordAnswers, TypeOK, RequestsConsistent, AttemptPcs
  <2>2. sheet' \in [AttemptIds -> Sheets]
    BY <1>6, <2>1 DEF RecordAnswers, TypeOK, Sheets
  <2>3. RowsConsistent'
    BY <1>6 DEF RecordAnswers, TypeOK, RowsConsistent
  <2> QED
    BY <1>6, <2>2, <2>3, EndRequests DEF RecordAnswers, TypeOK
<1>7. ASSUME NEW r \in Reqs, ReadSheet(r)
      PROVE  TypeOK'
  <2>1. on[r] \in AttemptIds /\ body[r] \in Manuals
    BY <1>7 DEF ReadSheet, TypeOK, RequestsConsistent, AttemptPcs, ScoringPcs
  <2>2. RowsConsistent'
    BY <1>7 DEF ReadSheet, rows, TypeOK, RowsConsistent
  <2>3. RequestsConsistent'
    BY <1>7, <2>1 DEF ReadSheet, Continue, rows, TypeOK, RequestsConsistent,
                      AttemptPcs, ScoringPcs, IssuingPcs
  <2> QED
    BY <1>7, <2>1, <2>2, <2>3 DEF ReadSheet, Continue, rows, TypeOK,
                                  AttemptPcs, ScoringPcs, IssuingPcs
<1>8. ASSUME NEW r \in Reqs, StoreScore(r)
      PROVE  TypeOK'
  <2> DEFINE out == ScoreAttempt(read[r], body[r])
  <2>1. on[r] \in AttemptIds /\ body[r] \in Manuals /\ read[r] \in Sheets
    BY <1>8 DEF StoreScore, TypeOK, RequestsConsistent, AttemptPcs, ScoringPcs
  <2>2. /\ out.perItem \in [Items -> PointValues]
        /\ out.score \in ScoreValues
        /\ out.passed \in BOOLEAN \cup {NULL}
        /\ out.passed # NULL <=> ~ out.needsGrading
        /\ out.score # NULL <=> ~ out.needsGrading
    BY <2>1, ScoreAttemptResult
  <2>3. /\ awarded' = [awarded EXCEPT ![on[r]] = StoredPoints(r, out)]
        /\ attempt' = [attempt EXCEPT ![on[r]] =
             [status    |-> IF out.needsGrading THEN "needs_grading" ELSE "scored",
              submitted |-> TRUE, score |-> out.score, passed |-> out.passed]]
        /\ End(r) /\ UNCHANGED <<sheet, credential>>
    BY <1>8 DEF StoreScore
  <2> HIDE DEF out
  <2>4. awarded' \in [AttemptIds -> [Items -> PointValues]]
    BY <2>1, <2>2, <2>3 DEF TypeOK, StoredPoints
  <2>5. attempt' \in [AttemptIds -> AttemptRow]
    BY <2>1, <2>2, <2>3 DEF TypeOK, AttemptRow
  <2>6. RowsConsistent'
    BY <2>1, <2>2, <2>3 DEF TypeOK, RowsConsistent
  <2> QED
    BY <2>3, <2>4, <2>5, <2>6, EndRequests DEF TypeOK
<1>9. ASSUME NEW r \in Reqs, FindExisting(r) \/ InsertCredential(r) \/ Abort(r)
      PROVE  TypeOK'
  <2>1. UNCHANGED rows
    BY <1>9 DEF FindExisting, InsertCredential, Abort
  <2>2. RowsConsistent'
    BY <2>1 DEF rows, TypeOK, RowsConsistent
  <2>3. CASE End(r)
    BY <2>1, <2>2, <2>3, EndRequests DEF rows, TypeOK
  <2>4. CASE \/ pc[r] = "issue" /\ Continue(r, "insert") /\ UNCHANGED read
             \/ pc[r] = "insert" /\ Continue(r, "commit") /\ UNCHANGED read
    <3>1. RequestsConsistent'
      BY <2>1, <2>4 DEF Continue, rows, TypeOK, RequestsConsistent,
                        AttemptPcs, ScoringPcs, IssuingPcs
    <3> QED
      BY <2>1, <2>2, <2>4, <3>1 DEF Continue, rows, TypeOK,
                                    AttemptPcs, ScoringPcs, IssuingPcs
  <2> QED
    BY <1>9, <2>3, <2>4 DEF FindExisting, InsertCredential, Abort
<1>10. ASSUME NEW r \in Reqs, CommitCredential(r)
       PROVE  TypeOK'
  <2>1. on[r] \in AttemptIds
    BY <1>10 DEF CommitCredential, TypeOK, RequestsConsistent, AttemptPcs, IssuingPcs
  <2>2. PICK c \in Creds :
          /\ credential[c] = NULL
          /\ credential' = [credential EXCEPT ![c] =
                [attempt |-> on[r], status |-> "active", reason |-> NULL]]
    BY <1>10 DEF CommitCredential
  <2>3. credential' \in [Creds -> CredentialRow \cup {NULL}]
    BY <2>1, <2>2 DEF TypeOK, CredentialRow
  <2>4. RowsConsistent'
    BY <1>10, <2>2 DEF CommitCredential, TypeOK, RowsConsistent
  <2>5. \A d \in Creds : credential[d] # NULL => credential'[d] # NULL
    BY <2>2 DEF TypeOK
  <2> QED
    BY <1>10, <2>3, <2>4, <2>5, EndRequests DEF CommitCredential, TypeOK
<1>11. ASSUME NEW c \in Creds, NEW status \in {"active", "revoked"},
              NEW reason \in Reasons \cup {NULL},
              UpdateCredential(c, status, reason)
       PROVE  /\ credential' \in [Creds -> CredentialRow \cup {NULL}]
              /\ \A d \in Creds : credential[d] # NULL => credential'[d] # NULL
              /\ UNCHANGED attempt => RowsConsistent'
  <2>1. credential[c] \in CredentialRow
    BY <1>11 DEF UpdateCredential, TypeOK
  <2>2. /\ credential'[c] = [credential[c] EXCEPT !.status = status, !.reason = reason]
        /\ credential'[c] \in CredentialRow
        /\ credential'[c].status = "revoked" <=> credential'[c].reason # NULL
        /\ credential'[c] # NULL
    BY <1>11, <2>1 DEF UpdateCredential, TypeOK, CredentialRow, RevokedConsistent
  <2>3. \A d \in Creds \ {c} : credential'[d] = credential[d]
    BY <1>11 DEF UpdateCredential, TypeOK
  <2>4. credential' \in [Creds -> CredentialRow \cup {NULL}]
    BY <1>11, <2>2, <2>3 DEF UpdateCredential, TypeOK
  <2> QED
    BY <2>2, <2>3, <2>4, ZenonT(60) DEF TypeOK, RowsConsistent
<1>12. ASSUME NEW r \in Reqs, Revoke(r)
       PROVE  TypeOK'
  <2>1. on[r] \in Creds /\ body[r] \in Reasons
    BY <1>12 DEF Revoke, TypeOK, RequestsConsistent
  <2>2. /\ credential' \in [Creds -> CredentialRow \cup {NULL}]
        /\ \A d \in Creds : credential[d] # NULL => credential'[d] # NULL
        /\ RowsConsistent'
    BY <1>11, <1>12, <2>1 DEF Revoke, TypeOK, RowsConsistent
  <2> QED
    BY <1>12, <2>2, EndRequests DEF Revoke, TypeOK
<1>13. ASSUME NEW c \in Creds, NEW status \in {"active", "revoked"},
              NEW reason \in Reasons \cup {NULL}, OperatorUpdate(c, status, reason)
       PROVE  TypeOK'
  <2>1. /\ credential' \in [Creds -> CredentialRow \cup {NULL}]
        /\ \A d \in Creds : credential[d] # NULL => credential'[d] # NULL
        /\ RowsConsistent'
    BY <1>11, <1>13 DEF OperatorUpdate
  <2>2. RequestsConsistent'
    BY <1>13, <2>1 DEF OperatorUpdate, TypeOK, RequestsConsistent
  <2> QED
    BY <1>13, <2>1, <2>2 DEF OperatorUpdate, TypeOK
<1>14. CASE UNCHANGED vars
  BY <1>14 DEF vars, TypeOK, RowsConsistent, RequestsConsistent
<1> QED
  BY <1>1, <1>2, <1>3, <1>4, <1>5, <1>6, <1>7, <1>8, <1>9, <1>10, <1>12, <1>13, <1>14
     DEF Next

(* Every reachable state is well typed and its rows are consistent.        *)
THEOREM TypeCorrect == Spec => []TypeOK
<1> QED
  BY InitTypeOK, TypeStep, PTL DEF Spec

-----------------------------------------------------------------------------
(* A pass is not taken back by a lone scoring call.                        *)

LEMMA LoneScoringStep == TypeOK /\ LoneScoring /\ [Next]_vars => LoneScoring'
<1> DEFINE Goal(a) ==
      /\ \A r, q \in Reqs :
           /\ pc'[r] \in ScoringPcs /\ on'[r] = a
           /\ pc'[q] \in ScoringPcs /\ on'[q] = a
           => r = q
      /\ Underway(a, ScoringPcs)' => attempt'[a].status # "scored"
      /\ Underway(a, {"commit"})' => attempt'[a].passed = TRUE
      /\ \A c \in Creds :
           credential'[c] # NULL /\ credential'[c].attempt = a
           => attempt'[a].passed = TRUE
<1> SUFFICES ASSUME TypeOK, LoneScoring, [Next]_vars,
                    NEW a \in AttemptIds, "scoring" \notin raced'[a]
             PROVE  Goal(a)
  BY DEF LoneScoring
<1> USE RequestAssumption
<1>1. ASSUME NEW r \in Reqs, NEW b \in AttemptIds, NEW sent,
             Begin(r, "score", b, sent), attempt[b].status # "scored",
             b = a => "scoring" \notin raced[a] /\ ~ Underway(a, ScoringPcs),
             "scoring" \notin raced[a]
      PROVE  Goal(a)
  BY <1>1 DEF LoneScoring, Begin, rows, Underway, TypeOK, ScoringPcs
<1>2. ASSUME NEW r \in Reqs, NEW where \in {"answers", "issue", "revoke"},
             NEW target, NEW sent, Begin(r, where, target, sent),
             "scoring" \notin raced[a]
      PROVE  Goal(a)
  BY <1>2 DEF LoneScoring, Begin, rows, Underway, TypeOK, ScoringPcs
<1>3. ASSUME NEW r \in Reqs, NEW b \in AttemptIds, NEW x \in AnswerBodies,
             BeginAnswers(r, b, x)
      PROVE  Goal(a)
  <2>1. "scoring" \notin raced[a]
    BY <1>3 DEF BeginAnswers, Overlap, TypeOK
  <2> QED
    BY <1>2, <1>3, <2>1 DEF BeginAnswers
<1>4. ASSUME NEW r \in Reqs, NEW b \in AttemptIds, BeginSubmit(r, b)
      PROVE  Goal(a)
  <2>1. /\ "scoring" \notin raced[a]
        /\ b = a => ~ Underway(a, ScoringPcs)
    BY <1>4 DEF BeginSubmit, Overlap, Races, TypeOK
  <2> QED
    BY <1>1, <1>4, <2>1 DEF BeginSubmit, Submittable
<1>5. ASSUME NEW r \in Reqs, NEW b \in AttemptIds, NEW g \in GradeBodies,
             BeginGrade(r, b, g)
      PROVE  Goal(a)
  <2>1. /\ "scoring" \notin raced[a]
        /\ b = a => ~ Underway(a, ScoringPcs)
    BY <1>5 DEF BeginGrade, Overlap, Races, TypeOK
  <2> QED
    BY <1>1, <1>5, <2>1 DEF BeginGrade, Gradable
<1>6. ASSUME NEW r \in Reqs, NEW b \in AttemptIds, BeginIssue(r, b)
      PROVE  Goal(a)
  <2>1. "scoring" \notin raced[a]
    BY <1>6 DEF BeginIssue, Overlap, TypeOK
  <2> QED
    BY <1>2, <1>6, <2>1 DEF BeginIssue
<1>7. ASSUME NEW r \in Reqs, NEW c \in Creds, NEW reason \in Reasons,
             BeginRevoke(r, c, reason)
      PROVE  Goal(a)
  BY <1>2, <1>7 DEF BeginRevoke
<1>8. ASSUME NEW r \in Reqs, End(r), UNCHANGED <<attempt, credential>>
      PROVE  Goal(a)
  <2>1. \A q \in Reqs : pc'[q] # "idle" => pc'[q] = pc[q] /\ on'[q] = on[q]
    BY <1>8 DEF End, TypeOK
  <2> QED
    BY <1>8, <2>1 DEF End, LoneScoring, Underway, ScoringPcs
<1>9. ASSUME NEW r \in Reqs, RecordAnswers(r) \/ Abort(r)
      PROVE  Goal(a)
  BY <1>9, <1>8 DEF RecordAnswers, Abort, rows
<1>10. ASSUME NEW r \in Reqs, ReadSheet(r)
      PROVE  Goal(a)
  BY <1>10 DEF ReadSheet, Continue, rows, LoneScoring, Underway, TypeOK, ScoringPcs
<1>11. ASSUME NEW r \in Reqs, StoreScore(r)
       PROVE  Goal(a)
  <2>1. /\ pc[r] = "store" /\ End(r) /\ UNCHANGED credential
        /\ \A b \in AttemptIds : b # on[r] => attempt'[b] = attempt[b]
    BY <1>11 DEF StoreScore, TypeOK
  <2>2. CASE on[r] # a
    BY <2>1, <2>2 DEF End, LoneScoring, Underway, TypeOK, ScoringPcs
  <2>3. CASE on[r] = a
    <3>1. /\ attempt[a].status # "scored"
          /\ \A q \in Reqs : pc[q] \in ScoringPcs /\ on[q] = a => q = r
      BY <2>1, <2>3 DEF End, LoneScoring, Underway, ScoringPcs
    <3>2. attempt[a].passed # TRUE
      BY <3>1, Assessed DEF TypeOK, RowsConsistent
    <3>3. /\ ~ Underway(a, {"commit"})
          /\ \A c \in Creds : ~ (credential[c] # NULL /\ credential[c].attempt = a)
      BY <2>1, <3>2 DEF End, LoneScoring
    <3> QED
      BY <2>1, <3>1, <3>3 DEF End, Underway, TypeOK, ScoringPcs
  <2> QED
    BY <2>2, <2>3
<1>12. ASSUME NEW r \in Reqs, FindExisting(r)
       PROVE  Goal(a)
  <2>1. CASE pc[r] = "issue" /\ Continue(r, "insert")
    BY <1>12, <2>1 DEF FindExisting, Continue, rows, LoneScoring, Underway, TypeOK, ScoringPcs
  <2> QED
    BY <1>12, <1>8, <2>1 DEF FindExisting, rows
<1>13. ASSUME NEW r \in Reqs, InsertCredential(r)
       PROVE  Goal(a)
  <2>1. CASE attempt[on[r]].passed = TRUE /\ Continue(r, "commit")
    BY <1>13, <2>1 DEF InsertCredential, Continue, rows, LoneScoring, Underway, TypeOK, ScoringPcs
  <2> QED
    BY <1>13, <1>8, <2>1 DEF InsertCredential, rows
<1>14. ASSUME NEW r \in Reqs, CommitCredential(r)
       PROVE  Goal(a)
  <2>1. on[r] = a => attempt[a].passed = TRUE
    BY <1>14 DEF CommitCredential, End, LoneScoring, Underway
  <2> QED
    BY <1>14, <2>1 DEF CommitCredential, End, LoneScoring, Underway, TypeOK, ScoringPcs
<1>15. ASSUME NEW c \in Creds, NEW status, NEW reason, UpdateCredential(c, status, reason)
       PROVE  \A d \in Creds :
                /\ credential'[d] # NULL => credential[d] # NULL
                /\ credential[d] # NULL => credential'[d].attempt = credential[d].attempt
  BY <1>15 DEF UpdateCredential, TypeOK, CredentialRow
<1>16. ASSUME NEW r \in Reqs, Revoke(r)
       PROVE  Goal(a)
  <2>1. on[r] \in Creds
    BY <1>16 DEF Revoke, TypeOK, RequestsConsistent
  <2>2. \A d \in Creds :
          /\ credential'[d] # NULL => credential[d] # NULL
          /\ credential[d] # NULL => credential'[d].attempt = credential[d].attempt
    BY <1>15, <1>16, <2>1 DEF Revoke
  <2> QED
    BY <1>16, <2>2 DEF Revoke, End, LoneScoring, Underway, TypeOK, ScoringPcs
<1>17. ASSUME NEW c \in Creds, NEW status, NEW reason, OperatorUpdate(c, status, reason)
       PROVE  Goal(a)
  BY <1>15, <1>17 DEF OperatorUpdate, LoneScoring, Underway
<1>18. CASE UNCHANGED vars
  BY <1>18 DEF vars, LoneScoring, Underway
<1> QED
  BY <1>3, <1>4, <1>5, <1>6, <1>7, <1>9, <1>10, <1>11, <1>12, <1>13, <1>14, <1>16,
     <1>17, <1>18 DEF Next

(* SECURITY.md's "a credential cannot exist without a passing attempt", as *)
(* far as the code goes: it holds for every attempt on which no two submit *)
(* or grade calls ever overlapped.                                         *)
THEOREM CredentialKeepsItsPass == Spec => []CredentialBackedUnlessRaced
<1>1. Init => LoneScoring
  BY RequestAssumption DEF Init, LoneScoring, Underway, ScoringPcs
<1>2. TypeOK /\ LoneScoring => CredentialBackedUnlessRaced
  BY RowAssumption DEF TypeOK, LoneScoring, CredentialBackedUnlessRaced, CredentialRow
<1> QED
  BY <1>1, <1>2, LoneScoringStep, InitTypeOK, TypeStep, PTL DEF Spec

-----------------------------------------------------------------------------
(* Action properties.                                                      *)

(* Only a call that stores its score writes an attempt and its points.     *)
LEMMA AttemptRowWriter ==
  ASSUME TypeOK, [Next]_vars, NEW a \in AttemptIds,
         attempt'[a] # attempt[a] \/ awarded'[a] # awarded[a]
  PROVE  \E r \in Reqs : StoreScore(r) /\ on[r] = a
<1>1. PICK r \in Reqs : StoreScore(r)
  BY DEF Next, vars, rows, BeginAnswers, BeginSubmit, BeginGrade, BeginIssue, BeginRevoke,
         Begin, RecordAnswers, ReadSheet, FindExisting, InsertCredential,
         CommitCredential, Revoke, Abort, OperatorUpdate
<1>2. on[r] = a
  BY <1>1 DEF StoreScore, TypeOK
<1> QED
  BY <1>1, <1>2

(* What it leaves behind.                                                  *)
LEMMA AttemptRowChange ==
  ASSUME TypeOK, [Next]_vars, NEW a \in AttemptIds,
         attempt'[a] # attempt[a] \/ awarded'[a] # awarded[a]
  PROVE  /\ Underway(a, ScoringPcs)
         /\ attempt'[a].submitted /\ attempt'[a].status # "in_progress"
<1>1. PICK r \in Reqs : StoreScore(r) /\ on[r] = a
  BY AttemptRowWriter
<1> QED
  BY <1>1 DEF StoreScore, Underway, ScoringPcs, TypeOK

(* A stored score is final, whoever calls submit or grade again, unless    *)
(* two scoring calls overlapped; a submitted attempt stays submitted.      *)
THEOREM ScoresAreFinal == Spec => ScoreIsFinal
<1> DEFINE Final ==
      \A a \in AttemptIds :
        /\ attempt[a].submitted =>
             attempt'[a].submitted /\ attempt'[a].status # "in_progress"
        /\ attempt[a].status = "scored" /\ "scoring" \notin raced[a] =>
             attempt'[a] = attempt[a] /\ awarded'[a] = awarded[a]
<1>1. TypeOK /\ LoneScoring /\ [Next]_vars => [Final]_vars
  <2> SUFFICES ASSUME TypeOK, LoneScoring, [Next]_vars, NEW a \in AttemptIds
               PROVE  /\ attempt[a].submitted =>
                           attempt'[a].submitted /\ attempt'[a].status # "in_progress"
                      /\ attempt[a].status = "scored" /\ "scoring" \notin raced[a] =>
                           attempt'[a] = attempt[a] /\ awarded'[a] = awarded[a]
    OBVIOUS
  <2>1. CASE attempt'[a] = attempt[a] /\ awarded'[a] = awarded[a]
    BY <2>1 DEF TypeOK, RowsConsistent
  <2>2. CASE attempt'[a] # attempt[a] \/ awarded'[a] # awarded[a]
    BY <2>2, AttemptRowChange DEF LoneScoring
  <2> QED
    BY <2>1, <2>2
<1>2. Init => LoneScoring
  BY RequestAssumption DEF Init, LoneScoring, Underway, ScoringPcs
<1> QED
  BY <1>1, <1>2, LoneScoringStep, InitTypeOK, TypeStep, PTL DEF Spec, ScoreIsFinal

(* An UPDATE of status and reason keeps the rest of a credential row.      *)
LEMMA CredentialRowUpdate ==
  ASSUME NEW row \in CredentialRow, NEW new,
         NEW status \in {"active", "revoked"}, NEW reason \in Reasons \cup {NULL},
         new = [row EXCEPT !.status = status, !.reason = reason]
  PROVE  /\ new \in CredentialRow
         /\ new.attempt = row.attempt
         /\ row.status = status /\ row.reason = reason => new = row
<1>1. new \in CredentialRow
  BY DEF CredentialRow
<1>2. new.attempt = row.attempt /\ new.status = status
  BY DEF CredentialRow
<1>3. new.reason = reason
  BY DEF CredentialRow
<1> QED
  BY <1>1, <1>2, <1>3 DEF CredentialRow

(* Revocation is permanent for every sequence of API calls and of SQL      *)
(* updates that the CHECK and the trigger let through.                     *)
THEOREM RevocationIsPermanent == Spec => RevocationPermanent
<1> DEFINE Permanent ==
      \A c \in Creds : credential[c] # NULL =>
        /\ credential'[c] # NULL
        /\ credential'[c].attempt = credential[c].attempt
        /\ credential[c].status = "revoked" => credential'[c] = credential[c]
<1>1. TypeOK /\ [Next]_vars => [Permanent]_vars
  <2> SUFFICES ASSUME TypeOK, [Next]_vars, NEW c \in Creds, credential[c] # NULL
               PROVE  /\ credential'[c] # NULL
                      /\ credential'[c].attempt = credential[c].attempt
                      /\ credential[c].status = "revoked" => credential'[c] = credential[c]
    OBVIOUS
  <2>1. ASSUME NEW d \in Creds, NEW status \in {"active", "revoked"},
               NEW reason \in Reasons \cup {NULL}, UpdateCredential(d, status, reason)
        PROVE  /\ credential'[c] # NULL
               /\ credential'[c].attempt = credential[c].attempt
               /\ credential[c].status = "revoked" => credential'[c] = credential[c]
    <3>1. /\ credential[c] \in CredentialRow /\ credential[d] \in CredentialRow
          /\ credential' = [credential EXCEPT ![d] =
                [credential[d] EXCEPT !.status = status, !.reason = reason]]
          /\ credential[d].status = "revoked" =>
                status = "revoked" /\ reason = credential[d].reason
      BY <2>1 DEF UpdateCredential, OneWayRevoke, TypeOK, CredentialRow
    <3>2. CASE c # d
      BY <3>1, <3>2 DEF TypeOK
    <3>3. CASE c = d
      <4>1. credential'[c] = [credential[c] EXCEPT !.status = status, !.reason = reason]
        BY <3>1, <3>3 DEF TypeOK
      <4>2. credential[c] \in CredentialRow
        BY <3>1
      <4>3. /\ credential'[c] \in CredentialRow
            /\ credential'[c].attempt = credential[c].attempt
            /\ credential[c].status = status /\ credential[c].reason = reason
                 => credential'[c] = credential[c]
        BY <4>1, <4>2, CredentialRowUpdate
      <4>4. credential[c].status = "revoked" =>
              status = "revoked" /\ reason = credential[c].reason
        BY <3>1, <3>3
      <4> QED
        BY <4>3, <4>4, RowAssumption
    <3> QED
      BY <3>2, <3>3
  <2>2. CASE \E r \in Reqs : CommitCredential(r)
    BY <2>2 DEF CommitCredential, TypeOK
  <2>3. CASE \E r \in Reqs : Revoke(r)
    BY <2>1, <2>3 DEF Revoke, TypeOK, RequestsConsistent
  <2>4. CASE \E d \in Creds, status \in {"active", "revoked"}, reason \in Reasons \cup {NULL} :
               OperatorUpdate(d, status, reason)
    BY <2>1, <2>4 DEF OperatorUpdate
  <2>5. CASE UNCHANGED credential
    BY <2>5
  <2> QED
    BY <2>2, <2>3, <2>4, <2>5
       DEF Next, vars, rows, BeginAnswers, BeginSubmit, BeginGrade, BeginIssue,
           BeginRevoke, Begin, RecordAnswers, ReadSheet, StoreScore, FindExisting,
           InsertCredential, Abort
<1> QED
  BY <1>1, InitTypeOK, TypeStep, PTL DEF Spec, RevocationPermanent
-----------------------------------------------------------------------------
(* One credential per attempt.                                             *)

(* What once overlapped stays on record.                                   *)
LEMMA RacedGrows ==
  ASSUME TypeOK, [Next]_vars, NEW a \in AttemptIds
  PROVE  raced[a] \subseteq raced'[a]
<1>1. ASSUME NEW b \in AttemptIds, NEW kinds, Overlap(b, kinds)
      PROVE  raced[a] \subseteq raced'[a]
  BY <1>1 DEF Overlap, TypeOK
<1>2. CASE UNCHANGED raced
  BY <1>2
<1>3. \/ \E b \in AttemptIds, kinds \in SUBSET {"answering", "scoring", "issuing"} :
           Overlap(b, kinds)
      \/ UNCHANGED raced
  <2>1. \A b, pcs : /\ Races("answering", b, pcs) \subseteq {"answering"}
                   /\ Races("scoring", b, pcs) \subseteq {"scoring"}
                   /\ Races("issuing", b, pcs) \subseteq {"issuing"}
    BY DEF Races
  <2>2. ASSUME NEW r \in Reqs, NEW b \in AttemptIds, NEW x \in AnswerBodies,
               BeginAnswers(r, b, x)
        PROVE  \E kinds \in SUBSET {"answering", "scoring", "issuing"} : Overlap(b, kinds)
    BY <2>1, <2>2 DEF BeginAnswers
  <2>3. ASSUME NEW r \in Reqs, NEW b \in AttemptIds, BeginSubmit(r, b)
        PROVE  \E kinds \in SUBSET {"answering", "scoring", "issuing"} : Overlap(b, kinds)
    <3>1. Races("answering", b, {"answers"}) \cup Races("scoring", b, ScoringPcs)
            \subseteq {"answering", "scoring", "issuing"}
      BY <2>1
    <3> QED
      BY <2>3, <3>1 DEF BeginSubmit
  <2>4. ASSUME NEW r \in Reqs, NEW b \in AttemptIds, NEW g \in GradeBodies,
               BeginGrade(r, b, g)
        PROVE  \E kinds \in SUBSET {"answering", "scoring", "issuing"} : Overlap(b, kinds)
    BY <2>1, <2>4 DEF BeginGrade
  <2>5. ASSUME NEW r \in Reqs, NEW b \in AttemptIds, BeginIssue(r, b)
        PROVE  \E kinds \in SUBSET {"answering", "scoring", "issuing"} : Overlap(b, kinds)
    BY <2>1, <2>5 DEF BeginIssue
  <2> QED
    BY <2>2, <2>3, <2>4, <2>5
       DEF Next, vars, BeginRevoke, Continue, End, RecordAnswers, ReadSheet, StoreScore,
           FindExisting, InsertCredential, CommitCredential, Revoke, Abort, OperatorUpdate
<1> QED
  BY <1>1, <1>2, <1>3

(* A step that starts no issue call, writes no credential and moves no     *)
(* issue call on keeps a lone issue call lone.                             *)
LEMMA LoneIssuingFrame ==
  ASSUME TypeOK, NEW a \in AttemptIds,
         raced'[a] = raced[a],
         \A d \in Creds : credential'[d] # NULL /\ credential'[d].attempt = a
                            => credential[d] # NULL /\ credential[d].attempt = a,
         \A q \in Reqs : pc'[q] \in IssuingPcs /\ on'[q] = a
                           => pc[q] = pc'[q] /\ on[q] = a,
         LoneIssuing, "issuing" \notin raced'[a]
  PROVE  /\ \A r, q \in Reqs :
              /\ pc'[r] \in IssuingPcs /\ on'[r] = a
              /\ pc'[q] \in IssuingPcs /\ on'[q] = a
              => r = q
         /\ Underway(a, {"insert", "commit"})' => CredentialsOf(a)' = {}
         /\ \A c, d \in CredentialsOf(a)' : c = d
  BY DEF LoneIssuing, Underway, CredentialsOf, IssuingPcs

LEMMA LoneIssuingStep == TypeOK /\ LoneIssuing /\ [Next]_vars => LoneIssuing'
<1> DEFINE Goal(a) ==
      /\ \A r, q \in Reqs :
           /\ pc'[r] \in IssuingPcs /\ on'[r] = a
           /\ pc'[q] \in IssuingPcs /\ on'[q] = a
           => r = q
      /\ Underway(a, {"insert", "commit"})' => CredentialsOf(a)' = {}
      /\ \A c, d \in CredentialsOf(a)' : c = d
<1> SUFFICES ASSUME TypeOK, LoneIssuing, [Next]_vars,
                    NEW a \in AttemptIds, "issuing" \notin raced'[a]
             PROVE  Goal(a)
  BY DEF LoneIssuing
<1>1. "issuing" \notin raced[a]
  BY RacedGrows
<1>2. ASSUME NEW r \in Reqs, NEW where \in {"answers", "score", "revoke"},
             NEW target, NEW sent, Begin(r, where, target, sent)
      PROVE  Goal(a)
  BY <1>1, <1>2 DEF LoneIssuing, Begin, rows, Underway, CredentialsOf, TypeOK, IssuingPcs
<1>3. ASSUME NEW r \in Reqs, NEW b \in AttemptIds, BeginIssue(r, b)
      PROVE  Goal(a)
  <2>1. /\ pc[r] = "idle" /\ UNCHANGED credential
        /\ pc' = [pc EXCEPT ![r] = "issue"] /\ on' = [on EXCEPT ![r] = b]
    BY <1>3 DEF BeginIssue, Begin, rows
  <2>2. b = a => ~ Underway(a, IssuingPcs)
    BY <1>3 DEF BeginIssue, Overlap, Races, TypeOK
  <2> QED
    BY <1>1, <2>1, <2>2 DEF LoneIssuing, Underway, CredentialsOf, TypeOK, IssuingPcs
<1>4. ASSUME NEW r \in Reqs, End(r),
             \A d \in Creds : credential'[d] # NULL /\ credential'[d].attempt = a
                               => credential[d] # NULL /\ credential[d].attempt = a
      PROVE  Goal(a)
  <2>1. \A q \in Reqs : pc'[q] \in IssuingPcs => pc'[q] = pc[q] /\ on'[q] = on[q]
    BY <1>4 DEF End, TypeOK, IssuingPcs
  <2>2. raced'[a] = raced[a]
    BY <1>4 DEF End
  <2> QED
    BY <1>4, <2>1, <2>2, LoneIssuingFrame
<1>5. ASSUME NEW r \in Reqs, RecordAnswers(r) \/ StoreScore(r) \/ Abort(r)
      PROVE  Goal(a)
  BY <1>4, <1>5 DEF RecordAnswers, StoreScore, Abort, rows
<1>6. ASSUME NEW r \in Reqs, ReadSheet(r)
      PROVE  Goal(a)
  BY <1>1, <1>6 DEF ReadSheet, Continue, rows, LoneIssuing, Underway, CredentialsOf, TypeOK, IssuingPcs
<1>7. ASSUME NEW r \in Reqs, FindExisting(r)
      PROVE  Goal(a)
  <2>1. CASE /\ pc[r] = "issue" /\ CredentialsOf(on[r]) = {} /\ Continue(r, "insert")
    <3>1. UNCHANGED credential
      BY <1>7 DEF FindExisting, rows
    <3> QED
      BY <1>1, <2>1, <3>1 DEF Continue, LoneIssuing, Underway, CredentialsOf, TypeOK, IssuingPcs
  <2> QED
    BY <1>4, <1>7, <2>1 DEF FindExisting, rows
<1>8. ASSUME NEW r \in Reqs, InsertCredential(r)
      PROVE  Goal(a)
  <2>1. CASE pc[r] = "insert" /\ Continue(r, "commit")
    <3>1. UNCHANGED credential
      BY <1>8 DEF InsertCredential, rows
    <3> QED
      BY <1>1, <2>1, <3>1 DEF Continue, LoneIssuing, Underway, CredentialsOf, TypeOK, IssuingPcs
  <2> QED
    BY <1>4, <1>8, <2>1 DEF InsertCredential, rows
<1>9. ASSUME NEW r \in Reqs, CommitCredential(r)
      PROVE  Goal(a)
  <2>1. PICK c \in Creds :
          /\ credential[c] = NULL
          /\ credential' = [credential EXCEPT ![c] =
                [attempt |-> on[r], status |-> "active", reason |-> NULL]]
    BY <1>9 DEF CommitCredential
  <2>2. pc[r] = "commit" /\ End(r)
    BY <1>9 DEF CommitCredential
  <2>3. CASE on[r] # a
    <3>1. \A d \in Creds : credential'[d] # NULL /\ credential'[d].attempt = a
                             => credential[d] # NULL /\ credential[d].attempt = a
      BY <2>1, <2>3 DEF TypeOK
    <3> QED
      BY <1>4, <2>2, <3>1
  <2>4. CASE on[r] = a
    <3>1. /\ CredentialsOf(a) = {}
          /\ \A q \in Reqs : pc[q] \in IssuingPcs /\ on[q] = a => q = r
      BY <1>1, <2>2, <2>4 DEF LoneIssuing, Underway, IssuingPcs
    <3>2. CredentialsOf(a)' \subseteq {c}
      BY <2>1, <3>1 DEF CredentialsOf, TypeOK
    <3>3. ~ Underway(a, IssuingPcs)'
      BY <2>2, <3>1 DEF End, Underway, TypeOK, IssuingPcs
    <3> QED
      BY <3>2, <3>3 DEF Underway, IssuingPcs
  <2> QED
    BY <2>3, <2>4
<1>10. ASSUME NEW c \in Creds, NEW status, NEW reason, UpdateCredential(c, status, reason)
       PROVE  \A d \in Creds :
                credential'[d] # NULL /\ credential'[d].attempt = a
                => credential[d] # NULL /\ credential[d].attempt = a
  BY <1>10 DEF UpdateCredential, TypeOK, CredentialRow
<1>11. ASSUME NEW r \in Reqs, Revoke(r)
       PROVE  Goal(a)
  <2>1. on[r] \in Creds
    BY <1>11 DEF Revoke, TypeOK, RequestsConsistent
  <2> QED
    BY <1>4, <1>10, <1>11, <2>1 DEF Revoke
<1>12. ASSUME NEW c \in Creds, NEW status, NEW reason, OperatorUpdate(c, status, reason)
       PROVE  Goal(a)
  <2>1. UNCHANGED <<pc, on, raced>>
    BY <1>12 DEF OperatorUpdate
  <2> QED
    BY <1>10, <1>12, <2>1, LoneIssuingFrame DEF OperatorUpdate
<1>13. CASE UNCHANGED vars
  BY <1>13, LoneIssuingFrame DEF vars
<1> QED
  BY <1>2, <1>3, <1>5, <1>6, <1>7, <1>8, <1>9, <1>11, <1>12, <1>13
     DEF Next, BeginAnswers, BeginSubmit, BeginGrade, BeginRevoke

(* POST /v1/credentials finds a credential and returns it, or inserts one: *)
(* an attempt never has two, revoked ones included, unless two issue calls *)
(* on it overlapped.                                                       *)
THEOREM OneCredentialPerAttempt == Spec => []OneCredentialUnlessRaced
<1>1. Init => LoneIssuing
  BY DEF Init, LoneIssuing, Underway, CredentialsOf, IssuingPcs
<1>2. TypeOK /\ LoneIssuing => OneCredentialUnlessRaced
  BY RowAssumption DEF TypeOK, LoneIssuing, OneCredentialUnlessRaced, CredentialRow, CredentialsOf
<1> QED
  BY <1>1, <1>2, LoneIssuingStep, InitTypeOK, TypeStep, PTL DEF Spec

-----------------------------------------------------------------------------
(* Answers.                                                                *)

(* A step that begins no call on a, stores no score and moves no call on   *)
(* keeps a lone answers call lone.                                         *)
LEMMA LoneAnsweringFrame ==
  ASSUME TypeOK, NEW a \in AttemptIds,
         raced'[a] = raced[a],
         attempt'[a] = attempt[a],
         \A q \in Reqs : pc'[q] \in {"answers"} \cup ScoringPcs /\ on'[q] = a
             => /\ on[q] = a
                /\ pc'[q] = "answers" <=> pc[q] = "answers"
                /\ pc'[q] \in ScoringPcs <=> pc[q] \in ScoringPcs,
         LoneAnswering, "answering" \notin raced'[a]
  PROVE  Underway(a, {"answers"})' =>
           ~ attempt'[a].submitted /\ ~ Underway(a, ScoringPcs)'
  BY DEF LoneAnswering, Underway, ScoringPcs

LEMMA LoneAnsweringStep == TypeOK /\ LoneAnswering /\ [Next]_vars => LoneAnswering'
<1> DEFINE Goal(a) ==
      Underway(a, {"answers"})' =>
        ~ attempt'[a].submitted /\ ~ Underway(a, ScoringPcs)'
<1> SUFFICES ASSUME TypeOK, LoneAnswering, [Next]_vars,
                    NEW a \in AttemptIds, "answering" \notin raced'[a]
             PROVE  Goal(a)
  BY DEF LoneAnswering
<1>1. "answering" \notin raced[a]
  BY RacedGrows
<1>2. ASSUME NEW r \in Reqs, NEW b \in AttemptIds, NEW x \in AnswerBodies,
             BeginAnswers(r, b, x)
      PROVE  Goal(a)
  <2>1. /\ pc[r] = "idle" /\ UNCHANGED attempt
        /\ pc' = [pc EXCEPT ![r] = "answers"] /\ on' = [on EXCEPT ![r] = b]
    BY <1>2 DEF BeginAnswers, Begin, rows
  <2>2. b = a => ~ Underway(a, ScoringPcs) /\ attempt[a].status = "in_progress"
    BY <1>2 DEF BeginAnswers, Answerable, Overlap, Races, TypeOK
  <2>3. b = a => ~ attempt[a].submitted
    BY <2>2 DEF TypeOK, RowsConsistent
  <2> QED
    BY <1>1, <2>1, <2>2, <2>3 DEF LoneAnswering, Underway, TypeOK, ScoringPcs
<1>3. ASSUME NEW r \in Reqs, NEW b \in AttemptIds, NEW sent,
             Begin(r, "score", b, sent), b = a => ~ Underway(a, {"answers"})
      PROVE  Goal(a)
  BY <1>1, <1>3 DEF Begin, rows, LoneAnswering, Underway, TypeOK, ScoringPcs
<1>4. ASSUME NEW r \in Reqs, NEW b \in AttemptIds, BeginSubmit(r, b)
      PROVE  Goal(a)
  <2>1. b = a => ~ Underway(a, {"answers"})
    BY <1>4 DEF BeginSubmit, Overlap, Races, TypeOK
  <2> QED
    BY <1>3, <1>4, <2>1 DEF BeginSubmit
<1>5. ASSUME NEW r \in Reqs, NEW b \in AttemptIds, NEW g \in GradeBodies,
             BeginGrade(r, b, g)
      PROVE  Goal(a)
  <2>1. attempt[b].submitted
    BY <1>5 DEF BeginGrade, Gradable, TypeOK, RowsConsistent
  <2>2. b = a => ~ Underway(a, {"answers"})
    BY <1>1, <2>1 DEF LoneAnswering
  <2> QED
    BY <1>3, <1>5, <2>2 DEF BeginGrade
<1>6. ASSUME NEW r \in Reqs, NEW where \in {"issue", "revoke"}, NEW target, NEW sent,
             Begin(r, where, target, sent)
      PROVE  Goal(a)
  BY <1>1, <1>6 DEF Begin, rows, LoneAnswering, Underway, TypeOK, ScoringPcs
<1>7. ASSUME NEW r \in Reqs, End(r), UNCHANGED attempt
      PROVE  Goal(a)
  BY <1>1, <1>7 DEF End, LoneAnswering, Underway, TypeOK, ScoringPcs
<1>8. ASSUME NEW r \in Reqs, NEW where \in {"store", "insert", "commit"},
             Continue(r, where), where = "store" <=> pc[r] = "score", UNCHANGED attempt
      PROVE  Goal(a)
  BY <1>1, <1>8 DEF Continue, LoneAnswering, Underway, TypeOK, ScoringPcs
<1>9. ASSUME NEW r \in Reqs, ReadSheet(r)
      PROVE  Goal(a)
  BY <1>8, <1>9 DEF ReadSheet, rows
<1>10. ASSUME NEW r \in Reqs, FindExisting(r)
      PROVE  Goal(a)
  BY <1>7, <1>8, <1>10 DEF FindExisting, rows
<1>11. ASSUME NEW r \in Reqs, InsertCredential(r)
      PROVE  Goal(a)
  BY <1>7, <1>8, <1>11 DEF InsertCredential, rows
<1>12. ASSUME NEW r \in Reqs, StoreScore(r)
      PROVE  Goal(a)
  <2>1. /\ pc[r] = "store" /\ End(r)
        /\ \A b \in AttemptIds : b # on[r] => attempt'[b] = attempt[b]
    BY <1>12 DEF StoreScore, TypeOK
  <2>2. on[r] = a => ~ Underway(a, {"answers"})
    BY <1>1, <2>1 DEF LoneAnswering, Underway, ScoringPcs
  <2> QED
    BY <1>1, <2>1, <2>2 DEF End, LoneAnswering, Underway, TypeOK, ScoringPcs
<1>13. CASE UNCHANGED vars
  BY <1>1, <1>13 DEF vars, LoneAnswering, Underway, ScoringPcs
<1>14. CASE \E c \in Creds, status \in {"active", "revoked"}, reason \in Reasons \cup {NULL} :
              OperatorUpdate(c, status, reason)
  BY <1>1, <1>14 DEF OperatorUpdate, LoneAnswering, Underway, ScoringPcs
<1> QED
  BY <1>2, <1>4, <1>5, <1>6, <1>7, <1>9, <1>10, <1>11, <1>12, <1>13, <1>14
     DEF Next, BeginIssue, BeginRevoke, RecordAnswers, CommitCredential, Revoke, Abort, rows

(* A sheet changes only while an answers call is under way on it.          *)
LEMMA SheetChange ==
  ASSUME TypeOK, [Next]_vars, NEW a \in AttemptIds, sheet'[a] # sheet[a]
  PROVE  Underway(a, {"answers"})
<1>1. PICK r \in Reqs : RecordAnswers(r)
  BY DEF Next, vars, rows, BeginAnswers, BeginSubmit, BeginGrade, BeginIssue,
         BeginRevoke, Begin, ReadSheet, StoreScore, FindExisting,
         InsertCredential, CommitCredential, Revoke, Abort, OperatorUpdate
<1> QED
  BY <1>1 DEF RecordAnswers, Underway, TypeOK

(* The answers that were scored are the answers on record: the sheet of a  *)
(* submitted attempt never changes, unless an answers call overlapped the  *)
(* submit.                                                                 *)
THEOREM SubmittedAnswersStay == Spec => AnswersFrozenUnlessRaced
<1> DEFINE Frozen ==
      \A a \in AttemptIds :
        attempt[a].submitted /\ "answering" \notin raced[a] => sheet'[a] = sheet[a]
<1>1. TypeOK /\ LoneAnswering /\ [Next]_vars => [Frozen]_vars
  BY SheetChange DEF LoneAnswering
<1>2. Init => LoneAnswering
  BY DEF Init, LoneAnswering, Underway
<1> QED
  BY <1>1, <1>2, LoneAnsweringStep, InitTypeOK, TypeStep, PTL DEF Spec, AnswersFrozenUnlessRaced

-----------------------------------------------------------------------------
(* The stored score.                                                       *)

LEMMA ReadsStep ==
  /\ TypeOK /\ LoneScoring /\ LoneAnswering /\ ReadsAreCurrent
  /\ [Next]_vars
  => ReadsAreCurrent'
<1> SUFFICES ASSUME TypeOK, LoneScoring, LoneAnswering, ReadsAreCurrent, [Next]_vars,
                    NEW r \in Reqs, pc'[r] = "store",
                    raced'[on'[r]] \cap {"answering", "scoring"} = {}
             PROVE  read'[r] = sheet'[on'[r]]
  BY DEF ReadsAreCurrent
<1>1. CASE ReadSheet(r)
  BY <1>1 DEF ReadSheet, Continue, rows, TypeOK
<1>2. CASE ~ ReadSheet(r)
  <2>1. pc[r] = "store" /\ on'[r] = on[r] /\ read'[r] = read[r]
    <3>1. ASSUME NEW q \in Reqs, NEW where, NEW target, NEW sent,
                 Begin(q, where, target, sent), where # "store"
          PROVE  pc[r] = "store" /\ on'[r] = on[r] /\ read'[r] = read[r]
      BY <3>1 DEF Begin, TypeOK
    <3>2. ASSUME NEW q \in Reqs, End(q)
          PROVE  pc[r] = "store" /\ on'[r] = on[r] /\ read'[r] = read[r]
      BY <3>2 DEF End, TypeOK
    <3>3. ASSUME NEW q \in Reqs, NEW where, Continue(q, where), UNCHANGED read,
                 where # "store"
          PROVE  pc[r] = "store" /\ on'[r] = on[r] /\ read'[r] = read[r]
      BY <3>3 DEF Continue, TypeOK
    <3>4. ASSUME NEW q \in Reqs, ReadSheet(q), q # r
          PROVE  pc[r] = "store" /\ on'[r] = on[r] /\ read'[r] = read[r]
      BY <3>4 DEF ReadSheet, Continue, TypeOK
    <3>5. CASE UNCHANGED <<pc, on, read>>
      BY <3>5
    <3> QED
      BY <1>2, <3>1, <3>2, <3>3, <3>4, <3>5
         DEF Next, vars, BeginAnswers, BeginSubmit, BeginGrade, BeginIssue, BeginRevoke,
             RecordAnswers, StoreScore, FindExisting, InsertCredential,
             CommitCredential, Revoke, Abort, OperatorUpdate
  <2>2. on[r] \in AttemptIds
    BY <2>1 DEF TypeOK, RequestsConsistent, AttemptPcs, ScoringPcs
  <2>3. raced[on[r]] \cap {"answering", "scoring"} = {}
    BY <2>1, <2>2, RacedGrows
  <2>4. ~ Underway(on[r], {"answers"})
    BY <2>1, <2>2, <2>3 DEF LoneAnswering, Underway, ScoringPcs
  <2>5. sheet'[on[r]] = sheet[on[r]]
    BY <2>2, <2>4, SheetChange
  <2> QED
    BY <2>1, <2>3, <2>5 DEF ReadsAreCurrent
<1> QED
  BY <1>1, <1>2

(* What scoreAndStore leaves behind for the answers it read.               *)
LEMMA StoredScore ==
  ASSUME NEW s \in Sheets, NEW m \in Manuals, NEW old, Ungraded(s, m) = {},
         NEW stored,
         stored = [i \in Items |-> IF s[i] # NULL
                                   THEN ScoreAttempt(s, m).perItem[i] ELSE old[i]]
  PROVE  LET points == [i \in Items |-> IF s[i] = NULL THEN 0 ELSE stored[i]]
         IN  /\ \A i \in Items : points[i] # NULL
             /\ ScoreAttempt(s, m).score
                  = RoundedPercent(SumFunction(points), SumFunction(Points))
             /\ ScoreAttempt(s, m).passed = Reaches(ScoreAttempt(s, m).score)
<1> DEFINE points == [i \in Items |-> IF s[i] = NULL THEN 0 ELSE stored[i]]
<1>1. ASSUME NEW i \in Items
      PROVE  points[i] = Awarded(i, s, m) /\ Awarded(i, s, m) # NULL
  <2>1. Awarded(i, s, m) # NULL
    BY DEF Ungraded
  <2>2. CASE s[i] = NULL
    BY <2>1, <2>2 DEF Awarded
  <2>3. CASE s[i] # NULL
    BY <2>1, <2>3 DEF ScoreAttempt
  <2> QED
    BY <2>2, <2>3
<1>2. points = EarnedBy(s, m)
  BY <1>1 DEF EarnedBy
<1>3. /\ ScoreAttempt(s, m).score = ScorePercent(s, m)
      /\ ScoreAttempt(s, m).passed = Reaches(ScorePercent(s, m))
  BY DEF ScoreAttempt, Verdict
<1> QED
  BY <1>1, <1>2, <1>3 DEF ScorePercent

LEMMA ScoreStep ==
  /\ TypeOK /\ LoneScoring /\ LoneAnswering /\ ReadsAreCurrent
  /\ ScoreOfTheStoredSheet
  /\ [Next]_vars
  => ScoreOfTheStoredSheet'
<1> DEFINE Goal(a) ==
      /\ \A i \in Items : AnsweredPoints(a)'[i] # NULL
      /\ attempt'[a].score =
           RoundedPercent(SumFunction(AnsweredPoints(a)'), SumFunction(Points))
      /\ attempt'[a].passed = Reaches(attempt'[a].score)
<1> SUFFICES ASSUME TypeOK, LoneScoring, LoneAnswering, ReadsAreCurrent,
                    ScoreOfTheStoredSheet, [Next]_vars,
                    NEW a \in AttemptIds, attempt'[a].status = "scored",
                    raced'[a] \cap {"answering", "scoring"} = {}
             PROVE  Goal(a)
  BY DEF ScoreOfTheStoredSheet
<1>1. raced[a] \cap {"answering", "scoring"} = {}
  BY RacedGrows
<1>2. CASE attempt'[a] = attempt[a] /\ awarded'[a] = awarded[a]
  <2>1. attempt[a].submitted
    BY <1>2 DEF TypeOK, RowsConsistent
  <2>2. sheet'[a] = sheet[a]
    BY <1>1, <2>1, SheetChange DEF LoneAnswering
  <2> QED
    BY <1>1, <1>2, <2>2 DEF ScoreOfTheStoredSheet, AnsweredPoints
<1>3. CASE attempt'[a] # attempt[a] \/ awarded'[a] # awarded[a]
  <2>1. PICK r \in Reqs : StoreScore(r) /\ on[r] = a
    BY <1>3, AttemptRowWriter
  <2> DEFINE s == read[r]
             m == body[r]
             out == ScoreAttempt(s, m)
  <2>2. s \in Sheets /\ m \in Manuals
    BY <2>1 DEF StoreScore, TypeOK, RequestsConsistent, ScoringPcs
  <2>3. s = sheet'[a]
    BY <1>1, <2>1 DEF StoreScore, ReadsAreCurrent
  <2>4. /\ attempt'[a] = [status    |-> IF out.needsGrading THEN "needs_grading" ELSE "scored",
                          submitted |-> TRUE, score |-> out.score, passed |-> out.passed]
        /\ awarded'[a] = StoredPoints(r, out)
    BY <2>1 DEF StoreScore, TypeOK
  <2>5. Ungraded(s, m) = {}
    <3>1. ~ out.needsGrading
      BY <2>4
    <3> QED
      BY <3>1 DEF ScoreAttempt
  <2>6. awarded'[a] = [i \in Items |-> IF s[i] # NULL
                                       THEN out.perItem[i] ELSE awarded[a][i]]
    BY <2>1, <2>4 DEF StoredPoints
  <2>7. AnsweredPoints(a)' = [i \in Items |-> IF s[i] = NULL THEN 0 ELSE awarded'[a][i]]
    BY <2>3 DEF AnsweredPoints
  <2> HIDE DEF s, m
  <2> QED
    BY <2>2, <2>4, <2>5, <2>6, <2>7, StoredScore
<1> QED
  BY <1>2, <1>3

(* The score and the verdict on record are those of the answers and the    *)
(* points on record, whatever calls came before, unless an answers call    *)
(* overlapped the submit or two scoring calls overlapped.                  *)
THEOREM StoredScoreIsRight == Spec => []ScoreOfTheStoredSheet
<1>1. Init => /\ LoneScoring /\ LoneAnswering /\ ReadsAreCurrent
              /\ ScoreOfTheStoredSheet
  BY RequestAssumption DEF Init, LoneScoring, LoneAnswering, ReadsAreCurrent,
     ScoreOfTheStoredSheet, Underway, ScoringPcs
<1> QED
  BY <1>1, LoneScoringStep, LoneAnsweringStep, ReadsStep, ScoreStep, InitTypeOK, TypeStep,
     PTL DEF Spec

-----------------------------------------------------------------------------
(* GET /v1/attempts/:id.                                                   *)

(* A scored attempt stays as a GET has read it.                            *)
LEMMA ViewStep ==
  TypeOK /\ LoneScoring /\ ViewCurrent /\ [ViewNext]_viewVars => ViewCurrent'
<1> SUFFICES ASSUME TypeOK, LoneScoring, ViewCurrent, [ViewNext]_viewVars
             PROVE  ViewCurrent'
  OBVIOUS
<1>1. CASE UNCHANGED view /\ [Next]_vars
  <2> SUFFICES ASSUME view # NoView
               PROVE  /\ view.of \in AttemptIds
                      /\ view = [of |-> view.of, row |-> view.row, items |-> NULL]
                      /\ view.row.status = "scored"
                         /\ raced'[view.of] \cap {"answering", "scoring"} = {}
                         => view.row = attempt'[view.of]
    BY <1>1 DEF ViewCurrent, NoView
  <2> DEFINE a == view.of
  <2>1. a \in AttemptIds /\ view = [of |-> view.of, row |-> view.row, items |-> NULL]
    BY DEF ViewCurrent
  <2>2. ASSUME view.row.status = "scored", raced'[a] \cap {"answering", "scoring"} = {}
        PROVE  view.row = attempt'[a]
    <3>1. raced[a] \cap {"answering", "scoring"} = {}
      BY <1>1, <2>1, <2>2, RacedGrows
    <3>2. attempt[a] = view.row
      BY <2>2, <3>1 DEF ViewCurrent
    <3>3. attempt'[a] = attempt[a]
      BY <1>1, <2>1, <2>2, <3>1, <3>2, AttemptRowChange DEF LoneScoring
    <3> QED
      BY <3>2, <3>3
  <2> QED
    BY <2>1, <2>2
<1>2. ASSUME NEW a \in AttemptIds, BeginView(a), UNCHANGED vars
      PROVE  ViewCurrent'
  <2>1. view' = [of |-> a, row |-> attempt[a], items |-> NULL]
    BY <1>2 DEF BeginView, Statement, NoView
  <2> QED
    BY <1>2, <2>1 DEF ViewCurrent, vars
<1>3. CASE EndView
  BY <1>3 DEF EndView, ViewCurrent
<1> QED
  BY <1>1, <1>2, <1>3 DEF ViewNext, viewVars

(* What a GET answers of a scored attempt is on record.                    *)
LEMMA ViewOfTheRecord ==
  ScoreOfTheStoredSheet /\ ViewCurrent => ViewAddsUp
<1> SUFFICES ASSUME ScoreOfTheStoredSheet, ViewCurrent, view # NoView,
                    Reply.row.status = "scored",
                    raced[view.of] \cap {"answering", "scoring"} = {}
             PROVE  /\ \A i \in Items :
                         Reply.items[i].answered => Reply.items[i].points # NULL
                    /\ Reply.row.score =
                         RoundedPercent(
                           SumFunction([i \in Items |-> IF Reply.items[i].answered
                                                        THEN Reply.items[i].points ELSE 0]),
                           SumFunction(Points))
  BY DEF ViewAddsUp
<1> DEFINE a == view.of
           shown == [i \in Items |-> IF Reply.items[i].answered
                                     THEN Reply.items[i].points ELSE 0]
<1>1. /\ a \in AttemptIds
      /\ Reply = [of |-> a, row |-> view.row, items |-> ItemsOf(a)]
  <2>1. a \in AttemptIds /\ view = [of |-> a, row |-> view.row, items |-> NULL]
    BY DEF ViewCurrent
  <2>2. Reply = [view EXCEPT !.items = ItemsOf(a)]
    BY DEF Reply, Statement
  <2> QED
    BY <2>1, <2>2
<1>2. view.row = attempt[a]
  BY <1>1 DEF ViewCurrent
<1>3. attempt[a].status = "scored"
  BY <1>1, <1>2
<1>4. /\ \A i \in Items : AnsweredPoints(a)[i] # NULL
      /\ attempt[a].score =
           RoundedPercent(SumFunction(AnsweredPoints(a)), SumFunction(Points))
  BY <1>1, <1>3 DEF ScoreOfTheStoredSheet
<1>5. ASSUME NEW i \in Items
      PROVE  /\ Reply.items[i].answered <=> sheet[a][i] # NULL
             /\ sheet[a][i] # NULL => Reply.items[i].points = AnsweredPoints(a)[i]
  BY <1>1 DEF ItemsOf, AnsweredPoints
<1>6. shown = AnsweredPoints(a)
  BY <1>5 DEF AnsweredPoints
<1>7. Reply.row = attempt[a]
  BY <1>1, <1>2
<1> HIDE DEF shown
<1>8. Reply.row.score = RoundedPercent(SumFunction(shown), SumFunction(Points))
  BY <1>4, <1>6, <1>7
<1>9. \A i \in Items : Reply.items[i].answered => Reply.items[i].points # NULL
  BY <1>4, <1>5
<1> QED
  BY <1>8, <1>9 DEF shown

(* The score that GET /v1/attempts/:id answers with is made of the points  *)
(* that it shows, though a second statement reads them, unless an answers  *)
(* call overlapped the submit or two scoring calls overlapped.             *)
THEOREM ShownScoreAddsUp == ViewSpec => []ViewAddsUp
<1> DEFINE Inv == /\ TypeOK /\ LoneScoring /\ LoneAnswering /\ ReadsAreCurrent
                  /\ ScoreOfTheStoredSheet /\ ViewCurrent
<1>1. ViewInit => Inv
  <2>1. Init => /\ LoneScoring /\ LoneAnswering /\ ReadsAreCurrent
                /\ ScoreOfTheStoredSheet
    BY RequestAssumption DEF Init, LoneScoring, LoneAnswering, ReadsAreCurrent,
       ScoreOfTheStoredSheet, Underway, ScoringPcs
  <2>2. ViewInit => ViewCurrent
    BY DEF ViewInit, ViewCurrent
  <2> QED
    BY <2>1, <2>2, InitTypeOK DEF ViewInit
<1>2. Inv /\ [ViewNext]_viewVars => Inv'
  <2>1. [ViewNext]_viewVars => [Next]_vars
    BY DEF ViewNext, viewVars
  <2> QED
    BY <2>1, TypeStep, LoneScoringStep, LoneAnsweringStep, ReadsStep, ScoreStep, ViewStep
<1>3. Inv => ViewAddsUp
  BY ViewOfTheRecord
<1> QED
  BY <1>1, <1>2, <1>3, PTL DEF ViewSpec

-----------------------------------------------------------------------------
(* Every sheet and every grade: Marking.                                   *)

MarkOK ==
  /\ filled \in [Items -> Seq(Options) \cup {NULL}]
  /\ graded \in [Items -> Grades \cup {NULL}]

LEMMA MarkStep == MarkOK /\ [MarkNext]_markVars => MarkOK'
<1> SUFFICES ASSUME MarkOK, [MarkNext]_markVars
             PROVE  MarkOK'
  OBVIOUS
<1>1. ASSUME NEW i \in Items, Blank(i)
      PROVE  MarkOK'
  <2>1. <<>> \in Seq(Options)
    OBVIOUS
  <2> QED
    BY <1>1, <2>1 DEF MarkOK, Blank
<1>2. ASSUME NEW i \in Items, NEW o \in Options, Pick(i, o)
      PROVE  MarkOK'
  <2>1. Append(filled[i], o) \in Seq(Options)
    BY <1>2 DEF MarkOK, Pick
  <2> QED
    BY <1>2, <2>1 DEF MarkOK, Pick
<1>3. ASSUME NEW i \in Items, NEW g \in Grades, Grade(i, g)
      PROVE  MarkOK'
  BY <1>3 DEF MarkOK, Grade
<1>4. CASE UNCHANGED markVars
  BY <1>4 DEF MarkOK, markVars
<1> QED
  BY <1>1, <1>2, <1>3, <1>4 DEF MarkNext

LEMMA MarkAlways == MarkSpec => []MarkOK
<1>1. MarkInit => MarkOK
  BY DEF MarkInit, MarkOK
<1> QED
  BY <1>1, MarkStep, PTL DEF MarkSpec

LEMMA PicksArePicked == ASSUME NEW x \in Seq(Options) PROVE Picked(x)
<1>1. x \in [1..Len(x) -> Options] /\ Len(x) \in Nat
  OBVIOUS
<1>2. x \in [1..Len(x) -> Range(x)]
  BY <1>1 DEF Range
<1> QED
  BY <1>1, <1>2 DEF Picked

LEMMA MarkedIsScorable == ASSUME MarkOK PROVE Scorable(filled, graded)
<1> SUFFICES ASSUME NEW i \in Items
             PROVE  /\ filled[i] = NULL \/ Picked(filled[i])
                    /\ graded[i] \in Grades \cup {NULL}
  BY DEF Scorable
<1>1. filled[i] \in Seq(Options) \/ filled[i] = NULL
  BY DEF MarkOK
<1>2. graded[i] \in Grades \cup {NULL}
  BY DEF MarkOK
<1> QED
  BY <1>1, <1>2, PicksArePicked

(* A result, in terms of the sum of what was earned.                       *)
LEMMA ResultIs ==
  ASSUME NEW s, NEW m, Scorable(s, m)
  PROVE  LET out == ScoreAttempt(s, m)
         IN  /\ out.score # NULL <=> Ungraded(s, m) = {}
             /\ out.passed # NULL <=> Ungraded(s, m) = {}
             /\ Ungraded(s, m) = {} =>
                  /\ out.score = ScorePercent(s, m)
                  /\ out.passed = Reaches(ScorePercent(s, m))
             /\ [i \in Items |-> IF out.perItem[i] = NULL THEN 0 ELSE out.perItem[i]]
                  = EarnedBy(s, m)
<1> DEFINE out == ScoreAttempt(s, m)  score == ScorePercent(s, m)  wait == Ungraded(s, m)
<1>1. /\ out.score = IF wait # {} THEN NULL ELSE score
      /\ out.passed = IF wait # {} THEN NULL ELSE Reaches(score)
      /\ \A i \in Items : out.perItem[i] = Awarded(i, s, m)
  BY DEF ScoreAttempt, Verdict
<1>2. score \in 0..10000
  BY PercentInRange, SMTT(30)
<1>3. [i \in Items |-> IF out.perItem[i] = NULL THEN 0 ELSE out.perItem[i]] = EarnedBy(s, m)
  BY <1>1 DEF EarnedBy, Ungraded
<1> HIDE DEF out, score, wait
<1>4. score # NULL
  <2>1. score \in Nat
    BY <1>2
  <2> QED
    BY <2>1, Assessed
<1>5. Reaches(score) # NULL
  <2>1. Reaches(score) \in BOOLEAN
    BY SMT DEF Reaches
  <2> QED
    BY <2>1, Assessed
<1>6. /\ out.score # NULL <=> wait = {}
      /\ out.passed # NULL <=> wait = {}
      /\ wait = {} => out.score = score /\ out.passed = Reaches(score)
  BY <1>1, <1>4, <1>5
<1> QED
  BY <1>3, <1>6 DEF out, score, wait

(* No sheet and no grade scores outside 0..100 %, and the score is the     *)
(* exact quotient to the nearest hundredth of a percent (scoring.js).      *)
THEOREM ScoresAreInRange == MarkSpec => []ScoreInRange
<1>1. ASSUME MarkOK, result.score # NULL
      PROVE  PercentEarned(result.score)
  <2>1. Scorable(filled, graded)
    BY <1>1, MarkedIsScorable
  <2>2. /\ result.score = ScorePercent(filled, graded)
        /\ earned = SumFunction(EarnedBy(filled, graded))
    BY <1>1, <2>1, ResultIs, SMTT(30) DEF result, earned
  <2> DEFINE r == result.score
  <2>3. r = RoundedPercent(earned, possible) /\ r \in 0..10000
    <3>1. ScorePercent(filled, graded) \in 0..10000
      BY <2>1, PercentInRange
    <3>2. ScorePercent(filled, graded) = RoundedPercent(earned, possible)
      BY <2>2, Zenon DEF ScorePercent, possible
    <3> QED
      BY <2>2, <3>1, <3>2
  <2>4. earned \in Nat /\ possible \in Nat \ {0}
    BY <2>1, <2>2, EarnedInRange DEF possible
  <2> HIDE DEF r
  <2>5. /\ r * possible \in Nat /\ 2 * (r * possible) <= 20000 * earned + possible
        /\ 20000 * earned < 2 * (r * possible) + possible
    BY <2>3, <2>4, Rounded
  <2>6. /\ 2 * (r * possible - earned * 10000) <= possible
        /\ 2 * (earned * 10000 - r * possible) <= possible
    BY <2>4, <2>5
  <2> QED
    BY <2>3, <2>6 DEF r, PercentEarned
<1>2. MarkOK => ScoreInRange
  BY <1>1, Zenon DEF ScoreInRange
<1> QED
  BY <1>2, MarkAlways, PTL

(* A score reaches the mark when it has the hundredths that do.            *)
LEMMA HundredthsReach ==
  ASSUME NEW score \in Nat
  PROVE  /\ PassHundredths \in Nat \ {0}
         /\ Reaches(score) <=> score >= PassHundredths
<1> DEFINE h == PassHundredths  x == PassPercent + Fine - 1
<1>1. PassPercent \in Nat \ {0} /\ Fine \in Nat \ {0} /\ x \in Nat
  BY Assessed
<1>2. h = x \div Fine
  BY DEF PassHundredths
<1>3. h \in Nat /\ Fine * h <= x /\ x < Fine * h + Fine
  <2> HIDE DEF x, h
  <2> QED
    BY <1>1, <1>2, Quotient
<1> HIDE DEF h
<1>4. /\ score * Fine \in Nat /\ h * Fine \in Nat /\ h * Fine = Fine * h
      /\ 0 * Fine = 0
  BY <1>1, <1>3
<1>5. h <= score => h * Fine <= score * Fine
  BY <1>1, <1>3, Products
<1>6. score + 1 <= h => score * Fine + Fine <= h * Fine
  BY <1>1, <1>3, Products
<1>7. h # 0
  BY <1>1, <1>3, <1>4
<1>8. Reaches(score) <=> score >= h
  BY <1>1, <1>3, <1>4, <1>5, <1>6 DEF Reaches
<1> QED
  BY <1>3, <1>7, <1>8 DEF h

(* Take the least number of hundredths of a percent that is no less than   *)
(* the pass mark: a sheet whose exact percentage is above it, or below it  *)
(* by less than half a hundredth, passes; a sheet further below fails      *)
(* (scoring.js).  When the mark is a whole number of hundredths that       *)
(* number is the mark; above a finer mark a sheet may still fail.          *)
THEOREM MarkDecides == MarkSpec => []PassMarkHonoured
<1>1. ASSUME MarkOK, result.passed # NULL
      PROVE  /\ AboveMark => result.passed
             /\ BelowMark => ~ result.passed
  <2>1. Scorable(filled, graded)
    BY <1>1, MarkedIsScorable
  <2>2. /\ result.passed = Reaches(ScorePercent(filled, graded))
        /\ earned = SumFunction(EarnedBy(filled, graded))
    BY <1>1, <2>1, ResultIs DEF result, earned
  <2>3. result.passed = Reaches(RoundedPercent(earned, possible))
    BY <2>2 DEF ScorePercent, possible
  <2>4. earned \in Nat /\ possible \in Nat \ {0}
    BY <2>1, <2>2, EarnedInRange DEF possible
  <2>5. result.passed <=> 2 * earned * 10000 >= (2 * PassHundredths - 1) * possible
    <3> DEFINE rounded == RoundedPercent(earned, possible)
    <3>1. rounded \in Nat
      BY <2>4, Rounded
    <3>2. PassHundredths \in Nat \ {0} /\ (Reaches(rounded) <=> rounded >= PassHundredths)
      BY <3>1, HundredthsReach
    <3>3. rounded >= PassHundredths
            <=> 2 * earned * 10000 >= (2 * PassHundredths - 1) * possible
      BY <2>4, <3>2, RoundedReaches
    <3> DEFINE verdict == result.passed
    <3>4. verdict = Reaches(rounded)
      BY <2>3
    <3>5. Reaches(rounded) <=> 2 * earned * 10000 >= (2 * PassHundredths - 1) * possible
      BY <3>2, <3>3
    <3>6. Reaches(rounded) \in BOOLEAN
      BY DEF Reaches
    <3> HIDE DEF verdict, rounded
    <3>7. verdict <=> Reaches(rounded)
      BY <3>4, <3>6
    <3> QED
      BY <3>5, <3>7 DEF verdict
  <2>6. 2 * earned * 10000 \in Int /\ (2 * PassHundredths - 1) * possible \in Int
    <3>1. PassHundredths \in Nat \ {0}
      BY <2>4, HundredthsReach
    <3> QED
      BY <2>4, <3>1
  <2> QED
    BY <2>5, <2>6 DEF AboveMark, BelowMark
<1>2. MarkOK => PassMarkHonoured
  BY <1>1, Zenon DEF PassMarkHonoured
<1> QED
  BY <1>2, MarkAlways, PTL

LEMMA OneMorePick ==
  ASSUME MarkOK, NEW i \in Items, NEW o \in Options, Pick(i, o)
  PROVE  PickEffect(i, o)
<1> DEFINE x == filled[i]  y == Append(x, o)
<1>1. Kind[i] # "constructed" /\ x \in Seq(Options) /\ y \in Seq(Options)
  BY DEF Pick, MarkOK
<1>2. filled'[i] = y /\ graded' = graded
  BY DEF Pick, MarkOK
<1>3. x # NULL /\ y # NULL
  BY <1>1, MarkingAssumption
<1>4. Picked(x) /\ Picked(y)
  BY <1>1, PicksArePicked
<1>5. Range(y) = Range(x) \cup {o}
  <2>1. /\ DOMAIN x = 1..Len(x) /\ Len(x) \in Nat /\ DOMAIN y = 1..Len(x) + 1
        /\ y[Len(x) + 1] = o /\ \A n \in 1..Len(x) : y[n] = x[n]
    BY <1>1
  <2> HIDE DEF x, y
  <2>2. \A n \in DOMAIN x : n \in DOMAIN y /\ y[n] = x[n]
    BY <2>1
  <2>3. \A n \in DOMAIN y : n \in DOMAIN x \/ y[n] = o
    BY <2>1
  <2>4. Len(x) + 1 \in DOMAIN y
    BY <2>1
  <2> QED
    BY <2>1, <2>2, <2>3, <2>4 DEF Range
<1> HIDE DEF x, y
<1>6. Kind[i] = "single" =>
        /\ Awarded(i, filled, graded) = SinglePoints(i, x)
        /\ Awarded(i, filled', graded') = SinglePoints(i, y)
  BY <1>2, <1>3 DEF Awarded, x
<1>7. Kind[i] = "multi" =>
        /\ Awarded(i, filled, graded) = MultiPoints(i, x)
        /\ Awarded(i, filled', graded') = MultiPoints(i, y)
  BY <1>2, <1>3 DEF Awarded, x
<1>8. Kind[i] = "single" /\ x # <<>> => SinglePoints(i, y) = SinglePoints(i, x)
  <2>1. x # <<>> => y # <<>> /\ y[1] = x[1]
    BY <1>1 DEF y
  <2> QED
    BY <2>1 DEF SinglePoints
<1>9. Kind[i] = "multi" /\ o \in Range(x) => MultiPoints(i, y) = MultiPoints(i, x)
  <2>1. o \in Range(x) => Range(y) = Range(x)
    BY <1>5
  <2> QED
    BY <2>1, MultiPointsByShare
<1>10. Kind[i] = "multi" /\ o \notin Range(Key[i]) => MultiPoints(i, y) <= MultiPoints(i, x)
  BY <1>4, <1>5, MultiPointsGrow
<1>11. Kind[i] = "multi" /\ o \in Range(Key[i]) => MultiPoints(i, y) >= MultiPoints(i, x)
  <2> HAVE Kind[i] = "multi" /\ o \in Range(Key[i])
  <2>1. MultiPoints(i, x) <= MultiPoints(i, y)
    BY <1>4, <1>5, MultiPointsGrow
  <2>2. MultiPoints(i, x) \in Int /\ MultiPoints(i, y) \in Int
    BY <1>4, MultiPointsInRange
  <2> QED
    BY <2>1, <2>2
<1> QED
  BY <1>6, <1>7, <1>8, <1>9, <1>10, <1>11 DEF PickEffect, x

(* One more pick of a key option never hurts, of a wrong one never helps,  *)
(* and a repeated one, or a second one of a single item, changes nothing   *)
(* (scoring.js, scoreItem).                                                *)
THEOREM PicksMonotone == MarkSpec => PicksAreMonotone
<1>1. MarkOK /\ [MarkNext]_markVars =>
        [\A i \in Items, o \in Options : Pick(i, o) => PickEffect(i, o)]_markVars
  BY OneMorePick
<1> QED
  BY <1>1, MarkAlways, PTL DEF MarkSpec, PicksAreMonotone

LEMMA OneOtherGrade ==
  ASSUME MarkOK, MarkOK', NEW i \in Items, NEW g \in Grades, Grade(i, g),
         graded[i] # NULL, g >= graded[i], result.passed # NULL
  PROVE  /\ result'.passed # NULL
         /\ result'.score >= result.score
         /\ result.passed => result'.passed
<1> DEFINE s == filled  m == graded  k == graded'
<1>1. Scorable(s, m) /\ Scorable(s, k) /\ filled' = s
  <2>1. filled' = s
    BY DEF Grade
  <2>2. Scorable(s, m)
    BY MarkedIsScorable
  <2>3. Scorable(s, k)
    <3>1. \A j \in Items : k[j] \in Grades \cup {NULL}
      BY DEF MarkOK
    <3> QED
      BY <2>2, <3>1 DEF Scorable
  <2> QED
    BY <2>1, <2>2, <2>3
<1>2. result = ScoreAttempt(s, m) /\ result' = ScoreAttempt(s, k)
  BY <1>1 DEF result
<1>3. k[i] = g /\ \A j \in Items : j # i => k[j] = m[j]
  BY DEF Grade, MarkOK
<1>4. g \in Nat /\ m[i] \in Nat /\ m[i] <= g /\ g # NULL
  BY Assessed DEF MarkOK
<1>5. GradePoints(i, m[i]) \in Nat /\ GradePoints(i, g) \in Nat
      /\ GradePoints(i, m[i]) <= GradePoints(i, g)
  BY <1>4, LesserOf, Assessed DEF GradePoints
<1> HIDE DEF s, m, k
<1>6. Ungraded(s, m) = {}
  BY <1>1, <1>2, ResultIs
<1>7. ASSUME NEW j \in Items
      PROVE  /\ Awarded(j, s, m) \in Nat /\ Awarded(j, s, k) \in Nat
             /\ Awarded(j, s, m) <= Awarded(j, s, k)
  <2>1. Awarded(j, s, m) \in Nat
    BY <1>1, <1>6, AwardInRange DEF Ungraded
  <2>2. CASE j # i \/ s[j] = NULL \/ Kind[j] \in {"single", "multi"}
    <3>1. Awarded(j, s, k) = Awarded(j, s, m)
      BY <1>3, <2>2 DEF Awarded
    <3> QED
      BY <2>1, <3>1
  <2>3. CASE j = i /\ s[j] # NULL /\ Kind[j] \notin {"single", "multi"}
    <3>1. /\ Awarded(j, s, m) = GradePoints(i, m[i])
          /\ Awarded(j, s, k) = GradePoints(i, g)
      BY <1>3, <1>4, <2>3, Assessed DEF Awarded
    <3> QED
      BY <1>5, <3>1
  <2> QED
    BY <2>2, <2>3
<1>8. Ungraded(s, k) = {}
  BY <1>7, Assessed DEF Ungraded
<1> DEFINE e == SumFunction(EarnedBy(s, m))  f == SumFunction(EarnedBy(s, k))
           p == SumFunction(Points)
<1>9. e \in Nat /\ f \in Nat /\ p \in Nat \ {0}
  BY <1>1, EarnedInRange
<1>10. e <= f
  <2>1. \A j \in Items : /\ EarnedBy(s, m)[j] \in Nat /\ EarnedBy(s, k)[j] \in Nat
                         /\ EarnedBy(s, m)[j] <= EarnedBy(s, k)[j]
    BY <1>6, <1>7, <1>8 DEF EarnedBy
  <2>2. DOMAIN EarnedBy(s, m) = Items /\ DOMAIN EarnedBy(s, k) = Items
    BY DEF EarnedBy
  <2>3. IsFiniteSet(Items)
    BY AssessmentAssumption DEF AssessmentAssumption
  <2>4. SumFunctionOnSet(EarnedBy(s, m), Items) <= SumFunctionOnSet(EarnedBy(s, k), Items)
    BY <2>1, <2>3, SumsGrow
  <2> QED
    BY <2>2, <2>4 DEF SumFunction
<1>11. /\ result.score = RoundedPercent(e, p) /\ result'.score = RoundedPercent(f, p)
       /\ result.passed = Reaches(RoundedPercent(e, p))
       /\ result'.passed = Reaches(RoundedPercent(f, p))
       /\ result'.passed # NULL
  BY <1>1, <1>2, <1>6, <1>8, ResultIs DEF ScorePercent
<1> HIDE DEF e, f, p
<1> DEFINE a == RoundedPercent(e, p)  b == RoundedPercent(f, p)
<1>12. a <= b
  BY <1>9, <1>10, RoundedGrows
<1>13. a \in Nat /\ b \in Nat
  <2>1. a \in Nat
    BY <1>9, Rounded
  <2>2. b \in Nat
    BY <1>9, Rounded
  <2> QED
    BY <2>1, <2>2
<1> HIDE DEF a, b
<1>14. Reaches(a) <=> a >= PassHundredths
  BY <1>13, HundredthsReach
<1>15. Reaches(b) <=> b >= PassHundredths
  BY <1>13, HundredthsReach
<1>16. PassHundredths \in Nat
  BY <1>13, HundredthsReach
<1>17. b >= a /\ (Reaches(a) => Reaches(b))
  BY <1>12, <1>13, <1>14, <1>15, <1>16
<1>18. /\ result.score = a /\ result'.score = b
       /\ result.passed = Reaches(a) /\ result'.passed = Reaches(b)
  BY <1>11 DEF a, b
<1> QED
  BY <1>11, <1>17, <1>18

(* A higher grade never lowers a decided score, nor turns a pass into a    *)
(* fail, nor undecides a verdict (scoring.js, scoreAttempt).               *)
THEOREM GradesMonotone == MarkSpec => GradesAreMonotone
<1>1. MarkOK /\ MarkOK' /\ [MarkNext]_markVars =>
        [\A i \in Items, g \in Grades :
           /\ Grade(i, g)
           /\ graded[i] # NULL /\ g >= graded[i]
           /\ result.passed # NULL
           => /\ result'.passed # NULL
              /\ result'.score >= result.score
              /\ result.passed => result'.passed]_markVars
  BY OneOtherGrade
<1> QED
  BY <1>1, MarkAlways, PTL DEF MarkSpec, GradesAreMonotone
=============================================================================
