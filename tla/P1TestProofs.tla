---------------------------- MODULE P1TestProofs ----------------------------
EXTENDS P1Test, FiniteSetTheorems, WellFoundedInduction, TLAPS

-----------------------------------------------------------------------------
(* Arithmetic *)

\* Multiplication by a positive number keeps and reflects the order.
LEMMA TimesMonotone ==
  ASSUME NEW a \in Int, NEW b \in Int, NEW t \in Nat \ {0}
  PROVE  /\ a < b => a * t + t <= b * t
         /\ a * t \in Int
<1>1. \A c \in Nat, d \in Nat : c * d \in Nat
  BY SMT
<1>2. ASSUME a < b PROVE a * t + t <= b * t
  <2>1. b - a - 1 \in Nat
    BY <1>2
  <2>2. (b - a - 1) * t >= 0
    BY <2>1, <1>1
  <2>3. (b - a - 1) * t = b * t - a * t - t
    BY SMT
  <2> QED
    BY <2>2, <2>3
<1> QED
  BY <1>2

\* The quotient of C is the one number that fits.
LEMMA DivUnique ==
  ASSUME NEW p \in Int, NEW t \in Nat \ {0}, NEW q \in Int,
         q * t <= p, p < q * t + t
  PROVE  p \div t = q
<1> DEFINE r == p \div t
<1>1. r \in Int /\ r * t <= p /\ p < r * t + t
  BY SMT
<1> HIDE DEF r
<1>2. ~ (r < q)
  BY <1>1, TimesMonotone
<1>3. ~ (q < r)
  BY <1>1, TimesMonotone
<1> QED
  BY <1>1, <1>2, <1>3 DEF r

\* Products of line 106 are integers, with the sign of the weight.
LEMMA Products ==
  ASSUME NEW s \in Nat, NEW w \in Int
  PROVE  /\ s * w \in Int
         /\ w >= 0 => s * w >= 0
         /\ w <= 0 => s * w <= 0
         /\ - (s * w) = s * (- w)
<1>1. \A c \in Nat, d \in Nat : c * d \in Nat
  BY SMT
<1>2. s * w \in Int /\ - (s * w) = s * (- w)
  BY SMT
<1>3. w >= 0 => s * w >= 0
  BY <1>1
<1>4. w <= 0 => s * (- w) >= 0
  BY <1>1
<1> QED
  BY <1>2, <1>3, <1>4

\* The marks for a weight that is not negative: both parts are rounded down.
LEMMA PartsOfWeight ==
  ASSUME NEW s \in Nat, NEW e \in Nat, NEW w \in Nat, s + e > 0
  PROVE  LET t == s + e
             a == (s * w) \div t
             b == (e * w) \div t
         IN  /\ a \in Int /\ b \in Int
             /\ (t * w) \div t = w
             /\ w - (a + b) \in {0, 1}
             /\ a <= w
             /\ w > 0 => (a = w <=> e = 0)
<1> DEFINE t == s + e
           a == (s * w) \div t
           b == (e * w) \div t
<1>t. t \in Nat \ {0} /\ t = s + e
  OBVIOUS
<1>p. s * w \in Int /\ e * w \in Int /\ t * w \in Int /\ s * w >= 0 /\ e * w >= 0
  BY <1>t, Products
<1> HIDE DEF t
<1>a. a \in Int /\ a * t <= s * w /\ s * w < a * t + t
  BY <1>p, <1>t, SMT
<1>b. b \in Int /\ b * t <= e * w /\ e * w < b * t + t
  BY <1>p, <1>t, SMT
<1> HIDE DEF a, b
<1>1. t * w = s * w + e * w /\ t * w = w * t
  BY <1>t, SMT
<1>2. (t * w) \div t = w
  BY <1>1, <1>t, <1>p, DivUnique
<1>3. a * t + b * t = (a + b) * t /\ (a + b + 1) * t = a * t + b * t + t
  BY <1>a, <1>b, <1>t, SMT
<1>m. (a + b) * t \in Int /\ (a + b + 1) * t \in Int /\ a * t \in Int /\ b * t \in Int /\ w * t \in Int
  BY <1>a, <1>b, <1>t, TimesMonotone
<1>4. ~ (w < a + b)
  <2>1. w < a + b => w * t + t <= (a + b) * t
    BY <1>a, <1>b, <1>t, TimesMonotone
  <2> QED
    BY <2>1, <1>a, <1>b, <1>1, <1>3, <1>t, <1>p, <1>m
<1>5. ~ (a + b + 1 < w)
  <2>1. a + b + 1 < w => (a + b + 1) * t + t <= w * t
    BY <1>a, <1>b, <1>t, TimesMonotone
  <2> QED
    BY <2>1, <1>a, <1>b, <1>1, <1>3, <1>t, <1>p, <1>m
<1>6. b >= 0
  <2>1. b < 0 => b * t + t <= 0 * t
    BY <1>b, <1>t, TimesMonotone
  <2>2. 0 * t = 0
    BY <1>t
  <2>3. b < 0 => e * w < 0
    BY <2>1, <2>2, <1>b, <1>p, <1>m, <1>t
  <2> QED
    BY <2>3, <1>b, <1>p
<1>7. e = 0 => a = w
  <2>1. e = 0 => s = t
    BY <1>t
  <2> QED
    BY <2>1, <1>2 DEF a
<1>8. w > 0 /\ a = w => e = 0
  <2> SUFFICES ASSUME w > 0, a = w, e > 0 PROVE FALSE
    OBVIOUS
  <2>1. s * w + w <= t * w
    BY <1>t, TimesMonotone
  <2>2. w * t <= s * w
    BY <1>a, Zenon
  <2> QED
    BY <2>1, <2>2, <1>1, <1>p, <1>m
<1>9. w - (a + b) \in {0, 1} /\ a <= w
  BY <1>4, <1>5, <1>6, <1>a, <1>b
<1> QED
  BY <1>a, <1>b, <1>2, <1>7, <1>8, <1>9 DEF a, b, t

\* What C's division makes of a product with a negative weight.
LEMMA QuotientOf ==
  ASSUME NEW s \in Nat, NEW w \in Int, NEW t \in Nat \ {0}
  PROVE  /\ w >= 0 => Quotient(s * w, t) = (s * w) \div t
         /\ w < 0 => Quotient(s * w, t) = - ((s * (- w)) \div t)
<1>1. CASE w >= 0
  BY <1>1, Products DEF Quotient
<1>2. CASE w < 0
  <2>1. s * w \in Int /\ s * w <= 0 /\ - (s * w) = s * (- w)
    BY <1>2, Products
  <2>2. CASE s * w = 0
    <3>1. 0 \div t = 0
      BY DivUnique
    <3> QED
      BY <3>1, <2>1, <2>2, <1>2 DEF Quotient
  <2>3. CASE s * w # 0
    BY <2>1, <2>3, <1>2 DEF Quotient
  <2> QED
    BY <2>2, <2>3
<1> QED
  BY <1>1, <1>2

\* The three numbers of line 106, for s right and e wrong comparisons.
LEMMA MarksOf ==
  ASSUME NEW s \in Nat, NEW e \in Nat, NEW w \in Int, s + e > 0
  PROVE  LET S == Quotient(s * w, s + e)
             E == Quotient(e * w, s + e)
             T == Quotient((s + e) * w, s + e)
         IN  /\ S \in Int /\ E \in Int
             /\ T = w
             /\ w # 0 => (S = T <=> e = 0)
             /\ T - (S + E) \in {0, IF w > 0 THEN 1 ELSE - 1}
             /\ w > 0 => S <= T
<1>t. s + e \in Nat \ {0} /\ s + e \in Nat
  OBVIOUS
<1>1. CASE w >= 0
  <2>1. w \in Nat
    BY <1>1
  <2>2. /\ Quotient(s * w, s + e) = (s * w) \div (s + e)
        /\ Quotient(e * w, s + e) = (e * w) \div (s + e)
        /\ Quotient((s + e) * w, s + e) = ((s + e) * w) \div (s + e)
    BY <1>1, <1>t, QuotientOf
  <2>3. w = 0 => (s * w) \div (s + e) = 0 /\ (e * w) \div (s + e) = 0
    <3>1. 0 \div (s + e) = 0
      BY <1>t, DivUnique
    <3>2. s * 0 = 0 /\ e * 0 = 0
      OBVIOUS
    <3> QED
      BY <3>1, <3>2
  <2> QED
    BY <2>1, <2>2, <2>3, PartsOfWeight
<1>2. CASE w < 0
  <2> DEFINE u == - w
             a == (s * u) \div (s + e)
             b == (e * u) \div (s + e)
  <2>1. u \in Nat /\ u > 0 /\ w = - u
    BY <1>2
  <2>2. /\ Quotient(s * w, s + e) = - a
        /\ Quotient(e * w, s + e) = - b
        /\ Quotient((s + e) * w, s + e) = - (((s + e) * u) \div (s + e))
    BY <1>2, <1>t, QuotientOf
  <2> HIDE DEF u
  <2>3. /\ a \in Int /\ b \in Int
        /\ ((s + e) * u) \div (s + e) = u
        /\ u - (a + b) \in {0, 1}
        /\ a = u <=> e = 0
    BY <2>1, PartsOfWeight
  <2> HIDE DEF a, b
  <2> QED
    BY <2>1, <2>2, <2>3, <1>2
<1> QED
  BY <1>1, <1>2

\* An int is what the arithmetic of ints makes of it.
LEMMA WrappedType ==
  ASSUME NEW n \in Int
  PROVE  /\ Wrapped(n) \in Int
         /\ n \in CInt => Wrapped(n) = n
<1> DEFINE m == IntMax + 1
           p == 2 * m
           k == n + IntMax + 1
<1>1. m \in Nat \ {0} /\ p \in Nat \ {0} /\ p = m + m /\ k \in Int
  BY WidthAssumption
<1>2. k \in Int /\ n \in CInt => k >= 0 /\ k < p
  BY <1>1, WidthAssumption DEF CInt
<1>3. Wrapped(n) = (k % p) - m
  BY DEF Wrapped
<1>4. k = n + m
  BY WidthAssumption
<1> HIDE DEF m, p, k
<1>5. k % p \in Int
  BY <1>1, SMT
<1>6. ASSUME n \in CInt PROVE k % p = k
  <2>1. k \div p = 0
    BY <1>1, <1>2, <1>6, DivUnique
  <2>2. k = p * (k \div p) + (k % p)
    BY <1>1, SMT
  <2> QED
    BY <2>1, <2>2, <1>1, <1>5
<1> QED
  BY <1>1, <1>3, <1>4, <1>5, <1>6

\* If the largest product of line 106 is an int, so are the two others.
LEMMA ProductsFit ==
  ASSUME NEW s \in Nat, NEW e \in Nat, NEW w \in Int, (s + e) * w \in CInt
  PROVE  s * w \in CInt /\ e * w \in CInt
<1>1. (s + e) * w = s * w + e * w
  BY SMT
<1>2. /\ s * w \in Int /\ e * w \in Int
      /\ w >= 0 => s * w >= 0 /\ e * w >= 0
      /\ w <= 0 => s * w <= 0 /\ e * w <= 0
  BY Products
<1> QED
  BY <1>1, <1>2, WidthAssumption DEF CInt

-----------------------------------------------------------------------------
(* The sum of the weights *)

\* A set of natural numbers has a least element: what is proved below by
\* induction over the tests is proved of the first test it would fail for.
LEMMA LeastElement ==
  ASSUME NEW T, T \subseteq Nat, T # {}
  PROVE  \E x \in T : \A y \in T : x <= y
<1>1. \E x \in T : \A y \in T : ~ (<<y, x>> \in OpToRel(<, Nat))
  BY WFMin, NatLessThanWellFounded
<1>2. PICK x \in T : \A y \in T : ~ (<<y, x>> \in OpToRel(<, Nat))
  BY <1>1
<1>3. \A y \in Nat : y < x => <<y, x>> \in OpToRel(<, Nat)
  BY DEF OpToRel
<1>4. \A y \in T : ~ (y < x)
  BY <1>2, <1>3
<1> QED
  BY <1>4

\* A function that satisfies the recursion of WeightSum exists.
LEMMA WeightSumExists ==
  \E f : f = [n \in 0..NTests |-> IF n = 0 THEN 0 ELSE f[n - 1] + Weighed(n)]
<1> DEFINE Upto(m, f) ==
             f = [n \in 0..m |-> IF n = 0 THEN 0 ELSE f[n - 1] + Weighed(n)]
           Bad == {m \in Nat : ~ \E f : Upto(m, f)}
<1>1. \E f : Upto(0, f)
  <2> DEFINE g == [n \in 0..0 |-> 0]
  <2>1. Upto(0, g)
    OBVIOUS
  <2> QED
    BY <2>1
<1>2. ASSUME NEW m \in Nat, NEW f, Upto(m, f)
      PROVE  \E g : Upto(m + 1, g)
  <2> DEFINE g == [n \in 0..(m + 1) |-> IF n = m + 1 THEN f[m] + Weighed(n) ELSE f[n]]
  <2>1. \A n \in 0..m : f[n] = IF n = 0 THEN 0 ELSE f[n - 1] + Weighed(n)
    BY <1>2
  <2>2. \A n \in 0..(m + 1) : g[n] = IF n = 0 THEN 0 ELSE g[n - 1] + Weighed(n)
    <3> SUFFICES ASSUME NEW n \in 0..(m + 1)
                 PROVE  g[n] = IF n = 0 THEN 0 ELSE g[n - 1] + Weighed(n)
      OBVIOUS
    <3>1. CASE n = m + 1
      <4>1. n # 0 /\ n - 1 = m /\ m \in 0..(m + 1) /\ m # m + 1
        BY <3>1
      <4>2. g[m] = f[m]
        BY <4>1
      <4> QED
        BY <3>1, <4>1, <4>2
    <3>2. CASE n # m + 1
      <4>1. n \in 0..m /\ g[n] = f[n]
        BY <3>2
      <4>2. n # 0 => n - 1 \in 0..(m + 1) /\ n - 1 # m + 1
        BY <3>2
      <4>3. n # 0 => g[n - 1] = f[n - 1]
        BY <4>2
      <4> QED
        BY <4>1, <4>3, <2>1
    <3> QED
      BY <3>1, <3>2
  <2>3. g = [n \in 0..(m + 1) |-> g[n]]
    OBVIOUS
  <2> HIDE DEF g
  <2>4. Upto(m + 1, g)
    BY <2>2, <2>3
  <2> QED
    BY <2>4
<1> HIDE DEF Upto
<1>3. Bad = {}
  <2> SUFFICES ASSUME Bad # {} PROVE FALSE
    OBVIOUS
  <2>1. PICK m \in Bad : \A y \in Bad : m <= y
    BY LeastElement
  <2>2. m # 0 /\ m \in Nat /\ m - 1 \in Nat /\ m - 1 \notin Bad
    BY <2>1, <1>1
  <2>3. PICK f : Upto(m - 1, f)
    BY <2>2
  <2>4. \E g : Upto(m, g)
    BY <2>2, <2>3, <1>2
  <2> QED
    BY <2>1, <2>4
<1>4. \E f : Upto(NTests, f)
  BY <1>3, TestsAssumption
<1> QED
  BY <1>4 DEF Upto

\* The two cases of the recursion.
LEMMA WeightSumStep ==
  /\ WeightSum[0] = 0
  /\ \A n \in 1..NTests : WeightSum[n] = WeightSum[n - 1] + Weighed(n)
<1> DEFINE IsSum(f) ==
             f = [n \in 0..NTests |-> IF n = 0 THEN 0 ELSE f[n - 1] + Weighed(n)]
<1>1. WeightSum = CHOOSE f : IsSum(f)
  BY DEF WeightSum
<1>2. \E f : IsSum(f)
  BY WeightSumExists
<1>3. IsSum(WeightSum)
  BY <1>1, <1>2, Zenon
<1>4. \A n \in 0..NTests :
        WeightSum[n] = IF n = 0 THEN 0 ELSE WeightSum[n - 1] + Weighed(n)
  BY <1>3, Zenon
<1> QED
  BY <1>4, TestsAssumption

-----------------------------------------------------------------------------
(* The variables keep their types *)

\* The number of elements of an array, and of the wrong ones among them.
LEMMA Lengths ==
  ASSUME NEW n \in Int
  PROVE  /\ Cardinality(1..n) \in Nat
         /\ \A S \in SUBSET (1..n) : Cardinality(S) \in Nat /\ Cardinality(S) <= Cardinality(1..n)
<1>1. IsFiniteSet(1..n)
  BY FS_Interval
<1> QED
  BY <1>1, FS_CardinalityType, FS_Subset

\* The words of the file main.c reads from.
LEMMA FileWords ==
  ASSUME TypeOK, cur \in Tests
  PROVE  /\ data[cur] \in DataFiles
         /\ data[cur].there \in BOOLEAN
         /\ words \in Seq(SUBSET CInt)
         /\ \A k \in Nat \ {0} : ~ Eof(k) => words[k] \subseteq Int /\ \A m, n \in words[k] : m = n
         /\ \A k \in Nat \ {0} : Scanned(k) \subseteq Int
<1>1. data[cur] \in DataFiles
  BY DEF TypeOK
<1>i. CInt \subseteq Int
  BY WidthAssumption DEF CInt
<1>2. data[cur].there \in BOOLEAN /\ words \in Seq(SUBSET CInt)
  BY <1>1, DataAssumption DEF words
<1>3. ASSUME NEW k \in Nat \ {0}, ~ Eof(k)
      PROVE  k \in DOMAIN words
  BY <1>2, <1>3 DEF Eof
<1>4. ASSUME NEW k \in Nat \ {0}, ~ Eof(k)
      PROVE  words[k] \subseteq Int /\ \A m, n \in words[k] : m = n
  <2>1. words[k] \in SUBSET CInt
    BY <1>2, <1>3, <1>4
  <2> QED
    BY <1>1, <1>i, <1>3, <1>4, <2>1, DataAssumption DEF words
<1>5. ASSUME NEW k \in Nat \ {0}
      PROVE  Scanned(k) \subseteq Int
  BY <1>4, <1>i, IntAssumption DEF Scanned
<1> QED
  BY <1>1, <1>2, <1>4, <1>5

\* main's variables as a record.
LEMMA Locals ==
  ASSUME DOMAIN v = DOMAIN Fresh
  PROVE  DOMAIN v = {"pos", "len", "input", "ret_value", "output", "weight", "got_ret",
                     "success", "errors"}
BY DEF Fresh

LEMMA FreshType ==
  /\ Fresh.pos = 1 /\ Fresh.len = 0 /\ Fresh.weight = 1
  /\ Fresh.success = 0 /\ Fresh.errors = 0
BY DEF Fresh

\* What line 106 sends to X-test.
LEMMA PrintedMarks ==
  ASSUME TypeOK, Reading, PrintMarks
  PROVE  /\ result' = [result EXCEPT ![cur] = result'[cur]]
         /\ right' = [right EXCEPT ![cur] = (v.errors = 0)]
         /\ result'[cur] \in [holds : {"marks"}, success : Int, errors : Int, total : Int]
         /\ (v.success + v.errors) * v.weight \in CInt =>
              /\ result'[cur].total = v.weight
              /\ v.weight # 0 => (result'[cur].success = v.weight <=> v.errors = 0)
              /\ v.weight - (result'[cur].success + result'[cur].errors)
                   \in {0, IF v.weight > 0 THEN 1 ELSE - 1}
              /\ v.weight > 0 => result'[cur].success <= v.weight
<1> DEFINE s == v.success
           e == v.errors
           w == v.weight
           S == Quotient(Wrapped(s * w), s + e)
           E == Quotient(Wrapped(e * w), s + e)
           T == Quotient(Wrapped((s + e) * w), s + e)
<1>1. s \in Nat /\ e \in Nat /\ w \in Int /\ s + e > 0 /\ cur \in Tests
  BY DEF TypeOK, Reading, PrintMarks, Program
<1>2. PICK whole \in {T, w} :
        result' = [result EXCEPT ![cur] = [holds |-> "marks", success |-> S, errors |-> E,
                                           total |-> whole]]
  BY DEF PrintMarks, Leave, Scaled
<1>r. right' = [right EXCEPT ![cur] = (v.errors = 0)]
  BY DEF PrintMarks
<1> DEFINE file == [holds |-> "marks", success |-> S, errors |-> E, total |-> whole]
<1> HIDE DEF s, e, w
<1>p. s * w \in Int /\ e * w \in Int /\ (s + e) * w \in Int
  BY <1>1, Products
<1>q. \A x \in Int : Quotient(x, s + e) \in Int
  <2>1. s + e \in Nat \ {0}
    BY <1>1
  <2>2. \A x \in Int, y \in Nat \ {0} : x \div y \in Int
    BY SMT
  <2> QED
    BY <2>1, <2>2 DEF Quotient
<1>3. S \in Int /\ E \in Int /\ T \in Int /\ whole \in Int
  <2>1. Wrapped(s * w) \in Int /\ Wrapped(e * w) \in Int /\ Wrapped((s + e) * w) \in Int
    BY <1>p, WrappedType
  <2> QED
    BY <2>1, <1>q, <1>1, <1>2
<1> DEFINE A == Quotient(s * w, s + e)
           B == Quotient(e * w, s + e)
           C == Quotient((s + e) * w, s + e)
<1>a. /\ A \in Int /\ B \in Int
      /\ C = w
      /\ w # 0 => (A = C <=> e = 0)
      /\ C - (A + B) \in {0, IF w > 0 THEN 1 ELSE - 1}
      /\ w > 0 => A <= C
  BY <1>1, MarksOf
<1>f. ASSUME (s + e) * w \in CInt
      PROVE  /\ whole = w
             /\ w # 0 => (S = w <=> e = 0)
             /\ w - (S + E) \in {0, IF w > 0 THEN 1 ELSE - 1}
             /\ w > 0 => S <= w
  <2>1. s * w \in CInt /\ e * w \in CInt
    BY <1>f, <1>1, ProductsFit
  <2>2. Wrapped(s * w) = s * w /\ Wrapped(e * w) = e * w /\ Wrapped((s + e) * w) = (s + e) * w
    BY <2>1, <1>f, <1>p, WrappedType
  <2>3. S = A /\ E = B /\ T = C
    BY <2>2
  <2> HIDE DEF S, E, T, A, B, C
  <2>4. /\ T = w
        /\ w # 0 => (S = T <=> e = 0)
        /\ T - (S + E) \in {0, IF w > 0 THEN 1 ELSE - 1}
        /\ w > 0 => S <= T
    BY <2>3, <1>a
  <2>5. whole = w
    BY <2>4, <1>2
  <2> QED
    BY <2>4, <2>5
<1> HIDE DEF S, E, T
<1>4. result'[cur] = file
  BY <1>1, <1>2 DEF TypeOK
<1>5. /\ file \in [holds : {"marks"}, success : Int, errors : Int, total : Int]
      /\ file.total = whole /\ file.success = S /\ file.errors = E
  BY <1>1, <1>3
<1>7. result' = [result EXCEPT ![cur] = file]
  BY <1>2
<1> HIDE DEF file
<1>6. (s + e) * w \in CInt =>
        /\ file.total = w
        /\ w # 0 => (file.success = w <=> e = 0)
        /\ w - (file.success + file.errors) \in {0, IF w > 0 THEN 1 ELSE - 1}
        /\ w > 0 => file.success <= w
  BY <1>f, <1>5
<1> QED
  BY <1>r, <1>4, <1>5, <1>6, <1>7 DEF s, e, w

\* Every action keeps the types.
LEMMA TypeStep ==
  ASSUME IInv, [Next]_vars
  PROVE  TypeOK'
<1> USE DEF IInv
<1> DEFINE Held == [holds : {"absent", "nothing", "message", "marks"},
                    success : Int, errors : Int, total : Int]
<1>f. NoFile \in Held /\ Empty \in Held /\ [Empty EXCEPT !.holds = "message"] \in Held
  <2>1. Empty = [holds |-> "nothing", success |-> 0, errors |-> 0, total |-> 0]
    BY DEF NoFile, Empty
  <2>2. [Empty EXCEPT !.holds = "message"]
          = [holds |-> "message", success |-> 0, errors |-> 0, total |-> 0]
    BY <2>1
  <2> QED
    BY <2>1, <2>2 DEF NoFile
<1>e. ASSUME Crash \/ FormatError, cur \in Tests, UNCHANGED <<data, cur, summary, right>>
      PROVE  TypeOK'
  <2>1. PICK h \in Held : Leave(h, "idle")
    BY <1>e, <1>f DEF Crash, FormatError
  <2>2. v' = Fresh /\ pc' = "idle" /\ broken' = TRUE
    BY <2>1, <1>e DEF Leave, Crash, FormatError
  <2>3. result' \in [Tests -> Held]
    BY <2>1, <1>e DEF Leave, TypeOK
  <2> QED
    BY <1>e, <2>2, <2>3, FreshType DEF TypeOK, Program
<1>g. ASSUME NEW step \in Program, NEW locals, Goto(step, locals), cur \in Tests,
             UNCHANGED <<data, cur, summary, right>>,
             DOMAIN locals = DOMAIN v, locals.pos \in Nat \ {0}, locals.len \in Int,
             locals.weight \in Int, locals.success \in Nat, locals.errors \in Nat
      PROVE  TypeOK'
  BY <1>g DEF Goto, TypeOK
<1>r. pc \in Program => cur \in Tests
  BY DEF TypeOK
<1>l. v.pos \in Nat \ {0} /\ v.len \in Int /\ v.weight \in Int /\ v.success \in Nat /\ v.errors \in Nat
  BY DEF TypeOK
<1>d. DOMAIN v = {"pos", "len", "input", "ret_value", "output", "weight", "got_ret",
                  "success", "errors"}
  BY Locals DEF TypeOK
<1>n. Cardinality(1..v.len) \in Nat
  BY <1>l, Lengths
<1>1. CASE Open
  <2>1. cur \in Tests /\ "len" \in Program
    BY <1>1, <1>r DEF Open, Program
  <2>2. CASE Crash
    BY <2>1, <2>2, <1>1, <1>e DEF Open
  <2>3. CASE Goto("len", v)
    BY <2>1, <2>3, <1>1, <1>g, <1>l DEF Open
  <2> QED
    BY <1>1, <2>2, <2>3 DEF Open
<1>2. CASE ReadLen
  <2>1. cur \in Tests /\ "input" \in Program
    BY <1>2, <1>r DEF ReadLen, Program
  <2>2. CASE Crash \/ FormatError
    BY <2>1, <2>2, <1>2, <1>e DEF ReadLen
  <2>3. ASSUME NEW n \in Scanned(1), Goto("input", [v EXCEPT !.len = n, !.pos = 2])
        PROVE  TypeOK'
    <3>1. n \in Int
      BY <2>1, FileWords
    <3> DEFINE l == [v EXCEPT !.len = n, !.pos = 2]
    <3>2. /\ DOMAIN l = DOMAIN v /\ l.pos = 2 /\ l.len = n /\ l.weight = v.weight
          /\ l.success = v.success /\ l.errors = v.errors
      BY <1>d
    <3>3. Goto("input", l)
      BY <2>3
    <3>4. UNCHANGED <<data, cur, summary, right>>
      BY <1>2 DEF ReadLen
    <3> HIDE DEF l
    <3>5. l.pos \in Nat \ {0} /\ l.len \in Int
      BY <3>1, <3>2
    <3> QED
      BY <2>1, <3>2, <3>3, <3>4, <3>5, <1>g, <1>l
  <2> QED
    BY <1>2, <2>2, <2>3 DEF ReadLen
<1>3. CASE ReadInput
  <2>1. cur \in Tests /\ "ret" \in Program
    BY <1>3, <1>r DEF ReadInput, Program
  <2>2. CASE FormatError
    BY <2>1, <2>2, <1>3, <1>e DEF ReadInput
  <2>3. ASSUME NEW a, Goto("ret", [v EXCEPT !.input = a, !.pos = @ + Cardinality(1..v.len)])
        PROVE  TypeOK'
    <3> DEFINE l == [v EXCEPT !.input = a, !.pos = @ + Cardinality(1..v.len)]
    <3>2. /\ DOMAIN l = DOMAIN v /\ l.pos = v.pos + Cardinality(1..v.len) /\ l.len = v.len
          /\ l.weight = v.weight /\ l.success = v.success /\ l.errors = v.errors
      BY <1>d
    <3>3. Goto("ret", l)
      BY <2>3
    <3> HIDE DEF l
    <3>4. l.pos \in Nat \ {0}
      BY <3>2, <1>l, <1>n
    <3> QED
      BY <2>1, <1>3, <3>2, <3>3, <3>4, <1>g, <1>l DEF ReadInput
  <2> QED
    BY <1>3, <2>2, <2>3 DEF ReadInput
<1>4. CASE ReadRet
  <2>1. cur \in Tests /\ "output" \in Program
    BY <1>4, <1>r DEF ReadRet, Program
  <2>2. CASE FormatError
    BY <2>1, <2>2, <1>4, <1>e DEF ReadRet
  <2>3. ASSUME NEW n, Goto("output", [v EXCEPT !.ret_value = n, !.pos = @ + 1])
        PROVE  TypeOK'
    <3> DEFINE l == [v EXCEPT !.ret_value = n, !.pos = @ + 1]
    <3>2. /\ DOMAIN l = DOMAIN v /\ l.pos = v.pos + 1 /\ l.len = v.len
          /\ l.weight = v.weight /\ l.success = v.success /\ l.errors = v.errors
      BY <1>d
    <3>3. Goto("output", l)
      BY <2>3
    <3> HIDE DEF l
    <3>4. l.pos \in Nat \ {0}
      BY <3>2, <1>l
    <3> QED
      BY <2>1, <1>4, <3>2, <3>3, <3>4, <1>g, <1>l DEF ReadRet
  <2> QED
    BY <1>4, <2>2, <2>3 DEF ReadRet
<1>5. CASE ReadOutput
  <2>1. cur \in Tests /\ "weight" \in Program
    BY <1>5, <1>r DEF ReadOutput, Program
  <2>2. CASE FormatError
    BY <2>1, <2>2, <1>5, <1>e DEF ReadOutput
  <2>3. ASSUME NEW a, Goto("weight", [v EXCEPT !.output = a, !.pos = @ + Cardinality(1..v.len)])
        PROVE  TypeOK'
    <3> DEFINE l == [v EXCEPT !.output = a, !.pos = @ + Cardinality(1..v.len)]
    <3>2. /\ DOMAIN l = DOMAIN v /\ l.pos = v.pos + Cardinality(1..v.len) /\ l.len = v.len
          /\ l.weight = v.weight /\ l.success = v.success /\ l.errors = v.errors
      BY <1>d
    <3>3. Goto("weight", l)
      BY <2>3
    <3> HIDE DEF l
    <3>4. l.pos \in Nat \ {0}
      BY <3>2, <1>l, <1>n
    <3> QED
      BY <2>1, <1>5, <3>2, <3>3, <3>4, <1>g, <1>l DEF ReadOutput
  <2> QED
    BY <1>5, <2>2, <2>3 DEF ReadOutput
<1>6. CASE ReadWeight
  <2>1. cur \in Tests /\ "call" \in Program
    BY <1>6, <1>r DEF ReadWeight, Program
  <2>2. PICK n \in (IF Eof(v.pos) \/ Mismatch(v.pos) THEN {v.weight} ELSE words[v.pos]) :
          Goto("call", [v EXCEPT !.weight = n])
    BY <1>6 DEF ReadWeight
  <2>3. n \in Int
    BY <2>1, <1>l, FileWords
  <2> DEFINE l == [v EXCEPT !.weight = n]
  <2>4. /\ DOMAIN l = DOMAIN v /\ l.pos = v.pos /\ l.len = v.len /\ l.weight = n
        /\ l.success = v.success /\ l.errors = v.errors
    BY <1>d
  <2>5. Goto("call", l)
    BY <2>2
  <2> HIDE DEF l
  <2> QED
    BY <2>1, <1>6, <2>3, <2>4, <2>5, <1>g, <1>l DEF ReadWeight
<1>7. CASE Call
  <2>1. cur \in Tests /\ "check" \in Program
    BY <1>7, <1>r DEF Call, Program
  <2>2. CASE Crash
    BY <2>1, <2>2, <1>7, <1>e DEF Call
  <2>3. ASSUME NEW r, NEW a, Goto("check", [v EXCEPT !.got_ret = r, !.input = a])
        PROVE  TypeOK'
    <3> DEFINE l == [v EXCEPT !.got_ret = r, !.input = a]
    <3>2. /\ DOMAIN l = DOMAIN v /\ l.pos = v.pos /\ l.len = v.len
          /\ l.weight = v.weight /\ l.success = v.success /\ l.errors = v.errors
      BY <1>d
    <3>3. Goto("check", l)
      BY <2>3
    <3> HIDE DEF l
    <3> QED
      BY <2>1, <1>7, <3>2, <3>3, <1>g, <1>l DEF Call
  <2> QED
    BY <1>7, <2>2, <2>3 DEF Call
<1>8. CASE Check
  <2>1. cur \in Tests /\ "print" \in Program
    BY <1>8, <1>r DEF Check, Program
  <2> DEFINE bad == Cardinality(Wrong) + IF v.ret_value # v.got_ret THEN 1 ELSE 0
             good == Cardinality(1..v.len) + 1 - bad
             l == [v EXCEPT !.errors = bad, !.success = good]
  <2>2. Cardinality(Wrong) \in Nat /\ Cardinality(Wrong) <= Cardinality(1..v.len)
    BY <1>l, Lengths DEF Wrong
  <2>3. bad \in Nat /\ good \in Nat
    BY <2>2, <1>n
  <2>4. Goto("print", l)
    BY <1>8 DEF Check
  <2> HIDE DEF bad, good
  <2>5. /\ DOMAIN l = DOMAIN v /\ l.pos = v.pos /\ l.len = v.len
        /\ l.weight = v.weight /\ l.success = good /\ l.errors = bad
    BY <1>d
  <2> HIDE DEF l
  <2> QED
    BY <2>1, <1>8, <2>3, <2>4, <2>5, <1>g, <1>l DEF Check
<1>9. CASE PrintMarks
  <2>1. cur \in Tests
    BY <1>9, <1>r DEF PrintMarks, Program
  <2>2. result'[cur] \in Held
    BY <1>9, PrintedMarks
  <2>3. result' \in [Tests -> Held]
    BY <2>2, <1>9, PrintedMarks DEF TypeOK
  <2>4. right' \in [Tests -> BOOLEAN]
    BY <1>9, PrintedMarks DEF TypeOK
  <2>5. v' = Fresh /\ pc' = "make" /\ cur' = cur + 1 /\ cur' \in 1..(NTests + 1)
    BY <2>1, <1>9, TestsAssumption DEF PrintMarks, Leave, Tests
  <2> QED
    BY <1>9, <2>3, <2>4, <2>5, FreshType DEF TypeOK, PrintMarks, Program
<1>10. CASE MakeTest
  <2>1. summary' = NoSummary /\ cur' = 1 /\ cur' \in 1..(NTests + 1) /\ pc' \in {"make", "idle"}
    BY <1>10, TestsAssumption DEF MakeTest
  <2> QED
    BY <2>1, <1>10 DEF MakeTest, TypeOK, NoSummary, Program
<1>11. CASE SkipTest
  <2>1. cur' \in 1..(NTests + 1)
    BY <1>11, TestsAssumption DEF SkipTest, Tests
  <2> QED
    BY <2>1, <1>11 DEF SkipTest, TypeOK, Program
<1>12. CASE RunTest
  <2>1. result' \in [Tests -> Held]
    BY <1>12, <1>f DEF RunTest, TypeOK
  <2> QED
    BY <2>1, <1>12 DEF RunTest, TypeOK, Program
<1>13. CASE Summarize
  <2>1. cur' \in 1..(NTests + 1)
    BY <1>13, TestsAssumption DEF Summarize
  <2> QED
    BY <2>1, <1>13 DEF Summarize, TypeOK, Program
<1>14. CASE AddFile
  <2>1. cur \in Tests /\ cur + 1 \in 1..(NTests + 1)
    BY <1>14, TestsAssumption DEF AddFile, Tests
  <2>2. result[cur] \in Held
    BY <2>1 DEF TypeOK
  <2>3. summary' \in [says : {"none", "KeyError", "ZeroDivisionError", "rate"},
                      success : Int, errors : Int, total : Int]
    <3>1. CASE result[cur].holds = "message"
      <4>1. summary' = [says |-> "KeyError", success |-> 0, errors |-> 0, total |-> 0]
        BY <1>14, <3>1 DEF AddFile, NoSummary
      <4> QED
        BY <4>1
    <3>2. CASE result[cur].holds # "message"
      <4>1. /\ summary' = [summary EXCEPT !.success = @ + result[cur].success,
                                           !.errors = @ + result[cur].errors,
                                           !.total = @ + result[cur].total]
        BY <3>2, <1>14 DEF AddFile
      <4>2. result[cur].success \in Int /\ result[cur].errors \in Int /\ result[cur].total \in Int
        BY <2>2
      <4>3. summary \in [says : {"none", "KeyError", "ZeroDivisionError", "rate"},
                         success : Int, errors : Int, total : Int]
        BY DEF TypeOK
      <4>4. summary' = [says |-> summary.says, success |-> summary.success + result[cur].success,
                        errors |-> summary.errors + result[cur].errors,
                        total |-> summary.total + result[cur].total]
        BY ONLY <4>1, <4>3
      <4> QED
        BY ONLY <4>2, <4>3, <4>4
    <3> QED
      BY <3>1, <3>2
  <2>4. cur' \in 1..(NTests + 1) /\ pc' \in {"idle", "sum"}
    BY <2>1, <1>14 DEF AddFile, TypeOK
  <2> QED
    BY <2>3, <2>4, <1>14 DEF AddFile, TypeOK, Program
<1>15. CASE Report
  <2>1. summary' \in [says : {"none", "KeyError", "ZeroDivisionError", "rate"},
                      success : Int, errors : Int, total : Int]
    BY <1>15 DEF Report, TypeOK
  <2> QED
    BY <2>1, <1>15 DEF Report, TypeOK, Program
<1>16. CASE Interrupt
  <2>1. result' \in [Tests -> Held]
    BY <1>16, <1>f DEF Interrupt, TypeOK
  <2> QED
    BY <2>1, <1>16, FreshType DEF Interrupt, TypeOK, Program
<1>17. CASE Kill
  BY <1>17, FreshType DEF Kill, TypeOK, Program
<1>18. CASE Clean
  <2>1. result' \in [Tests -> Held]
    BY <1>18, <1>f DEF Clean, TypeOK
  <2>2. summary' \in [says : {"none", "KeyError", "ZeroDivisionError", "rate"},
                      success : Int, errors : Int, total : Int]
    BY <1>18 DEF Clean, NoSummary
  <2> QED
    BY <2>1, <2>2, <1>18 DEF Clean, TypeOK, Program
<1>19. CASE UNCHANGED vars
  BY <1>19 DEF vars, TypeOK
<1> QED
  BY <1>1, <1>2, <1>3, <1>4, <1>5, <1>6, <1>7, <1>8, <1>9, <1>10, <1>11, <1>12, <1>13,
     <1>14, <1>15, <1>16, <1>17, <1>18, <1>19 DEF Next

-----------------------------------------------------------------------------
(* main.c reads a complete file to its end *)

LEMMA CompleteFile ==
  ASSUME TypeOK, cur \in Tests, Complete(data[cur])
  PROVE  /\ LengthOf(data[cur]) \in Nat
         /\ ~ Eof(1)
         /\ \A n \in Scanned(1) : Cardinality(1..n) = LengthOf(data[cur])
         /\ \A w \in (IF Eof(3 + 2 * LengthOf(data[cur])) \/ Mismatch(3 + 2 * LengthOf(data[cur]))
                        THEN {1} ELSE words[3 + 2 * LengthOf(data[cur])]) :
              w = WeightOf(data[cur])
<1> DEFINE f == data[cur]
           first == CHOOSE n \in words[1] : TRUE
           k == 3 + 2 * LengthOf(f)
<1>1. words \in Seq(SUBSET CInt) /\ words # <<>> /\ words = f.words
  BY FileWords DEF Complete, words
<1>2. 1 \in DOMAIN words /\ ~ Eof(1)
  BY <1>1 DEF Eof
<1>3. words[1] # {} /\ words[1] \subseteq Int /\ \A m, n \in words[1] : m = n
  BY <1>1, <1>2, FileWords DEF Complete
<1>4. first \in words[1] /\ first \in Int
  BY <1>3
<1>5. LengthOf(f) = Cardinality(1..first)
  BY <1>1 DEF LengthOf
<1> HIDE DEF first
<1>6. LengthOf(f) \in Nat
  BY <1>4, <1>5, Lengths
<1>7. \A n \in Scanned(1) : Cardinality(1..n) = LengthOf(f)
  <2>1. \A n \in words[1] : n = first
    BY <1>3, <1>4
  <2> QED
    BY <2>1, <1>2, <1>5 DEF Scanned
<1>8. ASSUME NEW w \in (IF Eof(k) \/ Mismatch(k) THEN {1} ELSE words[k])
      PROVE  w = WeightOf(f)
  <2>0. k \in Nat \ {0}
    BY <1>6
  <2>1. WeightOf(f) = IF Eof(k) THEN 1 ELSE CHOOSE n \in words[k] : TRUE
    BY <1>1 DEF WeightOf, Eof
  <2> HIDE DEF k
  <2>2. CASE Eof(k)
    BY <2>1, <2>2, <1>8
  <2>3. CASE ~ Eof(k)
    <3>1. k \in DOMAIN words
      BY <2>0, <2>3, <1>1 DEF Eof
    <3>2. words[k] # {}
      BY <3>1, <1>1 DEF Complete
    <3>3. w \in words[k]
      BY <3>2, <2>3, <1>8 DEF Mismatch
    <3>4. \A m, n \in words[k] : m = n
      BY <2>0, <2>3, FileWords
    <3> QED
      BY <3>3, <3>4, <2>1, <2>3
  <2> QED
    BY <2>2, <2>3
<1> QED
  BY <1>2, <1>6, <1>7, <1>8

\* Every step of main leaves its position where Reading says.
LEMMA ReadingStep ==
  ASSUME IInv, [Next]_vars
  PROVE  Reading'
<1> USE DEF IInv
<1> DEFINE f == data[cur]
<1>e. ASSUME pc' \notin Program, v' = Fresh
      PROVE  Reading'
  BY <1>e DEF Reading, Program
<1>f. ASSUME Crash \/ FormatError
      PROVE  Reading'
  <2>1. pc' = "idle" /\ v' = Fresh
    BY <1>f DEF Crash, FormatError, Leave
  <2> QED
    BY <2>1, <1>e DEF Program
<1>r. pc \in Program => cur \in Tests
  BY DEF TypeOK
<1>c. pc \in Program /\ Complete(f) => LengthOf(f) \in Nat
  BY <1>r, CompleteFile
<1>d. DOMAIN v = {"pos", "len", "input", "ret_value", "output", "weight", "got_ret",
                  "success", "errors"}
  BY Locals DEF TypeOK
<1>1. CASE Open
  <2>1. CASE Goto("len", v)
    <3>1. v = Fresh
      BY <1>1 DEF Open, Reading, Program
    <3> QED
      BY <2>1, <3>1 DEF Goto, Reading
  <2> QED
    BY <1>1, <1>f, <2>1 DEF Open
<1>2. CASE ReadLen
  <2>1. ASSUME NEW n \in Scanned(1), Goto("input", [v EXCEPT !.len = n, !.pos = 2])
        PROVE  Reading'
    <3>1. v = Fresh /\ cur \in Tests /\ UNCHANGED <<data, cur>>
      BY <1>2, <1>r DEF ReadLen, Reading, Program
    <3>2. v'.pos = 2 /\ v'.len = n /\ v'.weight = 1 /\ pc' = "input"
      BY <2>1, <3>1, <1>d, FreshType DEF Goto
    <3>3. Complete(f) => Cardinality(1..n) = LengthOf(f)
      BY <3>1, CompleteFile
    <3> QED
      BY <3>1, <3>2, <3>3 DEF Reading, Program
  <2> QED
    BY <1>2, <1>f, <2>1 DEF ReadLen
<1>3. CASE ReadInput
  <2>1. ASSUME NEW a, Goto("ret", [v EXCEPT !.input = a, !.pos = @ + Cardinality(1..v.len)])
        PROVE  Reading'
    <3>1. pc = "input" /\ UNCHANGED <<data, cur>>
      BY <1>3 DEF ReadInput
    <3>2. /\ v'.pos = v.pos + Cardinality(1..v.len) /\ v'.len = v.len
          /\ v'.weight = v.weight /\ pc' = "ret"
      BY <2>1, <1>d DEF Goto
    <3>3. Complete(f) => v.pos = 2 /\ Cardinality(1..v.len) = LengthOf(f) /\ v.weight = 1
      BY <3>1 DEF Reading, Program
    <3> QED
      BY <3>1, <3>2, <3>3 DEF Reading, Program
  <2> QED
    BY <1>3, <1>f, <2>1 DEF ReadInput
<1>4. CASE ReadRet
  <2>1. ASSUME NEW n, Goto("output", [v EXCEPT !.ret_value = n, !.pos = @ + 1])
        PROVE  Reading'
    <3>1. pc = "ret" /\ UNCHANGED <<data, cur>>
      BY <1>4 DEF ReadRet
    <3>2. v'.pos = v.pos + 1 /\ v'.len = v.len /\ v'.weight = v.weight /\ pc' = "output"
      BY <2>1, <1>d DEF Goto
    <3>3. Complete(f) => v.pos = 2 + LengthOf(f) /\ Cardinality(1..v.len) = LengthOf(f) /\ v.weight = 1
      BY <3>1 DEF Reading, Program
    <3>4. Complete(f) => 2 + LengthOf(f) + 1 = 3 + LengthOf(f)
      BY <3>1, <1>c DEF Program
    <3> QED
      BY <3>1, <3>2, <3>3, <3>4 DEF Reading, Program
  <2> QED
    BY <1>4, <1>f, <2>1 DEF ReadRet
<1>5. CASE ReadOutput
  <2>1. ASSUME NEW a, Goto("weight", [v EXCEPT !.output = a, !.pos = @ + Cardinality(1..v.len)])
        PROVE  Reading'
    <3>1. pc = "output" /\ UNCHANGED <<data, cur>>
      BY <1>5 DEF ReadOutput
    <3>2. /\ v'.pos = v.pos + Cardinality(1..v.len) /\ v'.len = v.len
          /\ v'.weight = v.weight /\ pc' = "weight"
      BY <2>1, <1>d DEF Goto
    <3>3. Complete(f) => v.pos = 3 + LengthOf(f) /\ Cardinality(1..v.len) = LengthOf(f) /\ v.weight = 1
      BY <3>1 DEF Reading, Program
    <3>4. Complete(f) => 3 + LengthOf(f) + LengthOf(f) = 3 + 2 * LengthOf(f)
      BY <3>1, <1>c DEF Program
    <3> QED
      BY <3>1, <3>2, <3>3, <3>4 DEF Reading, Program
  <2> QED
    BY <1>5, <1>f, <2>1 DEF ReadOutput
<1>6. CASE ReadWeight
  <2>1. pc = "weight" /\ cur \in Tests /\ UNCHANGED <<data, cur>>
    BY <1>6, <1>r DEF ReadWeight, Program
  <2>2. PICK n \in (IF Eof(v.pos) \/ Mismatch(v.pos) THEN {v.weight} ELSE words[v.pos]) :
          Goto("call", [v EXCEPT !.weight = n])
    BY <1>6 DEF ReadWeight
  <2>3. v'.weight = n /\ v'.len = v.len /\ pc' = "call"
    BY <2>2, <1>d DEF Goto
  <2>4. Complete(f) => /\ v.pos = 3 + 2 * LengthOf(f) /\ v.weight = 1
                       /\ Cardinality(1..v.len) = LengthOf(f)
    BY <2>1 DEF Reading, Program
  <2>5. Complete(f) => n = WeightOf(f)
    BY <2>1, <2>4, CompleteFile
  <2> QED
    BY <2>1, <2>3, <2>4, <2>5 DEF Reading, Program
<1>7. CASE Call
  <2>1. ASSUME NEW r, NEW a, Goto("check", [v EXCEPT !.got_ret = r, !.input = a])
        PROVE  Reading'
    <3>1. pc = "call" /\ UNCHANGED <<data, cur>>
      BY <1>7 DEF Call
    <3>2. v'.weight = v.weight /\ v'.len = v.len /\ pc' = "check"
      BY <2>1, <1>d DEF Goto
    <3> QED
      BY <3>1, <3>2 DEF Reading, Program
  <2> QED
    BY <1>7, <1>f, <2>1 DEF Call
<1>8. CASE Check
  <2> DEFINE bad == Cardinality(Wrong) + IF v.ret_value # v.got_ret THEN 1 ELSE 0
             good == Cardinality(1..v.len) + 1 - bad
  <2>1. pc = "check" /\ UNCHANGED <<data, cur>>
    BY <1>8 DEF Check
  <2>2. v'.weight = v.weight /\ v'.errors = bad /\ v'.success = good /\ pc' = "print"
    BY <1>8, <1>d DEF Check, Goto
  <2>3. Cardinality(Wrong) \in Nat /\ Cardinality(1..v.len) \in Nat
    BY Lengths DEF TypeOK, Wrong
  <2>4. good + bad > 0 /\ good + bad = Cardinality(1..v.len) + 1
    BY <2>3
  <2>5. Complete(f) => Cardinality(1..v.len) = LengthOf(f) /\ v.weight = WeightOf(f)
    BY <2>1 DEF Reading, Program
  <2> HIDE DEF good, bad
  <2> QED
    BY <2>1, <2>2, <2>4, <2>5 DEF Reading, Program
<1>9. CASE PrintMarks
  BY <1>9, <1>e DEF PrintMarks, Leave, Program
<1>10. CASE RunTest
  <2>1. v' = Fresh /\ pc' = "open"
    BY <1>10 DEF RunTest, Reading, Program
  <2> QED
    BY <2>1 DEF Reading
<1>11. CASE MakeTest \/ SkipTest \/ Summarize \/ AddFile \/ Report \/ Clean
  <2>1. pc \notin Program /\ pc' \notin Program /\ UNCHANGED v
    BY <1>11 DEF MakeTest, SkipTest, Summarize, AddFile, Report, Clean, Program
  <2> QED
    BY <2>1, <1>e DEF Reading
<1>12. CASE Interrupt \/ Kill
  BY <1>12, <1>e DEF Interrupt, Kill, Program
<1>13. CASE UNCHANGED vars
  BY <1>13 DEF vars, Reading
<1> QED
  BY <1>1, <1>2, <1>3, <1>4, <1>5, <1>6, <1>7, <1>8, <1>9, <1>10, <1>11, <1>12, <1>13 DEF Next

-----------------------------------------------------------------------------
(* The marks on file *)

\* What the actions do to the data files and to X-test.
LEMMA FileSteps ==
  ASSUME IInv, [Next]_vars
  PROVE  /\ data' = data
         /\ \/ result' = result /\ right' = right
            \/ /\ cur \in Tests /\ right' = right
               /\ \E h : /\ h.holds # "marks" /\ h.success = 0 /\ h.total = 0
                         /\ result' = [result EXCEPT ![cur] = h]
            \/ PrintMarks /\ cur \in Tests
            \/ Clean
<1> USE DEF IInv
<1>r. pc \in Program => cur \in Tests
  BY DEF TypeOK
<1>d. data' = data
  BY DEF Next, Open, ReadLen, ReadInput, ReadRet, ReadOutput, ReadWeight, Call, Check,
         PrintMarks, MakeTest, SkipTest, RunTest, Summarize, AddFile, Report, Interrupt,
         Kill, Clean, vars
<1> DEFINE Ended == /\ cur \in Tests /\ right' = right
                    /\ \E h : /\ h.holds # "marks" /\ h.success = 0 /\ h.total = 0
                              /\ result' = [result EXCEPT ![cur] = h]
<1>h. \A h \in {NoFile, Empty, [Empty EXCEPT !.holds = "message"]} :
        h.holds # "marks" /\ h.success = 0 /\ h.total = 0
  <2>1. Empty = [holds |-> "nothing", success |-> 0, errors |-> 0, total |-> 0]
    BY DEF NoFile, Empty
  <2>2. [Empty EXCEPT !.holds = "message"]
          = [holds |-> "message", success |-> 0, errors |-> 0, total |-> 0]
    BY <2>1
  <2> QED
    BY <2>1, <2>2 DEF NoFile
<1>f. ASSUME Crash \/ FormatError, pc \in Program, right' = right PROVE Ended
  BY <1>f, <1>h, <1>r DEF Crash, FormatError, Leave
<1>1. CASE Open \/ ReadLen \/ ReadInput \/ ReadRet \/ ReadOutput \/ ReadWeight \/ Call \/ Check
  <2>1. pc \in Program /\ right' = right
    BY <1>1 DEF Open, ReadLen, ReadInput, ReadRet, ReadOutput, ReadWeight, Call, Check, Program
  <2>2. Crash \/ FormatError \/ result' = result
    BY <1>1 DEF Open, ReadLen, ReadInput, ReadRet, ReadOutput, ReadWeight, Call, Check, Goto
  <2> QED
    BY <1>d, <1>f, <2>1, <2>2
<1>2. CASE PrintMarks
  BY <1>2, <1>d, <1>r DEF PrintMarks, Program
<1>3. CASE RunTest
  BY <1>3, <1>d, <1>h DEF RunTest
<1>4. CASE Interrupt
  <2>1. pc \in {"make", "sum"} => result' = result
    BY <1>4 DEF Interrupt
  <2>2. pc \notin {"make", "sum"} => cur \in Tests /\ result' = [result EXCEPT ![cur] = NoFile]
    BY <1>4, <1>r DEF Interrupt, TypeOK
  <2>3. right' = right
    BY <1>4 DEF Interrupt
  <2> QED
    BY <1>d, <1>h, <2>1, <2>2, <2>3
<1>5. CASE MakeTest \/ SkipTest \/ Summarize \/ AddFile \/ Report \/ Kill
  BY <1>5, <1>d DEF MakeTest, SkipTest, Summarize, AddFile, Report, Kill
<1>6. CASE Clean
  BY <1>6, <1>d
<1>7. CASE UNCHANGED vars
  BY <1>7 DEF vars
<1> QED
  BY <1>1, <1>2, <1>3, <1>4, <1>5, <1>6, <1>7 DEF Next

\* Only PrintMarks writes marks, and MarksOf says what they are.
LEMMA MarksStep ==
  ASSUME IInv, [Next]_vars
  PROVE  FullMarks' /\ PartOfMarks'
<1> DEFINE OK(t, r, w, ok) ==
             /\ r.holds = "marks" /\ Complete(data[t]) /\ Fits(data[t]) =>
                  /\ r.total = w
                  /\ w # 0 => (r.success = r.total <=> ok)
                  /\ r.total - (r.success + r.errors) \in {0, IF w > 0 THEN 1 ELSE - 1}
                  /\ w > 0 => r.success <= r.total
             /\ r.holds # "marks" => r.success = 0 /\ r.total = 0
<1>1. \A t \in Tests : OK(t, result[t], WeightOf(data[t]), right[t])
  BY DEF IInv, FullMarks, PartOfMarks, Marked
<1>2. result \in [Tests -> [holds : {"absent", "nothing", "message", "marks"},
                            success : Int, errors : Int, total : Int]]
      /\ right \in [Tests -> BOOLEAN]
  BY DEF IInv, TypeOK
<1>d. data' = data
  BY FileSteps
<1> SUFFICES ASSUME NEW t \in Tests
             PROVE  OK(t, result'[t], WeightOf(data[t]), right'[t])
  BY <1>d DEF FullMarks, PartOfMarks, Marked, Fits
<1>3. CASE result' = result /\ right' = right
  BY <1>1, <1>3
<1>4. ASSUME NEW h, h.holds # "marks", h.success = 0, h.total = 0, cur \in Tests, right' = right,
             result' = [result EXCEPT ![cur] = h]
      PROVE  OK(t, result'[t], WeightOf(data[t]), right'[t])
  <2>1. CASE t = cur
    BY <1>2, <1>4, <2>1
  <2>2. CASE t # cur
    <3>1. result'[t] = result[t]
      BY <1>2, <1>4, <2>2
    <3> QED
      BY <3>1, <1>1, <1>4
  <2> QED
    BY <2>1, <2>2
<1>5. CASE PrintMarks /\ cur \in Tests
  <2>1. TypeOK /\ Reading
    BY DEF IInv
  <2>2. CASE t = cur
    <3>1. Complete(data[t]) => /\ v.weight = WeightOf(data[t])
                               /\ v.success + v.errors = LengthOf(data[t]) + 1
      BY <1>5, <2>1, <2>2 DEF Reading, PrintMarks, Program
    <3>4. Complete(data[t]) /\ Fits(data[t]) => (v.success + v.errors) * v.weight \in CInt
      BY <3>1 DEF Fits
    <3>2. right'[t] = (v.errors = 0)
      BY <1>2, <1>5, <2>1, <2>2, PrintedMarks
    <3>3. OK(t, result'[t], v.weight, v.errors = 0)
      BY <3>4, <1>5, <2>1, <2>2, PrintedMarks
    <3> QED
      BY <3>1, <3>2, <3>3
  <2>3. CASE t # cur
    <3>1. result'[t] = result[t] /\ right'[t] = right[t]
      BY <1>2, <1>5, <2>1, <2>3, PrintedMarks
    <3> QED
      BY <3>1, <1>1
  <2> QED
    BY <2>2, <2>3
<1>6. CASE Clean
  <2>1. result'[t].holds = "absent" /\ result'[t].success = 0 /\ result'[t].total = 0
    BY <1>6 DEF Clean, NoFile
  <2> QED
    BY <2>1
<1> QED
  BY <1>3, <1>4, <1>5, <1>6, FileSteps

\* The files that are there when make comes to a test.
LEMMA OnFileStep ==
  ASSUME IInv, [Next]_vars
  PROVE  OnFile'
<1> USE DEF IInv
<1>r. pc \in Program => cur \in Tests
  BY DEF TypeOK
<1>t. /\ result \in [Tests -> [holds : {"absent", "nothing", "message", "marks"},
                              success : Int, errors : Int, total : Int]]
      /\ cur \in 1..(NTests + 1) /\ NTests \in Nat /\ Tests = 1..NTests
      /\ cur \in Int /\ pc \in Program \cup {"idle", "make", "sum"} /\ broken \in BOOLEAN
  BY TestsAssumption DEF TypeOK, Tests
<1>p. "idle" \notin Program /\ "make" \notin Program /\ "sum" \notin Program
  BY DEF Program
<1>f. ASSUME Crash \/ FormatError PROVE OnFile'
  <2>1. pc' = "idle" /\ broken' = TRUE
    BY <1>f DEF Crash, FormatError, Leave
  <2> QED
    BY <2>1, <1>p DEF OnFile
<1>g. ASSUME NEW step \in Program, NEW l, Goto(step, l), cur' = cur, pc \in Program
      PROVE  OnFile'
  <2>1. pc' \in Program /\ UNCHANGED <<result, broken, cur>>
    BY <1>g DEF Goto
  <2>2. pc' # "sum"
    BY <2>1, <1>p
  <2> QED
    BY <2>1, <2>2, <1>g DEF OnFile
<1>1. CASE Open \/ ReadLen \/ ReadInput \/ ReadRet \/ ReadOutput \/ ReadWeight \/ Call \/ Check
  <2>1. pc \in Program /\ cur' = cur
    BY <1>1 DEF Open, ReadLen, ReadInput, ReadRet, ReadOutput, ReadWeight, Call, Check, Program
  <2>2. Crash \/ FormatError \/ \E step \in Program : \E l : Goto(step, l)
    <3>1. {"len", "input", "ret", "output", "weight", "call", "check", "print"} \subseteq Program
      BY DEF Program
    <3> QED
      BY <3>1, <1>1 DEF Open, ReadLen, ReadInput, ReadRet, ReadOutput, ReadWeight, Call, Check
  <2> QED
    BY <1>f, <1>g, <2>1, <2>2
<1>2. CASE PrintMarks
  <2>1. cur \in Tests /\ pc \in Program /\ pc' = "make" /\ cur' = cur + 1 /\ broken' = broken
    BY <1>2, <1>r DEF PrintMarks, Leave, Program
  <2>2. /\ result' = [result EXCEPT ![cur] = result'[cur]]
        /\ result'[cur].holds = "marks"
    BY <1>2, PrintedMarks
  <2>3. \A t \in Tests : t # cur => result'[t] = result[t]
    BY <1>t, <2>1, <2>2
  <2>4. \A t \in 1..(cur' - 1) : result'[t].holds # "absent"
    <3> SUFFICES ASSUME NEW t \in 1..cur PROVE result'[t].holds # "absent"
      BY <2>1, <1>t
    <3>1. CASE t = cur
      BY <3>1, <2>2
    <3>2. CASE t # cur
      <4>1. t \in 1..(cur - 1) /\ t \in Tests
        BY <3>2, <2>1, <1>t
      <4> QED
        BY <4>1, <3>2, <2>1, <2>3 DEF OnFile
    <3> QED
      BY <3>1, <3>2
  <2>5. ~ broken' => \A t \in Tests : result'[t].holds \in {"absent", "marks"}
    BY <2>1, <2>2, <2>3 DEF OnFile
  <2> QED
    BY <2>1, <2>4, <2>5, <1>p DEF OnFile
<1>3. CASE RunTest
  <2>1. /\ pc = "make" /\ pc' = "open" /\ cur \in Tests /\ cur' = cur /\ broken' = broken
        /\ result' = [result EXCEPT ![cur] = Empty]
    BY <1>3 DEF RunTest
  <2>2. \A t \in Tests : t # cur => result'[t] = result[t]
    BY <1>t, <2>1
  <2>3. \A t \in 1..(cur - 1) : t \in Tests /\ t # cur
    BY <2>1, <1>t
  <2>4. pc' \in Program
    BY <2>1 DEF Program
  <2>5. \A t \in 1..(cur - 1) : result'[t].holds # "absent"
    BY <2>1, <2>2, <2>3 DEF OnFile
  <2>6. ~ broken => \A t \in Tests : t # cur => result'[t].holds \in {"absent", "marks"}
    BY <2>1, <2>2, <1>p DEF OnFile
  <2> QED
    BY <2>1, <2>4, <2>5, <2>6 DEF OnFile
<1>4. CASE SkipTest
  <2>1. /\ pc = "make" /\ UNCHANGED <<pc, result, broken>> /\ cur \in Tests /\ cur' = cur + 1
        /\ result[cur].holds # "absent"
    BY <1>4 DEF SkipTest, Made
  <2>2. \A t \in 1..cur : t = cur \/ t \in 1..(cur - 1)
    BY <1>t
  <2>3. \A t \in 1..cur : result[t].holds # "absent"
    BY <2>1, <2>2 DEF OnFile
  <2>4. cur' - 1 = cur
    BY <2>1, <1>t
  <2> QED
    BY <2>1, <2>3, <2>4, <1>p DEF OnFile
<1>5. CASE Summarize
  <2>1. /\ pc = "make" /\ pc' = "sum" /\ cur > NTests /\ UNCHANGED <<result, broken>>
    BY <1>5 DEF Summarize
  <2>2. \A t \in Tests : t \in 1..(cur - 1)
    BY <2>1, <1>t
  <2> QED
    BY <2>1, <2>2, <1>p DEF OnFile
<1>6. CASE AddFile
  <2>1. pc = "sum" /\ UNCHANGED <<result, broken>> /\ pc' \in {"sum", "idle"}
    BY <1>6 DEF AddFile
  <2> QED
    BY <2>1, <1>p DEF OnFile
<1>7. CASE MakeTest
  <2>1. pc = "idle" /\ UNCHANGED <<result, broken>> /\ pc' \in {"make", "idle"} /\ cur' = 1
    BY <1>7 DEF MakeTest
  <2>2. 1..(cur' - 1) = {}
    BY <2>1
  <2> QED
    BY <2>1, <2>2, <1>p DEF OnFile
<1>8. CASE Report
  BY <1>8, <1>p DEF Report, OnFile
<1>9. CASE Interrupt
  <2>1. pc' = "idle" /\ UNCHANGED <<cur, broken>>
    BY <1>9 DEF Interrupt
  <2>2. CASE pc \in {"make", "sum"}
    BY <1>9, <2>1, <2>2, <1>p DEF Interrupt, OnFile
  <2>3. CASE pc \notin {"make", "sum"}
    <3>1. cur \in Tests /\ result' = [result EXCEPT ![cur] = NoFile]
      BY <1>9, <1>r, <1>t, <2>3 DEF Interrupt
    <3>2. result'[cur].holds = "absent" /\ \A t \in Tests : t # cur => result'[t] = result[t]
      BY <1>t, <3>1 DEF NoFile
    <3> QED
      BY <2>1, <3>2, <1>p DEF OnFile
  <2> QED
    BY <2>2, <2>3
<1>10. CASE Kill
  <2>1. pc' = "idle" /\ UNCHANGED <<cur, result>>
    BY <1>10 DEF Kill
  <2>2. ~ broken' => ~ broken /\ pc \notin Program
    BY <1>10, <1>p, <1>t DEF Kill
  <2> QED
    BY <2>1, <2>2, <1>p DEF OnFile
<1>11. CASE Clean
  <2>1. pc' = "idle" /\ \A t \in Tests : result'[t].holds = "absent"
    BY <1>11 DEF Clean, NoFile
  <2> QED
    BY <2>1, <1>p DEF OnFile
<1>12. CASE UNCHANGED vars
  BY <1>12 DEF vars, OnFile
<1> QED
  BY <1>1, <1>2, <1>3, <1>4, <1>5, <1>6, <1>7, <1>8, <1>9, <1>10, <1>11, <1>12 DEF Next

-----------------------------------------------------------------------------
(* The sums of summarize.py *)

LEMMA SameWeights ==
  ASSUME data' = data, result' = result
  PROVE  /\ WeightSum' = WeightSum /\ AllComplete' = AllComplete /\ AllPositive' = AllPositive
         /\ \A t : Marked(t)' = Marked(t)
BY DEF WeightSum, Weighed, AllComplete, AllPositive, Marked, Fits

\* One more file makes the sums those of one more test.
LEMMA SummedStep ==
  ASSUME IInv, AddFile, AllComplete, result[cur].holds # "message"
  PROVE  Summed(cur - 1)'
<1>1. /\ cur \in 1..NTests /\ cur \in Tests /\ pc = "sum" /\ data' = data /\ right' = right
      /\ result' = result
      /\ summary' = [summary EXCEPT !.success = @ + result[cur].success,
                                    !.errors = @ + result[cur].errors,
                                    !.total = @ + result[cur].total]
  BY DEF AddFile, Tests
<1>2. /\ summary \in [says : {"none", "KeyError", "ZeroDivisionError", "rate"},
                      success : Int, errors : Int, total : Int]
      /\ result[cur] \in [holds : {"absent", "nothing", "message", "marks"},
                          success : Int, errors : Int, total : Int]
      /\ right \in [Tests -> BOOLEAN]
  BY <1>1 DEF IInv, TypeOK
<1>3. /\ summary'.success = summary.success + result[cur].success
      /\ summary'.total = summary.total + result[cur].total
  BY <1>1, <1>2
<1>4. /\ summary.success \in Int /\ summary.total \in Int
      /\ result[cur].success \in Int /\ result[cur].total \in Int
  BY <1>2
<1>5. Summed(cur - 1)
  BY <1>1 DEF IInv, Adding
<1>6. Marked(cur) =>
        /\ result[cur].total = WeightOf(data[cur])
        /\ WeightOf(data[cur]) # 0 => (result[cur].success = result[cur].total <=> right[cur])
        /\ WeightOf(data[cur]) > 0 => result[cur].success <= result[cur].total
  BY <1>1 DEF IInv, FullMarks, PartOfMarks, AllComplete
<1>0. ~ Marked(cur) => result[cur].success = 0 /\ result[cur].total = 0
  BY <1>1 DEF IInv, PartOfMarks
<1>w. result[cur].total = Weighed(cur)
  BY <1>6, <1>0 DEF Weighed
<1>7. summary'.total = WeightSum[cur]
  BY <1>1, <1>3, <1>5, <1>w, WeightSumStep DEF Summed
<1>8. ASSUME AllPositive
      PROVE  /\ summary'.total >= 0
             /\ summary'.success <= summary'.total
             /\ summary'.success = summary'.total <=> \A t \in 1..cur : Marked(t) => right[t]
  <2>1. Marked(cur) => WeightOf(data[cur]) > 0
    BY <1>1, <1>8 DEF AllPositive
  <2>2. /\ summary.total >= 0 /\ summary.success <= summary.total
        /\ summary.success = summary.total <=> \A t \in 1..(cur - 1) : Marked(t) => right[t]
    BY <1>5, <1>8 DEF Summed
  <2>3. /\ result[cur].total >= 0 /\ result[cur].success <= result[cur].total
        /\ result[cur].success = result[cur].total <=> (Marked(cur) => right[cur])
    <3>1. CASE Marked(cur)
      BY <3>1, <2>1, <1>4, <1>6
    <3>2. CASE ~ Marked(cur)
      BY <3>2, <1>0
    <3> QED
      BY <3>1, <3>2
  <2>4. summary'.success = summary'.total
          <=> summary.success = summary.total /\ result[cur].success = result[cur].total
    BY <2>2, <2>3, <1>3, <1>4
  <2>5. \A t : t \in 1..cur <=> t \in 1..(cur - 1) \/ t = cur
    BY <1>1
  <2>6. (\A t \in 1..cur : Marked(t) => right[t])
          <=> (\A t \in 1..(cur - 1) : Marked(t) => right[t]) /\ (Marked(cur) => right[cur])
    BY <2>5, Zenon
  <2>7. summary'.total >= 0 /\ summary'.success <= summary'.total
    BY <2>2, <2>3, <1>3, <1>4
  <2> QED
    BY <2>2, <2>3, <2>4, <2>6, <2>7
<1>9. WeightSum' = WeightSum /\ AllPositive' = AllPositive /\ \A t : Marked(t)' = Marked(t)
  BY <1>1, SameWeights
<1>n. cur' - 1 = cur
  BY <1>1 DEF AddFile
<1>10. CASE AllPositive
  BY <1>10, <1>1, <1>7, <1>8, <1>9, <1>n DEF Summed
<1>11. CASE ~ AllPositive
  BY <1>11, <1>1, <1>7, <1>9, <1>n DEF Summed
<1> QED
  BY <1>10, <1>11

\* summarize.py's sums stay those of the files it has read.
LEMMA AddingStep ==
  ASSUME IInv, [Next]_vars
  PROVE  Adding'
<1>p. "idle" \notin Program /\ "make" \notin Program /\ "sum" \notin Program
  BY DEF Program
<1>t. pc \in Program \cup {"idle", "make", "sum"} /\ cur \in 1..(NTests + 1) /\ NTests \in Nat
  BY TestsAssumption DEF IInv, TypeOK
<1>a. Adding
  BY DEF IInv
<1>n. NoSummary.says # "rate" /\ NoSummary.says = "none" /\ NoSummary.success = 0 /\ NoSummary.total = 0
  BY DEF NoSummary
<1>d. ASSUME result' = result
      PROVE  /\ WeightSum' = WeightSum /\ AllComplete' = AllComplete /\ AllPositive' = AllPositive
             /\ \A t : Marked(t)' = Marked(t)
  BY <1>d, FileSteps, SameWeights
<1>1. CASE \/ Open \/ ReadLen \/ ReadInput \/ ReadRet \/ ReadOutput \/ ReadWeight \/ Call \/ Check
           \/ PrintMarks \/ RunTest
  <2>1. pc \in Program \cup {"make"} /\ summary' = summary
    BY <1>1 DEF Open, ReadLen, ReadInput, ReadRet, ReadOutput, ReadWeight, Call, Check,
                PrintMarks, RunTest, Program
  <2>2. Crash \/ FormatError \/ (\E step \in Program : \E l : Goto(step, l))
          \/ PrintMarks \/ RunTest
    <3>1. {"len", "input", "ret", "output", "weight", "call", "check", "print"} \subseteq Program
      BY DEF Program
    <3> QED
      BY <3>1, <1>1 DEF Open, ReadLen, ReadInput, ReadRet, ReadOutput, ReadWeight, Call, Check
  <2>3. pc' # "sum"
    BY <2>2, <1>p DEF Crash, FormatError, Leave, Goto, PrintMarks, RunTest
  <2>4. summary' = NoSummary
    BY <2>1, <1>a DEF Adding
  <2> QED
    BY <2>3, <2>4, <1>n DEF Adding
<1>2. CASE MakeTest \/ Clean
  <2>1. summary' = NoSummary /\ pc' \in {"make", "idle"}
    BY <1>2 DEF MakeTest, Clean
  <2> QED
    BY <2>1, <1>n DEF Adding
<1>3. CASE SkipTest
  <2>1. pc' = "make" /\ summary' = NoSummary
    BY <1>3, <1>a DEF SkipTest, Adding
  <2> QED
    BY <2>1, <1>n DEF Adding
<1>4. CASE Summarize
  <2>1. pc' = "sum" /\ cur' = 1 /\ summary' = NoSummary
    BY <1>4, <1>a DEF Summarize, Adding
  <2>0. result' = result
    BY <1>4 DEF Summarize
  <2>2. WeightSum'[0] = 0 /\ cur' - 1 = 0
    BY <1>d, <2>0, <2>1, WeightSumStep
  <2>3. 1..0 = {}
    OBVIOUS
  <2>4. Summed(cur - 1)'
    BY <2>1, <2>2, <2>3, <1>n DEF Summed
  <2> QED
    BY <2>1, <2>4, <1>n, <1>p DEF Adding
<1>5. CASE AddFile
  <2>1. CASE result[cur].holds = "message"
    <3>1. pc' = "idle" /\ summary' = [NoSummary EXCEPT !.says = "KeyError"]
      BY <1>5, <2>1 DEF AddFile
    <3>2. summary'.says = "KeyError"
      BY <3>1 DEF NoSummary
    <3> QED
      BY <3>1, <3>2, <1>p DEF Adding
  <2>2. CASE result[cur].holds # "message"
    <3>1. /\ pc = "sum" /\ pc' = "sum" /\ cur' = cur + 1 /\ broken' = broken /\ cur \in Tests
          /\ summary' = [summary EXCEPT !.success = @ + result[cur].success,
                                        !.errors = @ + result[cur].errors,
                                        !.total = @ + result[cur].total]
      BY <1>5, <2>2 DEF AddFile
    <3>2. summary'.says = "none"
      <4>1. summary.says = "none"
        BY <3>1, <1>a DEF Adding
      <4>2. summary \in [says : {"none", "KeyError", "ZeroDivisionError", "rate"},
                         success : Int, errors : Int, total : Int]
        BY DEF IInv, TypeOK
      <4> QED
        BY <4>1, <4>2, <3>1
    <3>4. ASSUME AllComplete'
          PROVE  Summed(cur - 1)'
      <4>1. AllComplete
        BY <3>4, <1>5, <1>d DEF AddFile
      <4> QED
        BY <4>1, <2>2, <1>5, SummedStep
    <3> QED
      BY <3>1, <3>2, <3>4, <1>p DEF Adding
  <2> QED
    BY <2>1, <2>2
<1>6. CASE Report
  <2>1. /\ pc = "sum" /\ pc' = "idle" /\ cur > NTests /\ result' = result /\ right' = right
        /\ summary' = [summary EXCEPT !.says = IF summary.total = 0 THEN "ZeroDivisionError"
                                               ELSE "rate"]
    BY <1>6 DEF Report
  <2>2. summary \in [says : {"none", "KeyError", "ZeroDivisionError", "rate"},
                     success : Int, errors : Int, total : Int]
    BY DEF IInv, TypeOK
  <2>3. /\ summary'.total = summary.total /\ summary'.success = summary.success
        /\ summary'.says = "rate" => summary.total # 0
    BY <2>1, <2>2
  <2>4. cur - 1 = NTests
    BY <2>1, <1>t
  <2>5. AllComplete => Summed(NTests)
    BY <2>1, <2>4, <1>a DEF Adding
  <2>6. AllComplete => Summed(NTests)'
    BY <2>1, <2>3, <2>5, <1>d DEF Summed
  <2>7. \A t \in Tests : result'[t].holds # "absent"
    BY <2>1 DEF IInv, OnFile
  <2> QED
    BY <2>1, <2>3, <2>6, <2>7, <1>d, <1>p DEF Adding
<1>7. CASE Interrupt \/ Kill
  <2>1. pc # "idle" /\ pc' = "idle" /\ summary' = summary
    BY <1>7 DEF Interrupt, Kill
  <2>2. summary.says # "rate"
    BY <2>1, <1>a DEF Adding
  <2> QED
    BY <2>1, <2>2, <1>p DEF Adding
<1>8. CASE UNCHANGED vars
  <2>1. UNCHANGED <<pc, cur, summary, right, result>>
    BY <1>8 DEF vars
  <2>2. \A k : Summed(k)' <=> Summed(k)
    BY <2>1, <1>d DEF Summed
  <2> QED
    BY <2>1, <1>a, <1>d DEF Adding, Summed
<1> QED
  BY <1>1, <1>2, <1>3, <1>4, <1>5, <1>6, <1>7, <1>8 DEF Next

-----------------------------------------------------------------------------
(* The theorems *)

\* IInv holds of every state: a test's variables stand where its file says, and
\* the files and sums are those of the tests make and summarize.py have passed.
THEOREM InductiveInvariant == Spec => []IInv
<1>1. Init => IInv
  <2> SUFFICES ASSUME Init PROVE IInv
    OBVIOUS
  <2>1. /\ pc = "idle" /\ cur = 1 /\ v = Fresh /\ summary = NoSummary /\ broken = FALSE
        /\ \A t \in Tests : result[t] = NoFile
    BY DEF Init
  <2>2. NoFile = [holds |-> "absent", success |-> 0, errors |-> 0, total |-> 0]
        /\ NoSummary = [says |-> "none", success |-> 0, errors |-> 0, total |-> 0]
    BY DEF NoFile, NoSummary
  <2>3. TypeOK
    <3>1. 1 \in 1..(NTests + 1)
      BY TestsAssumption
    <3>2. NoFile \in [holds : {"absent", "nothing", "message", "marks"},
                      success : Int, errors : Int, total : Int]
      BY <2>2
    <3>3. result \in [Tests -> [holds : {"absent", "nothing", "message", "marks"},
                               success : Int, errors : Int, total : Int]]
      BY <3>2 DEF Init
    <3>4. summary \in [says : {"none", "KeyError", "ZeroDivisionError", "rate"},
                       success : Int, errors : Int, total : Int]
      BY <2>1, <2>2
    <3>5. right \in [Tests -> BOOLEAN] /\ data \in [Tests -> DataFiles]
      BY DEF Init
    <3>6. /\ v.pos \in Nat \ {0} /\ v.len \in Int /\ v.weight \in Int
          /\ v.success \in Nat /\ v.errors \in Nat /\ DOMAIN v = DOMAIN Fresh
      BY <2>1, FreshType
    <3>7. pc \in Program \cup {"idle", "make", "sum"} /\ pc \notin Program
      BY <2>1 DEF Program
    <3>8. cur \in 1..(NTests + 1) /\ broken \in BOOLEAN
      BY <2>1, <3>1
    <3> QED
      BY <3>3, <3>4, <3>5, <3>6, <3>7, <3>8, Zenon DEF TypeOK
  <2>4. Reading
    BY <2>1 DEF Reading, Program
  <2>5. FullMarks /\ PartOfMarks
    BY <2>1, <2>2 DEF FullMarks, PartOfMarks, Marked
  <2>6. OnFile
    BY <2>1, <2>2 DEF OnFile, Program
  <2>7. Adding
    BY <2>1, <2>2 DEF Adding, Program
  <2> QED
    BY <2>3, <2>4, <2>5, <2>6, <2>7 DEF IInv
<1>2. IInv /\ [Next]_vars => IInv'
  <2> SUFFICES ASSUME IInv, [Next]_vars PROVE IInv'
    OBVIOUS
  <2>1. TypeOK' /\ Reading' /\ FullMarks' /\ PartOfMarks' /\ OnFile' /\ Adding'
    BY TypeStep, ReadingStep, MarksStep, OnFileStep, AddingStep
  <2> QED
    BY <2>1 DEF IInv
<1> QED
  BY <1>1, <1>2, PTL DEF Spec

\* For a complete data file whose number of comparisons times its weight is an
\* int, the marks main.c prints (line 106) are all of the test's exactly if every
\* comparison came out equal, and rounding loses at most one.
THEOREM FullMarksCorrect == Spec => []FullMarks
<1>1. IInv => FullMarks
  BY DEF IInv
<1> QED
  BY <1>1, InductiveInvariant, PTL

\* For any number of tests, whatever runs crashed or were killed: the total of
\* summarize.py is the weight of the tests with marks on file (all of them unless
\* a run ended badly), and its rate 100% exactly if those were right, for complete
\* data files without overflow and positive weights.
THEOREM SummaryHonestCorrect == Spec => []SummaryHonest
<1>1. IInv => SummaryHonest
  <2> SUFFICES ASSUME IInv, summary.says = "rate"
               PROVE  /\ ~ broken => \A t \in Tests : Marked(t)
                      /\ AllComplete =>
                           /\ summary.total = WeightSum[NTests]
                           /\ AllPositive =>
                                ((summary.success * 100) \div summary.total = 100
                                   <=> \A t \in Tests : Marked(t) => right[t])
    BY DEF SummaryHonest
  <2> DEFINE s == summary.success
             n == summary.total
             Right == \A t \in Tests : Marked(t) => right[t]
  <2>1. n # 0 /\ (AllComplete => Summed(NTests))
    BY DEF IInv, Adding
  <2>2. s \in Int /\ n \in Int
    BY DEF IInv, TypeOK
  <2>4. ASSUME ~ broken PROVE \A t \in Tests : Marked(t)
    <3>1. pc = "idle" /\ pc \notin Program /\ \A t \in Tests : result[t].holds # "absent"
      BY DEF IInv, Adding, Program
    <3> QED
      BY <3>1, <2>4 DEF IInv, OnFile, Marked
  <2>3. ASSUME AllComplete, AllPositive
        PROVE  (s * 100) \div n = 100 <=> Right
    <3>1. n \in Nat \ {0} /\ s <= n /\ (s = n <=> Right)
      BY <2>1, <2>2, <2>3 DEF Summed, Tests
    <3> HIDE DEF s, n, Right
    <3>2. s = n => (s * 100) \div n = 100
      <4>1. 100 * n <= n * 100 /\ n * 100 < 100 * n + n
        BY <3>1
      <4>2. (n * 100) \div n = 100
        BY <4>1, <3>1, DivUnique
      <4> QED
        BY <4>2
    <3>3. ASSUME (s * 100) \div n = 100 PROVE s = n
      <4> DEFINE q == (s * 100) \div n
      <4>1. q * n <= s * 100
        BY <2>2, <3>1
      <4>2. 100 * n <= s * 100
        BY <4>1, <3>3
      <4> QED
        BY <4>2, <3>1, <2>2
    <3> QED
      BY <3>1, <3>2, <3>3
  <2>5. AllComplete => n = WeightSum[NTests]
    BY <2>1 DEF Summed
  <2> HIDE DEF Right
  <2> QED
    BY <2>3, <2>4, <2>5, Zenon DEF Right
<1> QED
  BY <1>1, InductiveInvariant, PTL

=============================================================================
