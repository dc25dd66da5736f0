---------------------- MODULE ExponentialHistogramProofs ----------------------
(* Theorems about ExponentialHistogram, for any histograms, any finite set of
   values and any number of buckets. *)
EXTENDS ExponentialHistogram, FoldProofs

-------------------------------------------------------------------------------
\* Powers of two and shifts

\* The first n powers of two.
PowersUpTo(n, g) == g = [i \in 0 .. n |-> IF i = 0 THEN 1 ELSE 2 * g[i - 1]]

LEMMA PowersExist ==
  ASSUME NEW n \in Nat
  PROVE  \E g : PowersUpTo(n, g)
<1> DEFINE Reached == {m \in Nat : \E g : PowersUpTo(m, g)}
<1>1. 0 \in Reached
  <2>1. PowersUpTo(0, [i \in 0 .. 0 |-> 1])
    BY DEF PowersUpTo
  <2> QED
    BY <2>1
<1>2. ASSUME NEW m \in Nat, m \in Reached PROVE m + 1 \in Reached
  <2>1. PICK g : PowersUpTo(m, g)
    BY <1>2
  <2> DEFINE h == [i \in 0 .. m + 1 |-> IF i <= m THEN g[i] ELSE 2 * g[i - 1]]
  <2>2. \A i \in 0 .. m + 1 : h[i] = IF i = 0 THEN 1 ELSE 2 * h[i - 1]
    <3> TAKE i \in 0 .. m + 1
    <3>1. \A j \in 0 .. m : g[j] = IF j = 0 THEN 1 ELSE 2 * g[j - 1]
      BY <2>1 DEF PowersUpTo
    <3>2. CASE i <= m
      <4>1. i \in 0 .. m /\ h[i] = g[i] /\ (i # 0 => h[i - 1] = g[i - 1])
        BY <3>2
      <4> QED
        BY <3>1, <4>1
    <3>3. CASE i = m + 1
      BY <3>3
    <3> QED
      BY <3>2, <3>3
  <2>3. h = [i \in 0 .. m + 1 |-> IF i = 0 THEN 1 ELSE 2 * h[i - 1]]
    <3> DEFINE k == [i \in 0 .. m + 1 |-> IF i = 0 THEN 1 ELSE 2 * h[i - 1]]
    <3>1. \A i \in 0 .. m + 1 : h[i] = k[i]
      BY <2>2
    <3> QED
      BY <3>1
  <2>4. PowersUpTo(m + 1, h)
    BY <2>3 DEF PowersUpTo
  <2> QED
    BY <2>4
<1> HIDE DEF Reached
<1>3. n \in Reached
  BY <1>1, <1>2, NatsBySuccessor
<1> QED
  BY <1>3 DEF Reached

LEMMA PowersAgree ==
  ASSUME NEW n \in Nat, NEW m \in Nat, NEW g, PowersUpTo(n, g), NEW h, PowersUpTo(m, h),
         NEW i \in Nat, i <= n, i <= m
  PROVE  g[i] = h[i]
<1> DEFINE Same == {j \in Nat : j <= n /\ j <= m => g[j] = h[j]}
<1>1. \A j \in 0 .. n : g[j] = IF j = 0 THEN 1 ELSE 2 * g[j - 1]
  BY DEF PowersUpTo
<1>2. \A j \in 0 .. m : h[j] = IF j = 0 THEN 1 ELSE 2 * h[j - 1]
  BY DEF PowersUpTo
<1>3. 0 \in Same
  BY <1>1, <1>2
<1>4. ASSUME NEW j \in Nat, j \in Same PROVE j + 1 \in Same
  <2> SUFFICES ASSUME j + 1 <= n, j + 1 <= m PROVE g[j + 1] = h[j + 1]
    OBVIOUS
  <2>1. g[j] = h[j]
    BY <1>4
  <2>2. j + 1 # 0 /\ (j + 1) - 1 = j /\ j + 1 \in 0 .. n /\ j + 1 \in 0 .. m
    OBVIOUS
  <2> QED
    BY <1>1, <1>2, <2>1, <2>2
<1> HIDE DEF Same
<1>5. i \in Same
  BY <1>3, <1>4, NatsBySuccessor
<1> QED
  BY <1>5 DEF Same

LEMMA Pow2Facts ==
  /\ Pow2[0] = 1
  /\ \A n \in Nat : Pow2[n] \in Nat /\ Pow2[n] >= 1 /\ Pow2[n + 1] = 2 * Pow2[n]
<1> DEFINE Powers(n) == CHOOSE g : PowersUpTo(n, g)
           p == [n \in Nat |-> Powers(n)[n]]
<1>1. \A n \in Nat : PowersUpTo(n, Powers(n))
  BY PowersExist
<1>2. \A n \in Nat : p[n] = IF n = 0 THEN 1 ELSE 2 * p[n - 1]
  <2> TAKE n \in Nat
  <2> HIDE DEF Powers
  <2>1. Powers(n)[n] = IF n = 0 THEN 1 ELSE 2 * Powers(n)[n - 1]
    BY <1>1 DEF PowersUpTo
  <2>2. ASSUME n # 0 PROVE Powers(n)[n - 1] = Powers(n - 1)[n - 1]
    <3>1. n - 1 \in Nat /\ n - 1 <= n
      BY <2>2
    <3> QED
      BY <1>1, <3>1, PowersAgree
  <2> QED
    BY <2>1, <2>2
<1>3. p = [n \in Nat |-> IF n = 0 THEN 1 ELSE 2 * p[n - 1]]
  <2> DEFINE k == [n \in Nat |-> IF n = 0 THEN 1 ELSE 2 * p[n - 1]]
  <2> HIDE DEF Powers
  <2>1. \A n \in Nat : p[n] = k[n]
    BY <1>2
  <2> QED
    BY <2>1
<1> HIDE DEF p
<1>4. Pow2 = [n \in Nat |-> IF n = 0 THEN 1 ELSE 2 * Pow2[n - 1]]
  BY <1>3 DEF Pow2
<1>5. \A n \in Nat : Pow2[n] = IF n = 0 THEN 1 ELSE 2 * Pow2[n - 1]
  BY <1>4
<1> DEFINE Good == {n \in Nat : Pow2[n] \in Nat /\ Pow2[n] >= 1}
<1>6. 0 \in Good
  BY <1>5
<1>7. ASSUME NEW n \in Nat PROVE Pow2[n + 1] = 2 * Pow2[n]
  <2>1. n + 1 # 0 /\ (n + 1) - 1 = n /\ n + 1 \in Nat
    OBVIOUS
  <2> QED
    BY <1>5, <2>1
<1>8. ASSUME NEW n \in Nat, n \in Good PROVE n + 1 \in Good
  BY <1>7, <1>8
<1> HIDE DEF Good
<1>9. Nat \subseteq Good
  BY <1>6, <1>8, NatsBySuccessor
<1>10. Pow2[0] = 1
  BY <1>5
<1> QED
  BY <1>7, <1>9, <1>10 DEF Good

LEMMA QuotientFacts ==
  ASSUME NEW x \in Int, NEW p \in Nat, p >= 1
  PROVE  /\ x \div p \in Int
         /\ p * (x \div p) <= x
         /\ x < p * (x \div p) + p
OBVIOUS

LEMMA QuotientIs ==
  ASSUME NEW x \in Int, NEW p \in Nat, p >= 1, NEW q \in Int, p * q <= x, x < p * q + p
  PROVE  x \div p = q
OBVIOUS

LEMMA ShrIsDiv ==
  ASSUME NEW x \in Int, NEW n \in 0 .. 31
  PROVE  Shr(x, n) = x \div Pow2[n] /\ Shr(x, n) \in Int
<1>1. n % 32 = n /\ n \in Nat
  OBVIOUS
<1>2. Shr(x, n) = x \div Pow2[n]
  BY <1>1 DEF Shr
<1>3. Pow2[n] \in Nat /\ Pow2[n] >= 1
  BY <1>1, Pow2Facts
<1> QED
  BY <1>2, <1>3, QuotientFacts

LEMMA ShrZero ==
  ASSUME NEW x \in Int
  PROVE  Shr(x, 0) = x
<1>1. Shr(x, 0) = x \div Pow2[0]
  BY ShrIsDiv
<1>2. x \div 1 = x
  BY QuotientIs
<1> QED
  BY <1>1, <1>2, Pow2Facts

\* One place more is one halving more.
LEMMA ShrOne ==
  ASSUME NEW x \in Int, NEW n \in 0 .. 30
  PROVE  Shr(x, n + 1) = Shr(x, n) \div 2
<1> DEFINE p == Pow2[n]
           q == x \div p
           r == q \div 2
<1>1. p \in Nat /\ p >= 1 /\ Pow2[n + 1] = 2 * p
  BY Pow2Facts
<1>2. Shr(x, n) = q /\ Shr(x, n + 1) = x \div (2 * p)
  <2>1. n \in 0 .. 31 /\ n + 1 \in 0 .. 31
    OBVIOUS
  <2> QED
    BY <1>1, <2>1, ShrIsDiv
<1> HIDE DEF p
<1>3. q \in Int /\ p * q <= x /\ x < p * q + p
  BY <1>1, QuotientFacts
<1> HIDE DEF q
<1>4. r \in Int /\ 2 * r <= q /\ q < 2 * r + 2
  BY <1>3
<1> HIDE DEF r
<1>5. p * (2 * r) <= p * q /\ p * (q + 1) <= p * (2 * r + 2)
  BY <1>1, <1>3, <1>4
<1>6. (2 * p) * r <= x /\ x < (2 * p) * r + 2 * p
  BY <1>1, <1>3, <1>4, <1>5
<1>7. x \div (2 * p) = r
  <2>1. 2 * p \in Nat /\ 2 * p >= 1
    BY <1>1
  <2> QED
    BY <1>4, <1>6, <2>1, QuotientIs
<1> QED
  BY <1>2, <1>7 DEF r

\* Places add up.
LEMMA ShrTwice ==
  ASSUME NEW x \in Int, NEW a \in Nat, NEW b \in Nat, a + b <= 31
  PROVE  Shr(Shr(x, a), b) = Shr(x, a + b)
<1> DEFINE y == Shr(x, a)
           Same == {n \in Nat : a + n <= 31 => Shr(y, n) = Shr(x, a + n)}
<1>1. y \in Int
  <2>1. a \in 0 .. 31
    OBVIOUS
  <2> QED
    BY <2>1, ShrIsDiv
<1> HIDE DEF y
<1>2. 0 \in Same
  BY <1>1, ShrZero DEF y
<1>3. ASSUME NEW n \in Nat, n \in Same PROVE n + 1 \in Same
  <2> SUFFICES ASSUME a + (n + 1) <= 31 PROVE Shr(y, n + 1) = Shr(x, a + (n + 1))
    OBVIOUS
  <2>1. n \in 0 .. 30 /\ a + n \in 0 .. 30 /\ a + (n + 1) = (a + n) + 1 /\ a + n <= 31
    OBVIOUS
  <2>2. Shr(y, n + 1) = Shr(y, n) \div 2
    BY <1>1, <2>1, ShrOne
  <2>3. Shr(x, (a + n) + 1) = Shr(x, a + n) \div 2
    BY <2>1, ShrOne
  <2> QED
    BY <1>3, <2>1, <2>2, <2>3
<1> HIDE DEF Same
<1>4. b \in Same
  BY <1>2, <1>3, NatsBySuccessor
<1> QED
  BY <1>4 DEF Same, y

LEMMA ShrMonotone ==
  ASSUME NEW x \in Int, NEW y \in Int, x <= y, NEW n \in 0 .. 31
  PROVE  Shr(x, n) <= Shr(y, n)
<1> DEFINE p == Pow2[n]
           q == x \div p
           r == y \div p
<1>1. p \in Nat /\ p >= 1
  BY Pow2Facts
<1>2. Shr(x, n) = q /\ Shr(y, n) = r
  BY ShrIsDiv
<1> HIDE DEF p
<1>3. q \in Int /\ p * q <= x /\ r \in Int /\ y < p * r + p
  BY <1>1, QuotientFacts
<1> HIDE DEF q, r
<1>4. p * q < p * (r + 1)
  BY <1>1, <1>3
<1>5. \A i, j \in Int : p * i < p * j => i < j
  BY <1>1
<1>6. q < r + 1
  BY <1>3, <1>4, <1>5
<1> QED
  BY <1>2, <1>3, <1>6

\* 0 and -1, the signs, stay what they are.
LEMMA ShrOfSign ==
  ASSUME NEW x \in {-1, 0}, NEW n \in 0 .. 31
  PROVE  Shr(x, n) = x
<1>1. Pow2[n] \in Nat /\ Pow2[n] >= 1
  BY Pow2Facts
<1>2. x \in Int /\ Pow2[n] * x <= x /\ x < Pow2[n] * x + Pow2[n]
  BY <1>1
<1> QED
  BY <1>1, <1>2, QuotientIs, ShrIsDiv

\* Indexes do not move apart.
LEMMA ShrNarrows ==
  ASSUME NEW x \in Int, NEW y \in Int, x <= y, NEW n \in 0 .. 31
  PROVE  Shr(y, n) - Shr(x, n) <= y - x
<1> DEFINE Near == {m \in Nat : m <= 31 =>
                      Shr(x, m) <= Shr(y, m) /\ Shr(y, m) - Shr(x, m) <= y - x}
<1>1. 0 \in Near
  BY ShrZero
<1>2. ASSUME NEW m \in Nat, m \in Near PROVE m + 1 \in Near
  <2> SUFFICES ASSUME m + 1 <= 31
               PROVE  Shr(x, m + 1) <= Shr(y, m + 1) /\ Shr(y, m + 1) - Shr(x, m + 1) <= y - x
    OBVIOUS
  <2> DEFINE a == Shr(x, m)
             b == Shr(y, m)
  <2>1. m \in 0 .. 30 /\ m \in 0 .. 31
    OBVIOUS
  <2>2. a \in Int /\ b \in Int /\ Shr(x, m + 1) = a \div 2 /\ Shr(y, m + 1) = b \div 2
    BY <2>1, ShrOne, ShrIsDiv
  <2>3. a <= b /\ b - a <= y - x
    BY <1>2
  <2> HIDE DEF a, b
  <2>4. a \div 2 <= b \div 2 /\ b \div 2 - a \div 2 <= b - a
    BY <2>2, <2>3
  <2>5. a \div 2 \in Int /\ b \div 2 \in Int
    BY <2>2
  <2> QED
    BY <2>2, <2>3, <2>4, <2>5
<1> HIDE DEF Near
<1>3. n \in Near
  BY <1>1, <1>2, NatsBySuccessor
<1> QED
  BY <1>3 DEF Near

\* Indexes that are few enough places apart stay so.
LEMMA FitsOn ==
  ASSUME NEW low \in Int, NEW high \in Int, high - low < MaxSize, NEW n \in 0 .. 31
  PROVE  Shr(high, n) - Shr(low, n) < MaxSize
<1>1. Shr(high, n) \in Int /\ Shr(low, n) \in Int /\ MaxSize \in Nat /\ MaxSize >= 2
  BY ShrIsDiv, HistogramAssumption
<1>2. CASE low <= high
  <2>1. Shr(high, n) - Shr(low, n) <= high - low
    BY <1>2, ShrNarrows
  <2> QED
    BY <1>1, <2>1
<1>3. CASE ~(low <= high)
  <2>1. Shr(high, n) <= Shr(low, n)
    BY <1>3, ShrMonotone
  <2> QED
    BY <1>1, <2>1
<1> QED
  BY <1>2, <1>3

\* The halvings are the fewest after which the indexes fit, no more than make
\* signs of them.
LEMMA HalvingsFacts ==
  ASSUME NEW high \in Int, NEW low \in Int, NEW k \in 0 .. 30,
         Shr(high, k) \in {-1, 0}, Shr(low, k) \in {-1, 0}
  PROVE  /\ Halvings(high, low) \in 0 .. k
         /\ Shr(high, Halvings(high, low)) - Shr(low, Halvings(high, low)) < MaxSize
         /\ \A m \in 0 .. Halvings(high, low) - 1 :
              ~(Shr(high, m) - Shr(low, m) < MaxSize)
<1> DEFINE Fits(n) == Shr(high, n) - Shr(low, n) < MaxSize
           S == {n \in 0 .. 30 : Fits(n)}
<1>1. Fits(k)
  BY HistogramAssumption
<1>2. S \subseteq Nat /\ k \in S
  BY <1>1
<1>3. PICK n \in S : \A m \in S : n <= m
  <2> HIDE DEF S
  <2> QED
    BY <1>2, NatHasLeast
<1>4. n \in 0 .. 30 /\ Fits(n) /\ \A m \in 0 .. n - 1 : ~Fits(m)
  <2>1. n \in 0 .. 30 /\ Fits(n)
    BY <1>3
  <2>2. ASSUME NEW m \in 0 .. n - 1 PROVE ~Fits(m)
    <3>1. m \in 0 .. 30 /\ ~(n <= m)
      BY <2>1
    <3> HIDE DEF Fits
    <3> QED
      BY <1>3, <3>1
  <2> QED
    BY <2>1, <2>2
<1> DEFINE h == CHOOSE i \in 0 .. 30 : Fits(i) /\ \A m \in 0 .. i - 1 : ~Fits(m)
<1>5. h \in 0 .. 30 /\ Fits(h) /\ \A m \in 0 .. h - 1 : ~Fits(m)
  <2> HIDE DEF Fits
  <2> QED
    BY <1>4
<1>6. Halvings(high, low) = h
  BY DEF Halvings
<1>7. h <= k
  <2> HIDE DEF h, Fits
  <2> SUFFICES ASSUME ~(h <= k) PROVE FALSE
    OBVIOUS
  <2>1. k \in 0 .. h - 1
    BY <1>5
  <2> QED
    BY <1>1, <1>5, <2>1
<1> HIDE DEF h
<1> QED
  BY <1>5, <1>6, <1>7

-------------------------------------------------------------------------------
\* The ring

\* What the buckets hold for an index.
Held(b, x) == IF x \in b.start .. b.end THEN b.backing[Slot(b, x)] ELSE 0

Sized(b, n) ==
  /\ n \in 1 .. MaxSize
  /\ b \in [base : Int, start : Int, end : Int, backing : [0 .. n - 1 -> Nat]]

\* Every index has a slot of its own, and the other slots hold nothing.
LooseRing(b, n) ==
  /\ Sized(b, n)
  /\ b.start <= b.end /\ b.end - b.start < n
  /\ b.base - n <= b.start /\ b.end <= b.base + n - 1
  /\ \A s \in 0 .. n - 1 :
       \/ b.backing[s] = 0
       \/ b.base + s \in b.start .. b.end
       \/ b.base + s - n \in b.start .. b.end

Ring(b, n) == LooseRing(b, n) /\ b.base \in b.start .. b.end

LEMMA CapacityIs ==
  ASSUME NEW b, NEW n, Sized(b, n)
  PROVE  Capacity(b) = n /\ n \in Nat /\ n >= 1 /\ n <= MaxSize
<1>1. DOMAIN b.backing = 0 .. n - 1 /\ n \in Nat /\ n >= 1 /\ n <= MaxSize
  BY HistogramAssumption DEF Sized
<1>2. Cardinality(0 .. n - 1) = n
  <2>1. 0 \in Int /\ n - 1 \in Int /\ 0 <= n - 1
    BY <1>1
  <2> QED
    BY <1>1, <2>1, FS_Interval
<1> QED
  BY <1>1, <1>2 DEF Capacity

LEMMA SlotFacts ==
  ASSUME NEW b, NEW n, LooseRing(b, n), NEW x \in b.start .. b.end
  PROVE  /\ Slot(b, x) = IF x < b.base THEN x - b.base + n ELSE x - b.base
         /\ Slot(b, x) \in 0 .. n - 1
         /\ Held(b, x) = b.backing[Slot(b, x)]
         /\ Held(b, x) \in Nat
<1>1. Capacity(b) = n /\ n \in Nat /\ n >= 1
  BY CapacityIs DEF LooseRing
<1>2. b.base \in Int /\ b.start \in Int /\ b.end \in Int /\ b.backing \in [0 .. n - 1 -> Nat]
  BY DEF LooseRing, Sized
<1>3. Slot(b, x) = IF x < b.base THEN x - b.base + n ELSE x - b.base
  BY <1>1 DEF Slot
<1>4. Slot(b, x) \in 0 .. n - 1
  <2>1. b.base - n <= b.start /\ b.end <= b.base + n - 1 /\ x \in Int
    BY <1>2 DEF LooseRing
  <2> QED
    BY SMTT(30), <1>1, <1>2, <1>3, <2>1
<1> QED
  BY <1>2, <1>3, <1>4 DEF Held

LEMMA HeldIsNat ==
  ASSUME NEW b, NEW n, LooseRing(b, n), NEW x
  PROVE  Held(b, x) \in Nat
<1>1. CASE x \in b.start .. b.end
  BY <1>1, SlotFacts
<1>2. CASE x \notin b.start .. b.end
  BY <1>2 DEF Held
<1> QED
  BY <1>1, <1>2

LEMMA AtIsHeld ==
  ASSUME NEW b, NEW n, LooseRing(b, n), NEW i \in 0 .. b.end - b.start
  PROVE  At(b, i) = Held(b, b.start + i)
<1>1. Capacity(b) = n /\ n \in Nat /\ n >= 1
  BY CapacityIs DEF LooseRing
<1>2. b.base \in Int /\ b.start \in Int /\ b.end \in Int
  BY DEF LooseRing, Sized
<1> DEFINE x == b.start + i
<1>3. x \in b.start .. b.end
  BY <1>2
<1>4. Slot(b, x) = IF x < b.base THEN x - b.base + n ELSE x - b.base
  BY <1>3, SlotFacts
<1>5. (IF i < Bias(b) THEN i + Capacity(b) ELSE i) - Bias(b) = Slot(b, x)
  BY <1>1, <1>2, <1>4 DEF Bias
<1>6. Held(b, x) = b.backing[Slot(b, x)]
  BY <1>3, SlotFacts
<1> QED
  BY <1>5, <1>6 DEF At

\* There are no buckets just when all counts are 0 and at one index.
LEMMA LengthFacts ==
  ASSUME NEW b, NEW n, LooseRing(b, n)
  PROVE  /\ Length(b) = 0 <=> b.start = b.end /\ Held(b, b.start) = 0
         /\ Length(b) # 0 => Length(b) = b.end - b.start + 1
         /\ Length(b) \in 0 .. n
         /\ \A i \in Positions(b) : /\ i \in 0 .. b.end - b.start
                                    /\ b.start + i \in b.start .. b.end
                                    /\ At(b, i) = Held(b, b.start + i)
         /\ Length(b) = 0 => \A x : Held(b, x) = 0
<1>1. b.start \in Int /\ b.end \in Int /\ b.start <= b.end /\ n \in Nat /\ b.end - b.start < n
  BY CapacityIs DEF LooseRing, Sized
<1>2. At(b, 0) = Held(b, b.start)
  <2>1. 0 \in 0 .. b.end - b.start /\ b.start + 0 = b.start
    BY <1>1
  <2> QED
    BY <2>1, AtIsHeld
<1>3. Length(b) = IF b.start = b.end /\ Held(b, b.start) = 0 THEN 0 ELSE b.end - b.start + 1
  BY <1>2 DEF Length
<1>4. /\ Length(b) = 0 <=> b.start = b.end /\ Held(b, b.start) = 0
      /\ Length(b) # 0 => Length(b) = b.end - b.start + 1
      /\ Length(b) \in 0 .. n
  BY <1>1, <1>3
<1>5. ASSUME NEW i \in Positions(b)
      PROVE  /\ i \in 0 .. b.end - b.start
             /\ b.start + i \in b.start .. b.end
             /\ At(b, i) = Held(b, b.start + i)
  <2>1. i \in 0 .. b.end - b.start
    BY <1>1, <1>3 DEF Positions
  <2> QED
    BY <1>1, <2>1, AtIsHeld
<1>6. ASSUME Length(b) = 0, NEW x PROVE Held(b, x) = 0
  <2>1. CASE x \in b.start .. b.end
    BY <1>1, <1>4, <1>6, <2>1
  <2>2. CASE x \notin b.start .. b.end
    BY <2>2 DEF Held
  <2> QED
    BY <2>1, <2>2
<1> QED
  BY <1>4, <1>5, <1>6

LEMMA RingBounds ==
  ASSUME NEW b, NEW n, LooseRing(b, n)
  PROVE  /\ b.base \in Int /\ b.start \in Int /\ b.end \in Int
         /\ b.backing \in [0 .. n - 1 -> Nat]
         /\ n \in Nat /\ n >= 1 /\ n <= MaxSize /\ Capacity(b) = n
         /\ b.start <= b.end /\ b.end - b.start < n
         /\ b.base - n <= b.start /\ b.end <= b.base + n - 1
<1>1. Sized(b, n) /\ n \in Nat /\ n >= 1 /\ n <= MaxSize /\ Capacity(b) = n
  BY CapacityIs DEF LooseRing
<1> QED
  BY <1>1 DEF LooseRing, Sized

\* What is in no slot of an index is 0.
LEMMA EmptySlot ==
  ASSUME NEW b, NEW n, LooseRing(b, n), NEW s \in 0 .. n - 1,
         b.base + s \notin b.start .. b.end, b.base + s - n \notin b.start .. b.end
  PROVE  b.backing[s] = 0
BY DEF LooseRing

LEMMA ReverseFacts ==
  ASSUME NEW n \in Nat, NEW counts \in [0 .. n - 1 -> Nat], NEW from \in Int, NEW limit \in Int,
         0 <= from, limit <= n
  PROVE  /\ ReverseRange(counts, from, limit) \in [0 .. n - 1 -> Nat]
         /\ \A i \in 0 .. n - 1 :
              ReverseRange(counts, from, limit)[i]
                = IF i \in from .. limit - 1 THEN counts[from + limit - 1 - i] ELSE counts[i]
<1>1. \A i \in 0 .. n - 1 : i \in from .. limit - 1 => from + limit - 1 - i \in 0 .. n - 1
  OBVIOUS
<1> QED
  BY <1>1 DEF ReverseRange

\* The slot that slot i takes its count from when n slots are rotated.
Source(bias, n, i) ==
  IF i < bias THEN i - bias + n ELSE IF i < n + bias THEN i - bias ELSE n - 1 - i

\* It is the one that had the index, or one that had none.
LEMMA SourceFacts ==
  ASSUME NEW base \in Int, NEW start \in Int, NEW end \in Int, NEW n \in Nat,
         start <= end, end - start < n, base - n <= start, end <= base + n - 1,
         NEW i \in 0 .. n - 1
  PROVE  /\ Source(base - start, n, i) \in 0 .. n - 1
         /\ i <= end - start =>
              Source(base - start, n, i) =
                IF start + i < base THEN start + i - base + n ELSE start + i - base
         /\ ~(i <= end - start) =>
              /\ base + Source(base - start, n, i) \notin start .. end
              /\ base + Source(base - start, n, i) - n \notin start .. end
<1>1. CASE i < base - start
  BY <1>1 DEF Source
<1>2. CASE ~(i < base - start) /\ i < n + (base - start)
  BY <1>2 DEF Source
<1>3. CASE ~(i < base - start) /\ ~(i < n + (base - start))
  BY <1>3 DEF Source
<1> QED
  BY <1>1, <1>2, <1>3

LEMMA RotateTakes ==
  ASSUME NEW b, NEW n, LooseRing(b, n), Bias(b) # 0
  PROVE  /\ Rotate(b) = [b EXCEPT !.base = b.start, !.backing = Rotate(b).backing]
         /\ Rotate(b).backing \in [0 .. n - 1 -> Nat]
         /\ \A i \in 0 .. n - 1 :
              Rotate(b).backing[i] = b.backing[Source(Bias(b), n, i)]
<1> DEFINE d == Bias(b)
           old == b.backing
           turned == ReverseRange(old, 0, n)
           backing == IF d > 0 THEN ReverseRange(ReverseRange(turned, 0, d), d, n)
                      ELSE ReverseRange(turned, 0, n + d)
<1>1. /\ b.base \in Int /\ b.start \in Int /\ b.end \in Int
      /\ old \in [0 .. n - 1 -> Nat]
      /\ n \in Nat /\ n >= 1 /\ n <= MaxSize /\ Capacity(b) = n
      /\ b.start <= b.end /\ b.end - b.start < n
      /\ b.base - n <= b.start /\ b.end <= b.base + n - 1
  BY RingBounds
<1>2. d \in Int /\ d <= n /\ -n < d
  BY SMTT(30), <1>1 DEF Bias
<1>3. Rotate(b) = [b EXCEPT !.base = b.start, !.backing = backing]
  BY <1>1 DEF Rotate
<1>4. Rotate(b).backing = backing
  <2>1. b \in [base : Int, start : Int, end : Int, backing : [0 .. n - 1 -> Nat]]
    BY DEF LooseRing, Sized
  <2> HIDE DEF backing
  <2> QED
    BY <1>3, <2>1
<1>5. /\ turned \in [0 .. n - 1 -> Nat]
      /\ \A i \in 0 .. n - 1 : turned[i] = old[n - 1 - i]
  <2>1. 0 \in Int /\ n \in Int /\ 0 <= 0 /\ n <= n
    BY <1>1
  <2>2. /\ turned \in [0 .. n - 1 -> Nat]
        /\ \A i \in 0 .. n - 1 :
             turned[i] = IF i \in 0 .. n - 1 THEN old[0 + n - 1 - i] ELSE old[i]
    <3> HIDE DEF old
    <3> QED
      BY <1>1, <2>1, ReverseFacts
  <2>3. \A i \in 0 .. n - 1 : 0 + n - 1 - i = n - 1 - i
    BY <1>1
  <2> HIDE DEF turned, old
  <2> QED
    BY <2>2, <2>3
<1> HIDE DEF turned, d
<1>6. CASE d > 0
  <2> DEFINE low == ReverseRange(turned, 0, d)
             both == ReverseRange(low, d, n)
  <2>1. /\ low \in [0 .. n - 1 -> Nat]
        /\ \A i \in 0 .. n - 1 :
             low[i] = IF i \in 0 .. d - 1 THEN turned[0 + d - 1 - i] ELSE turned[i]
    <3>1. 0 \in Int /\ 0 <= 0 /\ d <= n /\ turned \in [0 .. n - 1 -> Nat] /\ n \in Nat /\ d \in Int
      BY SMTT(30), <1>1, <1>2, <1>5
    <3> QED
      BY ONLY <3>1, ReverseFacts
  <2> HIDE DEF low
  <2>2. /\ both \in [0 .. n - 1 -> Nat]
        /\ \A i \in 0 .. n - 1 :
             both[i] = IF i \in d .. n - 1 THEN low[d + n - 1 - i] ELSE low[i]
    <3>1. 0 <= d /\ n <= n /\ n \in Int /\ low \in [0 .. n - 1 -> Nat] /\ n \in Nat /\ d \in Int
      BY SMTT(30), <1>1, <1>2, <1>6, <2>1
    <3> QED
      BY ONLY <3>1, ReverseFacts
  <2> HIDE DEF both
  <2>3. backing = both
    BY <1>6 DEF both, low
  <2>4. ASSUME NEW i \in 0 .. n - 1
        PROVE  both[i] = old[Source(d, n, i)]
    <3>1. CASE i < d
      <4>1. both[i] = low[i] /\ low[i] = turned[0 + d - 1 - i]
        BY SMTT(30), <1>1, <1>2, <2>1, <2>2, <3>1
      <4>2. 0 + d - 1 - i \in 0 .. n - 1 /\ n - 1 - (0 + d - 1 - i) = i - d + n
        BY <1>1, <1>2, <3>1
      <4>3. turned[0 + d - 1 - i] = old[n - 1 - (0 + d - 1 - i)]
        BY <1>5, <4>2
      <4> QED
        BY <3>1, <4>1, <4>2, <4>3 DEF Source
    <3>2. CASE ~(i < d)
      <4>1. /\ i \in d .. n - 1 /\ d + n - 1 - i \in 0 .. n - 1
            /\ d + n - 1 - i \notin 0 .. d - 1
            /\ n - 1 - (d + n - 1 - i) = i - d /\ i < n + d
        BY <1>1, <1>2, <1>6, <3>2
      <4>2. both[i] = low[d + n - 1 - i]
        BY <2>2, <4>1
      <4>3. low[d + n - 1 - i] = turned[d + n - 1 - i]
        BY <2>1, <4>1
      <4>4. turned[d + n - 1 - i] = old[n - 1 - (d + n - 1 - i)]
        BY <1>5, <4>1
      <4> QED
        BY <3>2, <4>1, <4>2, <4>3, <4>4 DEF Source
    <3> QED
      BY <3>1, <3>2
  <2> HIDE DEF backing
  <2> QED
    BY <1>3, <1>4, <2>2, <2>3, <2>4 DEF d
<1>7. CASE d < 0
  <2> DEFINE low == ReverseRange(turned, 0, n + d)
  <2>1. /\ low \in [0 .. n - 1 -> Nat]
        /\ \A i \in 0 .. n - 1 :
             low[i] = IF i \in 0 .. (n + d) - 1 THEN turned[0 + (n + d) - 1 - i] ELSE turned[i]
    <3>1. n + d \in Int /\ n + d <= n /\ 0 \in Int /\ 0 <= 0
      BY <1>1, <1>2, <1>7
    <3>2. turned \in [0 .. n - 1 -> Nat] /\ n \in Nat
      BY <1>1, <1>5
    <3> QED
      BY ONLY <3>1, <3>2, ReverseFacts
  <2> HIDE DEF low
  <2>2. backing = low
    BY <1>2, <1>7 DEF low
  <2>3. ASSUME NEW i \in 0 .. n - 1
        PROVE  low[i] = old[Source(d, n, i)]
    <3>1. ~(i < d)
      BY <1>2, <1>7
    <3>2. CASE i < n + d
      <4>1. /\ i \in 0 .. (n + d) - 1 /\ 0 + (n + d) - 1 - i \in 0 .. n - 1
            /\ n - 1 - (0 + (n + d) - 1 - i) = i - d
        BY <1>1, <1>2, <1>7, <3>2
      <4>2. low[i] = turned[0 + (n + d) - 1 - i]
        BY <2>1, <4>1
      <4>3. turned[0 + (n + d) - 1 - i] = old[n - 1 - (0 + (n + d) - 1 - i)]
        BY <1>5, <4>1
      <4> QED
        BY <3>1, <3>2, <4>1, <4>2, <4>3 DEF Source
    <3>3. CASE ~(i < n + d)
      <4>1. i \notin 0 .. (n + d) - 1
        BY <1>1, <1>2, <3>3
      <4>2. low[i] = turned[i] /\ turned[i] = old[n - 1 - i]
        BY <1>5, <2>1, <4>1
      <4> QED
        BY <3>1, <3>3, <4>2 DEF Source
    <3> QED
      BY <3>2, <3>3
  <2> HIDE DEF backing
  <2> QED
    BY <1>3, <1>4, <2>1, <2>2, <2>3 DEF d
<1> QED
  BY <1>2, <1>6, <1>7 DEF d

\* After rotating, the slots are in the order of the indexes.
LEMMA RotateFacts ==
  ASSUME NEW b, NEW n, LooseRing(b, n)
  PROVE  /\ Ring(Rotate(b), n)
         /\ Rotate(b).base = b.start /\ Rotate(b).start = b.start /\ Rotate(b).end = b.end
         /\ \A i \in 0 .. n - 1 :
              Rotate(b).backing[i] = IF i <= b.end - b.start THEN Held(b, b.start + i) ELSE 0
         /\ \A x : Held(Rotate(b), x) = Held(b, x)
<1> DEFINE r == Rotate(b)
<1>1. /\ b.base \in Int /\ b.start \in Int /\ b.end \in Int
      /\ b.backing \in [0 .. n - 1 -> Nat]
      /\ n \in Nat /\ n >= 1 /\ n <= MaxSize /\ Capacity(b) = n
      /\ b.start <= b.end /\ b.end - b.start < n
      /\ b.base - n <= b.start /\ b.end <= b.base + n - 1
  BY RingBounds
<1>2. /\ Sized(r, n)
      /\ r.base = b.start /\ r.start = b.start /\ r.end = b.end
  <2>1. b \in [base : Int, start : Int, end : Int, backing : [0 .. n - 1 -> Nat]]
    BY DEF LooseRing, Sized
  <2>2. n \in 1 .. MaxSize
    BY DEF LooseRing, Sized
  <2>3. CASE Bias(b) = 0
    <3>1. r = b
      BY <2>3 DEF Rotate
    <3>2. b.base = b.start
      BY <1>1, <2>3 DEF Bias
    <3> HIDE DEF r
    <3> QED
      BY <2>1, <2>2, <3>1, <3>2 DEF Sized
  <2>4. CASE Bias(b) # 0
    <3>1. /\ r = [b EXCEPT !.base = b.start, !.backing = r.backing]
          /\ r.backing \in [0 .. n - 1 -> Nat]
      BY <2>4, RotateTakes
    <3> HIDE DEF r
    <3> QED
      BY <1>1, <2>1, <2>2, <3>1 DEF Sized
  <2> QED
    BY <2>3, <2>4
<1>3. ASSUME NEW i \in 0 .. n - 1
      PROVE  r.backing[i] = IF i <= b.end - b.start THEN Held(b, b.start + i) ELSE 0
  <2> DEFINE source == Source(Bias(b), n, i)
  <2>1. Bias(b) = b.base - b.start /\ Bias(b) \in Int
    BY <1>1 DEF Bias
  <2>2. r.backing[i] = b.backing[source]
    <3>1. CASE Bias(b) = 0
      <4>1. r = b
        BY <3>1 DEF Rotate
      <4>2. source = i
        BY <1>1, <3>1 DEF Source
      <4> HIDE DEF r, source
      <4> QED
        BY <4>1, <4>2
    <3>2. CASE Bias(b) # 0
      <4>1. \A j \in 0 .. n - 1 : Rotate(b).backing[j] = b.backing[Source(Bias(b), n, j)]
        BY <3>2, RotateTakes
      <4> QED
        BY <4>1
    <3> QED
      BY <3>1, <3>2
  <2> HIDE DEF r
  <2>3. /\ source \in 0 .. n - 1
        /\ i <= b.end - b.start =>
             source = IF b.start + i < b.base THEN b.start + i - b.base + n
                      ELSE b.start + i - b.base
        /\ ~(i <= b.end - b.start) =>
             /\ b.base + source \notin b.start .. b.end
             /\ b.base + source - n \notin b.start .. b.end
    <3>1. PICK base \in Int, start \in Int, end \in Int :
            base = b.base /\ start = b.start /\ end = b.end
      BY <1>1
    <3>2. start <= end /\ end - start < n /\ base - n <= start /\ end <= base + n - 1 /\ n \in Nat
      BY <1>1, <3>1
    <3>3. i \in 0 .. n - 1
      OBVIOUS
    <3>4. /\ Source(base - start, n, i) \in 0 .. n - 1
          /\ i <= end - start =>
               Source(base - start, n, i) =
                 IF start + i < base THEN start + i - base + n ELSE start + i - base
          /\ ~(i <= end - start) =>
               /\ base + Source(base - start, n, i) \notin start .. end
               /\ base + Source(base - start, n, i) - n \notin start .. end
      BY ONLY <3>2, <3>3, base \in Int, start \in Int, end \in Int, SourceFacts
    <3>5. source = Source(base - start, n, i)
      BY <2>1, <3>1
    <3> HIDE DEF source
    <3> QED
      BY <3>1, <3>4, <3>5
  <2> HIDE DEF source
  <2>4. CASE i <= b.end - b.start
    <3>1. b.start + i \in b.start .. b.end
      <4>1. PICK start \in Int, end \in Int : start = b.start /\ end = b.end
        BY <1>1
      <4>2. i \in 0 .. n - 1
        OBVIOUS
      <4>3. i \in Int /\ 0 <= i
        BY ONLY <4>2
      <4>4. i <= end - start
        BY <2>4, <4>1
      <4>5. start + i \in start .. end
        BY ONLY <4>3, <4>4, start \in Int, end \in Int
      <4> QED
        BY <4>1, <4>5
    <3> DEFINE x == b.start + i
    <3> HIDE DEF x
    <3>2. x \in b.start .. b.end
      BY <3>1 DEF x
    <3>3. /\ Slot(b, x) = IF x < b.base THEN x - b.base + n ELSE x - b.base
          /\ Held(b, x) = b.backing[Slot(b, x)]
      BY <3>2, SlotFacts
    <3>4. Slot(b, x) = source
      BY SMTT(30), <1>1, <2>3, <2>4, <3>3 DEF x
    <3> QED
      BY <2>2, <2>4, <3>3, <3>4 DEF x
  <2>5. CASE ~(i <= b.end - b.start)
    <3>1. b.backing[source] = 0
      BY <2>3, <2>5, EmptySlot
    <3> QED
      BY <2>2, <2>5, <3>1
  <2> QED
    BY <2>4, <2>5
<1> HIDE DEF r
<1>4. ASSUME NEW s \in 0 .. n - 1 PROVE r.backing[s] = 0 \/ r.base + s \in r.start .. r.end
  BY <1>1, <1>2, <1>3
<1>5. Ring(r, n)
  <2>1. LooseRing(r, n)
    BY SMTT(30), <1>1, <1>2, <1>4 DEF LooseRing
  <2> QED
    BY <1>1, <1>2, <2>1 DEF Ring
<1>6. ASSUME NEW x PROVE Held(r, x) = Held(b, x)
  <2>1. CASE x \notin b.start .. b.end
    BY <1>2, <2>1 DEF Held
  <2>2. CASE x \in b.start .. b.end
    <3> DEFINE i == x - b.start
    <3>1. /\ x \in Int /\ i \in 0 .. n - 1 /\ i <= b.end - b.start /\ b.start + i = x
          /\ x \in r.start .. r.end /\ ~(x < r.base) /\ x - r.base = i
      BY SMTT(30), <1>1, <1>2, <2>2
    <3> HIDE DEF i
    <3>2. /\ Slot(r, x) = IF x < r.base THEN x - r.base + n ELSE x - r.base
          /\ Held(r, x) = r.backing[Slot(r, x)]
      BY <1>5, <3>1, SlotFacts DEF Ring
    <3>3. r.backing[i] = Held(b, x)
      BY <1>3, <3>1
    <3> QED
      BY <3>1, <3>2, <3>3
  <2> QED
    BY <2>1, <2>2
<1> QED
  BY <1>2, <1>3, <1>5, <1>6 DEF r

-------------------------------------------------------------------------------
\* Growing

LEMMA MinOfTwo ==
  ASSUME NEW x \in Int, NEW y \in Int
  PROVE  Min({x, y}) = IF x <= y THEN x ELSE y
<1> DEFINE m == IF x <= y THEN x ELSE y
<1>1. m \in {x, y} /\ \A z \in {x, y} : m <= z
  OBVIOUS
<1>2. \A k \in {x, y} : (\A z \in {x, y} : k <= z) => k = m
  OBVIOUS
<1> HIDE DEF m
<1>3. Min({x, y}) = m
  BY <1>1, <1>2 DEF Min
<1> QED
  BY <1>3 DEF m

LEMMA MaxOfTwo ==
  ASSUME NEW x \in Int, NEW y \in Int
  PROVE  Max({x, y}) = IF x >= y THEN x ELSE y
<1> DEFINE m == IF x >= y THEN x ELSE y
<1>1. m \in {x, y} /\ \A z \in {x, y} : m >= z
  OBVIOUS
<1>2. \A k \in {x, y} : (\A z \in {x, y} : k >= z) => k = m
  OBVIOUS
<1> HIDE DEF m
<1>3. Max({x, y}) = m
  BY <1>1, <1>2 DEF Max
<1> QED
  BY <1>3 DEF m

\* The power of two is there, and it is large enough.
LEMMA PowerOfTwoFacts ==
  ASSUME NEW v \in Nat
  PROVE  PowerOfTwo(v) \in Nat /\ PowerOfTwo(v) >= v
<1> DEFINE Below == {n \in Nat : Pow2[n] >= n + 1}
           S == {Pow2[i] : i \in {i \in 0 .. v : Pow2[i] >= v}}
<1>1. 0 \in Below
  BY Pow2Facts
<1>2. ASSUME NEW n \in Nat, n \in Below PROVE n + 1 \in Below
  <2>1. Pow2[n + 1] = 2 * Pow2[n] /\ Pow2[n] >= n + 1 /\ Pow2[n] \in Nat
    BY <1>2, Pow2Facts
  <2> QED
    BY <2>1
<1> HIDE DEF Below
<1>3. v \in Below
  BY <1>1, <1>2, NatsBySuccessor
<1>4. Pow2[v] >= v
  <2>1. Pow2[v] >= v + 1 /\ Pow2[v] \in Nat
    BY <1>3, Pow2Facts DEF Below
  <2> QED
    BY <2>1
<1>5. Pow2[v] \in S
  BY <1>4
<1>6. \A y \in S : y \in Nat /\ y >= v
  BY Pow2Facts
<1> HIDE DEF S
<1>7. \E x \in S : \A y \in S : x <= y
  BY <1>5, <1>6, NatHasLeast
<1>8. Min(S) \in S
  BY <1>7 DEF Min
<1>9. PowerOfTwo(v) = Min(S)
  BY DEF PowerOfTwo, S
<1> QED
  BY <1>6, <1>8, <1>9

LEMMA RingFacts ==
  ASSUME NEW b, NEW n, Ring(b, n)
  PROVE  /\ LooseRing(b, n)
         /\ b.base \in Int /\ b.start \in Int /\ b.end \in Int
         /\ b.backing \in [0 .. n - 1 -> Nat]
         /\ n \in Nat /\ n >= 1 /\ n <= MaxSize /\ Capacity(b) = n
         /\ b.start <= b.base /\ b.base <= b.end /\ b.end - b.start < n
<1>1. LooseRing(b, n) /\ b.base \in b.start .. b.end
  BY DEF Ring
<1> QED
  BY <1>1, RingBounds

\* It is enough for a ring that it has its sizes and no counts elsewhere.
LEMMA RingFrom ==
  ASSUME NEW b, NEW n, Sized(b, n), b.start <= b.base, b.base <= b.end, b.end - b.start < n,
         \A s \in 0 .. n - 1 :
           \/ b.backing[s] = 0
           \/ b.base + s \in b.start .. b.end
           \/ b.base + s - n \in b.start .. b.end
  PROVE  Ring(b, n)
<1>1. b.base \in Int /\ b.start \in Int /\ b.end \in Int /\ n \in Nat /\ n >= 1
  BY CapacityIs DEF Sized
<1>2. b.start <= b.end /\ b.base - n <= b.start /\ b.end <= b.base + n - 1
  BY <1>1
<1>3. b.base \in b.start .. b.end
  BY <1>1
<1> QED
  BY <1>2, <1>3 DEF Ring, LooseRing

LEMMA GrowFacts ==
  ASSUME NEW b, NEW n, Ring(b, n), NEW needed \in Nat, needed > n, needed <= MaxSize
  PROVE  /\ \E m : Ring(Grow(b, needed), m) /\ m >= needed
         /\ Grow(b, needed).base = b.base
         /\ Grow(b, needed).start = b.start /\ Grow(b, needed).end = b.end
         /\ \A x : Held(Grow(b, needed), x) = Held(b, x)
<1> DEFINE g == Grow(b, needed)
           m == Min({PowerOfTwo(needed), MaxSize})
<1>1. /\ LooseRing(b, n)
      /\ b.base \in Int /\ b.start \in Int /\ b.end \in Int
      /\ b.backing \in [0 .. n - 1 -> Nat]
      /\ n \in Nat /\ n >= 1 /\ n <= MaxSize /\ Capacity(b) = n
      /\ b.start <= b.base /\ b.base <= b.end /\ b.end - b.start < n
  BY RingFacts
<1>2. m \in Nat /\ m >= needed /\ m > n /\ m <= MaxSize /\ m \in 1 .. MaxSize
  <2>1. PowerOfTwo(needed) \in Nat /\ PowerOfTwo(needed) >= needed
    BY PowerOfTwoFacts
  <2>2. MaxSize \in Nat
    BY HistogramAssumption
  <2>3. m = IF PowerOfTwo(needed) <= MaxSize THEN PowerOfTwo(needed) ELSE MaxSize
    BY <2>1, <2>2, MinOfTwo
  <2> HIDE DEF m
  <2> QED
    BY <1>1, <2>1, <2>2, <2>3
<1> DEFINE backing == [i \in 0 .. m - 1 |->
                         IF i < n - (b.base - b.start) THEN b.backing[i]
                         ELSE IF i >= m - (b.base - b.start) THEN b.backing[i - m + n] ELSE 0]
<1>3. g = [b EXCEPT !.backing = backing]
  <2>1. \A i \in 0 .. m - 1 :
          i - (m - (b.base - b.start)) + (n - (b.base - b.start)) = i - m + n
    <3> HIDE DEF m
    <3> QED
      BY <1>1, <1>2
  <2> QED
    BY <1>1, <2>1 DEF Grow, Bias
<1> HIDE DEF m
<1>4. \A i \in 0 .. m - 1 :
        /\ i < n - (b.base - b.start) => i \in 0 .. n - 1
        /\ i >= m - (b.base - b.start) => i - m + n \in 0 .. n - 1
  BY <1>1, <1>2
<1>5. backing \in [0 .. m - 1 -> Nat]
  <2>1. ASSUME NEW i \in 0 .. m - 1 PROVE backing[i] \in Nat
    BY <1>1, <1>4
  <2> QED
    BY <2>1
<1>6. b \in [base : Int, start : Int, end : Int, backing : [0 .. n - 1 -> Nat]]
  BY <1>1 DEF LooseRing, Sized
<1>7. \A i \in 0 .. m - 1 : backing[i] =
        IF i < n - (b.base - b.start) THEN b.backing[i]
        ELSE IF i >= m - (b.base - b.start) THEN b.backing[i - m + n] ELSE 0
  OBVIOUS
<1> HIDE DEF backing
<1>8. Sized(g, m) /\ g.base = b.base /\ g.start = b.start /\ g.end = b.end /\ g.backing = backing
  BY <1>2, <1>3, <1>5, <1>6 DEF Sized
<1> HIDE DEF g
<1>0. PICK base \in Int, start \in Int, end \in Int, size \in Nat :
        base = b.base /\ start = b.start /\ end = b.end /\ size = m
  BY <1>1, <1>2
<1>9. ASSUME NEW s \in 0 .. m - 1
      PROVE  \/ backing[s] = 0
             \/ b.base + s \in b.start .. b.end
             \/ b.base + s - m \in b.start .. b.end
  <2>1. CASE s < n - (b.base - b.start)
    <3>1. backing[s] = b.backing[s] /\ s \in 0 .. n - 1
      BY <1>4, <1>7, <2>1
    <3>2. b.base + s - n \notin b.start .. b.end
      BY SMTT(30), <1>1, <2>1
    <3> QED
      BY <1>1, <3>1, <3>2, EmptySlot
  <2>2. CASE ~(s < n - (b.base - b.start)) /\ s >= m - (b.base - b.start)
    <3> DEFINE t == s - m + n
    <3>1. backing[s] = b.backing[t] /\ t \in 0 .. n - 1
      BY <1>4, <1>7, <2>2
    <3>2. base + t \notin start .. end /\ base + t - n = base + s - size
      <4>1. /\ start <= base /\ base <= end /\ end - start < n /\ n \in Nat
            /\ s \in Int /\ t = s - size + n /\ ~(s < n - (base - start))
            /\ s >= size - (base - start)
        BY <1>0, <1>1, <2>2
      <4> HIDE DEF t
      <4> QED
        BY ONLY <4>1, base \in Int, start \in Int, end \in Int, size \in Nat
    <3> HIDE DEF t
    <3> QED
      BY <1>0, <1>1, <3>1, <3>2, EmptySlot
  <2>3. CASE ~(s < n - (b.base - b.start)) /\ ~(s >= m - (b.base - b.start))
    BY <1>7, <2>3
  <2> QED
    BY <2>1, <2>2, <2>3
<1>10. Ring(g, m)
  <2>1. g.end - g.start < m
    BY <1>1, <1>2, <1>8
  <2> QED
    BY <1>1, <1>8, <1>9, <2>1, RingFrom
<1>11. ASSUME NEW x PROVE Held(g, x) = Held(b, x)
  <2>1. CASE x \notin b.start .. b.end
    BY <1>8, <2>1 DEF Held
  <2>2. CASE x \in b.start .. b.end
    <3>1. /\ Slot(b, x) = IF x < b.base THEN x - b.base + n ELSE x - b.base
          /\ Slot(b, x) \in 0 .. n - 1
          /\ Held(b, x) = b.backing[Slot(b, x)]
      BY <1>1, <2>2, SlotFacts
    <3>2. /\ Slot(g, x) = IF x < b.base THEN x - b.base + m ELSE x - b.base
          /\ Slot(g, x) \in 0 .. m - 1
          /\ Held(g, x) = backing[Slot(g, x)]
      <4>1. LooseRing(g, m) /\ x \in g.start .. g.end
        BY <1>8, <1>10, <2>2 DEF Ring
      <4> QED
        BY <1>8, <4>1, SlotFacts
    <3>3. CASE x < b.base
      <4>1. /\ Slot(g, x) = x - b.base + m /\ Slot(b, x) = x - b.base + n
            /\ Slot(g, x) - m + n = Slot(b, x)
            /\ ~(Slot(g, x) < n - (b.base - b.start))
            /\ Slot(g, x) >= m - (b.base - b.start)
        <5>1. x \in Int /\ start <= x /\ x <= end /\ x < base /\ n \in Nat /\ end - start < n
          BY <1>0, <1>1, <2>2, <3>3
        <5>2. Slot(g, x) = x - base + size /\ Slot(b, x) = x - base + n
          BY <1>0, <3>1, <3>2, <3>3
        <5>3. /\ Slot(g, x) - size + n = Slot(b, x)
              /\ ~(Slot(g, x) < n - (base - start))
              /\ Slot(g, x) >= size - (base - start)
          <6>1. n < size /\ start <= base /\ base <= end
            BY <1>0, <1>1, <1>2
          <6> QED
            BY ONLY <5>1, <5>2, <6>1, base \in Int, start \in Int, end \in Int, size \in Nat
        <5> QED
          BY <1>0, <5>2, <5>3
      <4> QED
        BY <1>7, <3>1, <3>2, <4>1
    <3>4. CASE ~(x < b.base)
      <4>1. /\ Slot(g, x) = Slot(b, x)
            /\ Slot(g, x) < n - (b.base - b.start)
        BY SMTT(30), <1>1, <1>2, <2>2, <3>1, <3>2, <3>4
      <4> QED
        BY <1>7, <3>1, <3>2, <4>1
    <3> QED
      BY <3>3, <3>4
  <2> QED
    BY <2>1, <2>2
<1> QED
  BY <1>2, <1>8, <1>10, <1>11 DEF g

-------------------------------------------------------------------------------
\* Reaching an index, and counting at it

LEMMA WidenDown ==
  ASSUME NEW b, NEW n, Ring(b, n), NEW index \in Int, index < b.start, b.end - index < n
  PROVE  LET w == [b EXCEPT !.start = index]
         IN /\ Ring(w, n)
            /\ w.start = index /\ w.end = b.end
            /\ \A x \in Int : Held(w, x) = Held(b, x)
<1> DEFINE w == [b EXCEPT !.start = index]
<1>1. /\ LooseRing(b, n)
      /\ b.base \in Int /\ b.start \in Int /\ b.end \in Int
      /\ b.backing \in [0 .. n - 1 -> Nat]
      /\ n \in Nat /\ n >= 1 /\ n <= MaxSize /\ Capacity(b) = n
      /\ b.start <= b.base /\ b.base <= b.end /\ b.end - b.start < n
  BY RingFacts
<1>2. /\ Sized(w, n) /\ w.base = b.base /\ w.start = index /\ w.end = b.end
      /\ w.backing = b.backing
  BY <1>1 DEF LooseRing, Sized
<1> HIDE DEF w
<1>3. ASSUME NEW s \in 0 .. n - 1
      PROVE  \/ w.backing[s] = 0
             \/ w.base + s \in w.start .. w.end
             \/ w.base + s - n \in w.start .. w.end
  <2>1. \/ b.backing[s] = 0
        \/ b.base + s \in b.start .. b.end
        \/ b.base + s - n \in b.start .. b.end
    BY <1>1 DEF LooseRing
  <2>2. b.start .. b.end \subseteq index .. b.end
    BY <1>1
  <2> QED
    BY <1>2, <2>1, <2>2
<1>4. Ring(w, n)
  <2>1. w.start <= w.base /\ w.base <= w.end /\ w.end - w.start < n
    BY <1>1, <1>2
  <2> QED
    BY <1>2, <1>3, <2>1, RingFrom
<1>5. ASSUME NEW x \in Int PROVE Held(w, x) = Held(b, x)
  <2>1. Slot(w, x) = Slot(b, x)
    BY <1>2 DEF Slot, Capacity
  <2>2. CASE x \in b.start .. b.end
    <3>1. x \in w.start .. w.end
      BY <1>1, <1>2, <2>2
    <3> QED
      BY <1>2, <2>1, <2>2, <3>1 DEF Held
  <2>3. CASE x \in index .. b.start - 1
    <3>1. x \in w.start .. w.end /\ x \notin b.start .. b.end
      BY SMTT(30), <1>1, <1>2, <2>3
    <3>2. Slot(b, x) = x - b.base + n
      BY <1>1, <2>3 DEF Slot
    <3>3. /\ Slot(b, x) \in 0 .. n - 1
          /\ b.base + Slot(b, x) \notin b.start .. b.end
          /\ b.base + Slot(b, x) - n \notin b.start .. b.end
      <4>0. Slot(b, x) \in Int
        BY <1>1, <3>2
      <4>1. PICK base \in Int, start \in Int, end \in Int, s \in Int :
              base = b.base /\ start = b.start /\ end = b.end /\ s = Slot(b, x)
        BY <1>1, <4>0
      <4>2. /\ index < start /\ end - index < n /\ n \in Nat /\ x \in index .. start - 1
            /\ start <= base /\ base <= end /\ end - start < n /\ s = x - base + n
        BY <1>1, <2>3, <3>2, <4>1
      <4>3. s \in 0 .. n - 1 /\ base + s \notin start .. end /\ base + s - n \notin start .. end
        BY ONLY <4>2, base \in Int, start \in Int, end \in Int, s \in Int, index \in Int, x \in Int
      <4> QED
        BY <4>1, <4>3
    <3>4. b.backing[Slot(b, x)] = 0
      BY <1>1, <3>3, EmptySlot
    <3> QED
      BY <1>2, <2>1, <3>1, <3>4 DEF Held
  <2>4. CASE x \notin index .. b.end
    BY <1>1, <1>2, <2>4 DEF Held
  <2> QED
    BY <1>1, <2>2, <2>3, <2>4
<1> QED
  BY <1>2, <1>4, <1>5 DEF w

LEMMA WidenUp ==
  ASSUME NEW b, NEW n, Ring(b, n), NEW index \in Int, index > b.end, index - b.start < n
  PROVE  LET w == [b EXCEPT !.end = index]
         IN /\ Ring(w, n)
            /\ w.start = b.start /\ w.end = index
            /\ \A x \in Int : Held(w, x) = Held(b, x)
<1> DEFINE w == [b EXCEPT !.end = index]
<1>1. /\ LooseRing(b, n)
      /\ b.base \in Int /\ b.start \in Int /\ b.end \in Int
      /\ b.backing \in [0 .. n - 1 -> Nat]
      /\ n \in Nat /\ n >= 1 /\ n <= MaxSize /\ Capacity(b) = n
      /\ b.start <= b.base /\ b.base <= b.end /\ b.end - b.start < n
  BY RingFacts
<1>2. /\ Sized(w, n) /\ w.base = b.base /\ w.start = b.start /\ w.end = index
      /\ w.backing = b.backing
  BY <1>1 DEF LooseRing, Sized
<1> HIDE DEF w
<1>3. ASSUME NEW s \in 0 .. n - 1
      PROVE  \/ w.backing[s] = 0
             \/ w.base + s \in w.start .. w.end
             \/ w.base + s - n \in w.start .. w.end
  <2>1. \/ b.backing[s] = 0
        \/ b.base + s \in b.start .. b.end
        \/ b.base + s - n \in b.start .. b.end
    BY <1>1 DEF LooseRing
  <2>2. b.start .. b.end \subseteq b.start .. index
    BY <1>1
  <2> QED
    BY <1>2, <2>1, <2>2
<1>4. Ring(w, n)
  <2>1. w.start <= w.base /\ w.base <= w.end /\ w.end - w.start < n
    BY <1>1, <1>2
  <2> QED
    BY <1>2, <1>3, <2>1, RingFrom
<1>5. ASSUME NEW x \in Int PROVE Held(w, x) = Held(b, x)
  <2>1. Slot(w, x) = Slot(b, x)
    BY <1>2 DEF Slot, Capacity
  <2>2. CASE x \in b.start .. b.end
    <3>1. x \in w.start .. w.end
      BY <1>1, <1>2, <2>2
    <3> QED
      BY <1>2, <2>1, <2>2, <3>1 DEF Held
  <2>3. CASE x \in b.end + 1 .. index
    <3>1. x \in w.start .. w.end /\ x \notin b.start .. b.end
      BY SMTT(30), <1>1, <1>2, <2>3
    <3>2. Slot(b, x) = x - b.base
      BY <1>1, <2>3 DEF Slot
    <3>3. /\ Slot(b, x) \in 0 .. n - 1
          /\ b.base + Slot(b, x) \notin b.start .. b.end
          /\ b.base + Slot(b, x) - n \notin b.start .. b.end
      <4>1. PICK base \in Int, start \in Int, end \in Int, s \in Int :
              base = b.base /\ start = b.start /\ end = b.end /\ s = Slot(b, x)
        BY <1>1, <3>2
      <4>2. /\ index > end /\ index - start < n /\ n \in Nat /\ x \in end + 1 .. index
            /\ start <= base /\ base <= end /\ end - start < n /\ s = x - base
        BY <1>1, <2>3, <3>2, <4>1
      <4>3. s \in 0 .. n - 1 /\ base + s \notin start .. end /\ base + s - n \notin start .. end
        BY ONLY <4>2, base \in Int, start \in Int, end \in Int, s \in Int, index \in Int, x \in Int
      <4> QED
        BY <4>1, <4>3
    <3>4. b.backing[Slot(b, x)] = 0
      BY <1>1, <3>3, EmptySlot
    <3> QED
      BY <1>2, <2>1, <3>1, <3>4 DEF Held
  <2>4. CASE x \notin b.start .. index
    BY <1>1, <1>2, <2>4 DEF Held
  <2> QED
    BY <1>1, <2>2, <2>3, <2>4
<1> QED
  BY <1>2, <1>4, <1>5 DEF w

LEMMA GrowToFacts ==
  ASSUME NEW b, NEW n, Ring(b, n), NEW span \in Nat, span < MaxSize
  PROVE  /\ \E m : Ring(GrowTo(b, span), m) /\ span < m
         /\ GrowTo(b, span).base = b.base
         /\ GrowTo(b, span).start = b.start /\ GrowTo(b, span).end = b.end
         /\ \A x : Held(GrowTo(b, span), x) = Held(b, x)
<1>1. n \in Nat /\ Capacity(b) = n /\ MaxSize \in Nat
  BY RingFacts, HistogramAssumption
<1>2. CASE span < n
  <2>1. GrowTo(b, span) = b
    BY <1>1, <1>2 DEF GrowTo
  <2> QED
    BY <1>2, <2>1
<1>3. CASE ~(span < n)
  <2>1. GrowTo(b, span) = Grow(b, span + 1)
    BY <1>1, <1>3 DEF GrowTo
  <2>2. span + 1 \in Nat /\ span + 1 > n /\ span + 1 <= MaxSize
    BY <1>1, <1>3
  <2>3. /\ \E m : Ring(Grow(b, span + 1), m) /\ m >= span + 1
        /\ Grow(b, span + 1).base = b.base
        /\ Grow(b, span + 1).start = b.start /\ Grow(b, span + 1).end = b.end
        /\ \A x : Held(Grow(b, span + 1), x) = Held(b, x)
    BY <2>2, GrowFacts
  <2>4. PICK m : Ring(Grow(b, span + 1), m) /\ m >= span + 1
    BY <2>3
  <2>5. span < m
    <3>1. m \in Nat
      BY <2>4, RingFacts
    <3> QED
      BY <2>4, <3>1
  <2> QED
    BY <2>1, <2>3, <2>4, <2>5
<1> QED
  BY <1>2, <1>3

\* There are buckets only if both ends hold something.
Tight(b) == Length(b) = 0 \/ (Held(b, b.start) > 0 /\ Held(b, b.end) > 0)

\* The buckets lie within [low, high].
Within(b, low, high) == Length(b) = 0 \/ (low <= b.start /\ b.end <= high)

\* Buckets without counts may be anywhere.
LEMMA PlaceEmpty ==
  ASSUME NEW b, NEW n, Ring(b, n), \A x : Held(b, x) = 0, NEW index \in Int
  PROVE  LET w == [b EXCEPT !.base = index, !.start = index, !.end = index]
         IN /\ Ring(w, n)
            /\ w.start = index /\ w.end = index
            /\ \A x \in Int : Held(w, x) = 0
<1> DEFINE w == [b EXCEPT !.base = index, !.start = index, !.end = index]
<1>1. /\ LooseRing(b, n)
      /\ b.base \in Int /\ b.start \in Int /\ b.end \in Int
      /\ b.backing \in [0 .. n - 1 -> Nat]
      /\ n \in Nat /\ n >= 1 /\ n <= MaxSize /\ Capacity(b) = n
      /\ b.start <= b.base /\ b.base <= b.end /\ b.end - b.start < n
  BY RingFacts
<1>2. /\ Sized(w, n) /\ w.base = index /\ w.start = index /\ w.end = index
      /\ w.backing = b.backing
  BY <1>1 DEF LooseRing, Sized
<1> HIDE DEF w
<1>5. \A s \in 0 .. n - 1 : w.backing[s] = 0
  <2> TAKE s \in 0 .. n - 1
  <2> SUFFICES ASSUME b.backing[s] # 0 PROVE FALSE
    BY <1>2
  <2>1. b.base + s \in b.start .. b.end \/ b.base + s - n \in b.start .. b.end
    BY <1>1 DEF LooseRing
  <2>2. \E x \in b.start .. b.end : Slot(b, x) = s
    <3>1. CASE b.base + s \in b.start .. b.end
      <4>1. ~(b.base + s < b.base) /\ b.base + s - b.base = s
        BY <1>1
      <4>2. PICK x \in b.start .. b.end : x = b.base + s
        BY <3>1
      <4>3. Slot(b, x) = s
        BY <1>1, <4>1, <4>2 DEF Slot
      <4> QED
        BY <4>3
    <3>2. CASE b.base + s - n \in b.start .. b.end
      <4>1. b.base + s - n < b.base /\ b.base + s - n - b.base + n = s
        BY <1>1
      <4>2. PICK x \in b.start .. b.end : x = b.base + s - n
        BY <3>2
      <4>3. Slot(b, x) = s
        BY <1>1, <4>1, <4>2 DEF Slot
      <4> QED
        BY <4>3
    <3> QED
      BY <2>1, <3>1, <3>2
  <2>3. PICK x \in b.start .. b.end : Slot(b, x) = s
    BY <2>2
  <2>4. Held(b, x) = b.backing[s]
    BY <2>3 DEF Held
  <2> QED
    BY <2>4
<1>6. Ring(w, n)
  <2>1. w.start <= w.base /\ w.base <= w.end /\ w.end - w.start < n
    BY <1>1, <1>2
  <2> QED
    BY <1>2, <1>5, <2>1, RingFrom
<1>7. ASSUME NEW x \in Int PROVE Held(w, x) = 0
  <2>1. CASE x = index
    <3>1. Slot(w, x) \in 0 .. n - 1 /\ Held(w, x) = w.backing[Slot(w, x)]
      <4>1. x \in w.start .. w.end /\ LooseRing(w, n)
        BY <1>2, <1>6, <2>1 DEF Ring
      <4> QED
        BY <4>1, SlotFacts
    <3> QED
      BY <1>5, <3>1
  <2>2. CASE x # index
    BY <1>2, <2>2 DEF Held
  <2> QED
    BY <2>1, <2>2
<1> QED
  BY <1>2, <1>6, <1>7 DEF w

\* w holds what b does, and has room for index.
Widened(w, b, index, low, high) ==
  /\ \E m : Ring(w, m)
  /\ \A x \in Int : Held(w, x) = Held(b, x)
  /\ w.start \in Int /\ w.end \in Int
  /\ low <= w.start /\ w.start <= index /\ index <= w.end /\ w.end <= high
  /\ w.start = index \/ (Length(b) # 0 /\ w.start = b.start)
  /\ w.end = index \/ (Length(b) # 0 /\ w.end = b.end)

LEMMA ReachingFacts ==
  ASSUME NEW b, NEW n, Ring(b, n), NEW low \in Int, NEW high \in Int, high - low < MaxSize,
         NEW index \in low .. high, Within(b, low, high)
  PROVE  Widened(Reaching(b, index), b, index, low, high)
<1>0. PICK w : w = Reaching(b, index)
  OBVIOUS
<1> SUFFICES Widened(w, b, index, low, high)
  BY <1>0
<1>1. /\ LooseRing(b, n)
      /\ b.base \in Int /\ b.start \in Int /\ b.end \in Int
      /\ n \in Nat /\ b.start <= b.base /\ b.base <= b.end /\ MaxSize \in Nat
  BY RingFacts, HistogramAssumption
<1>2. CASE Length(b) = 0
  <2>1. w = [b EXCEPT !.base = index, !.start = index, !.end = index]
    BY <1>0, <1>2 DEF Reaching
  <2>0. \A x : Held(b, x) = 0
    BY <1>1, <1>2, LengthFacts
  <2>2. \A x \in Int : Held(b, x) = 0
    BY <2>0
  <2>3. index \in Int /\ low <= index /\ index <= high /\ index <= index
    OBVIOUS
  <2>4. /\ Ring(w, n)
        /\ w.start = index /\ w.end = index
        /\ \A x \in Int : Held(w, x) = 0
    <3>1. LET e == [b EXCEPT !.base = index, !.start = index, !.end = index]
          IN /\ Ring(e, n)
             /\ e.start = index /\ e.end = index
             /\ \A x \in Int : Held(e, x) = 0
      BY <2>0, <2>3, PlaceEmpty
    <3> QED
      BY <2>1, <3>1
  <2>5. \A x \in Int : Held(w, x) = Held(b, x)
    BY <2>2, <2>4
  <2> QED
    BY <2>3, <2>4, <2>5 DEF Widened
<1>3. CASE Length(b) # 0
  <2>1. low <= b.start /\ b.end <= high
    BY <1>3 DEF Within
  <2>2. CASE index < b.start
    <3> DEFINE span == b.end - index
               g == GrowTo(b, span)
    <3>1. span \in Nat /\ span < MaxSize
      BY <1>1, <2>1, <2>2
    <3>2. w = [g EXCEPT !.start = index]
      <4>1. ~(index > b.end)
        BY <1>1, <2>2
      <4> QED
        BY <1>0, <1>3, <2>2, <4>1 DEF Reaching
    <3> HIDE DEF span
    <3>3. /\ g.start = b.start /\ g.end = b.end
          /\ \A x : Held(g, x) = Held(b, x)
      BY <3>1, GrowToFacts
    <3>4. PICK m : Ring(g, m) /\ span < m
      BY <3>1, GrowToFacts
    <3> HIDE DEF g
    <3>5. index \in Int /\ index < g.start /\ g.end - index < m
      BY <2>2, <3>3, <3>4 DEF span
    <3>6. /\ Ring(w, m) /\ w.start = index /\ w.end = g.end
          /\ \A x \in Int : Held(w, x) = Held(g, x)
      <4>1. LET e == [g EXCEPT !.start = index]
            IN /\ Ring(e, m)
               /\ e.start = index /\ e.end = g.end
               /\ \A x \in Int : Held(e, x) = Held(g, x)
        BY <3>4, <3>5, WidenDown
      <4> QED
        BY <3>2, <4>1
    <3>7. w.start \in Int /\ w.end \in Int /\ low <= w.start /\ w.start <= index /\ index <= w.end /\ w.end <= high
      BY <1>1, <2>1, <2>2, <3>3, <3>6
    <3>8. \A x \in Int : Held(w, x) = Held(b, x)
      BY <3>3, <3>6
    <3> QED
      BY <1>3, <3>3, <3>6, <3>7, <3>8 DEF Widened
  <2>3. CASE index > b.end
    <3> DEFINE span == index - b.start
               g == GrowTo(b, span)
    <3>1. span \in Nat /\ span < MaxSize
      BY <1>1, <2>1, <2>3
    <3>2. w = [g EXCEPT !.end = index]
      <4>1. ~(index < b.start)
        BY <1>1, <2>3
      <4> QED
        BY <1>0, <1>3, <2>3, <4>1 DEF Reaching
    <3> HIDE DEF span
    <3>3. /\ g.start = b.start /\ g.end = b.end
          /\ \A x : Held(g, x) = Held(b, x)
      BY <3>1, GrowToFacts
    <3>4. PICK m : Ring(g, m) /\ span < m
      BY <3>1, GrowToFacts
    <3> HIDE DEF g
    <3>5. index \in Int /\ index > g.end /\ index - g.start < m
      BY <2>3, <3>3, <3>4 DEF span
    <3>6. /\ Ring(w, m) /\ w.end = index /\ w.start = g.start
          /\ \A x \in Int : Held(w, x) = Held(g, x)
      <4>1. LET e == [g EXCEPT !.end = index]
            IN /\ Ring(e, m)
               /\ e.start = g.start /\ e.end = index
               /\ \A x \in Int : Held(e, x) = Held(g, x)
        BY <3>4, <3>5, WidenUp
      <4> QED
        BY <3>2, <4>1
    <3>7. w.start \in Int /\ w.end \in Int /\ low <= w.start /\ w.start <= index /\ index <= w.end /\ w.end <= high
      BY <1>1, <2>1, <2>3, <3>3, <3>6
    <3>8. \A x \in Int : Held(w, x) = Held(b, x)
      BY <3>3, <3>6
    <3> QED
      BY <1>3, <3>3, <3>6, <3>7, <3>8 DEF Widened
  <2>4. CASE ~(index < b.start) /\ ~(index > b.end)
    <3>1. w = b
      BY <1>0, <2>4, <1>3 DEF Reaching
    <3>2. low <= b.start /\ b.start <= index /\ index <= b.end /\ b.end <= high
      BY <1>1, <2>1, <2>4
    <3> QED
      BY <1>1, <1>3, <3>1, <3>2 DEF Widened
  <2> QED
    BY <2>2, <2>3, <2>4
<1> QED
  BY <1>2, <1>3

LEMMA SlotsDiffer ==
  ASSUME NEW b, NEW n, LooseRing(b, n), NEW x \in b.start .. b.end, NEW y \in b.start .. b.end,
         x # y
  PROVE  Slot(b, x) # Slot(b, y)
<1>1. /\ b.base \in Int /\ b.start \in Int /\ b.end \in Int /\ n \in Nat /\ b.end - b.start < n
  BY RingBounds
<1>2. PICK base \in Int, start \in Int, end \in Int :
        base = b.base /\ start = b.start /\ end = b.end
  BY <1>1
<1>3. /\ x \in Int /\ start <= x /\ x <= end
      /\ y \in Int /\ start <= y /\ y <= end /\ end - start < n
  BY <1>1, <1>2
<1>4. /\ Slot(b, x) = IF x < base THEN x - base + n ELSE x - base
      /\ Slot(b, y) = IF y < base THEN y - base + n ELSE y - base
  BY <1>2, SlotFacts
<1>5. (IF x < base THEN x - base + n ELSE x - base) # (IF y < base THEN y - base + n ELSE y - base)
  BY ONLY <1>1, <1>3, x # y, base \in Int, start \in Int, end \in Int
<1> QED
  BY <1>4, <1>5

\* A count is changed in its slot.
LEMMA CountChanged ==
  ASSUME NEW b, NEW n, Ring(b, n), NEW index \in b.start .. b.end, NEW v \in Nat,
         NEW c, c = [b EXCEPT !.backing[Slot(b, index)] = v]
  PROVE  /\ Ring(c, n) /\ c.start = b.start /\ c.end = b.end
         /\ \A x \in Int : Held(c, x) = IF x = index THEN v ELSE Held(b, x)
<1>1. /\ LooseRing(b, n)
      /\ b.base \in Int /\ b.start \in Int /\ b.end \in Int
      /\ b.backing \in [0 .. n - 1 -> Nat]
      /\ n \in Nat /\ n >= 1 /\ n <= MaxSize /\ Capacity(b) = n
      /\ b.start <= b.base /\ b.base <= b.end /\ b.end - b.start < n
  BY RingFacts
<1>2. /\ Slot(b, index) = IF index < b.base THEN index - b.base + n ELSE index - b.base
      /\ Slot(b, index) \in 0 .. n - 1
  BY <1>1, SlotFacts
<1>3. b \in [base : Int, start : Int, end : Int, backing : [0 .. n - 1 -> Nat]] /\ n \in 1 .. MaxSize
  BY <1>1 DEF LooseRing, Sized
<1>4. /\ c = [b EXCEPT !.backing = c.backing]
      /\ c.backing = [b.backing EXCEPT ![Slot(b, index)] = v]
  BY <1>3
<1>5. /\ Sized(c, n) /\ c.base = b.base /\ c.start = b.start /\ c.end = b.end
      /\ c.backing[Slot(b, index)] = v
      /\ \A s \in 0 .. n - 1 : s # Slot(b, index) => c.backing[s] = b.backing[s]
  BY <1>1, <1>2, <1>3, <1>4 DEF Sized
<1>6. ASSUME NEW s \in 0 .. n - 1
      PROVE  \/ c.backing[s] = 0
             \/ c.base + s \in c.start .. c.end
             \/ c.base + s - n \in c.start .. c.end
  <2>1. CASE s = Slot(b, index)
    <3>1. b.base + s = index \/ b.base + s - n = index
      BY SMTT(30), <1>1, <1>2, <2>1
    <3> QED
      BY <1>5, <3>1
  <2>2. CASE s # Slot(b, index)
    <3>1. \/ b.backing[s] = 0
          \/ b.base + s \in b.start .. b.end
          \/ b.base + s - n \in b.start .. b.end
      BY <1>1 DEF LooseRing
    <3> QED
      BY <1>5, <2>2, <3>1
  <2> QED
    BY <2>1, <2>2
<1>7. Ring(c, n)
  BY <1>1, <1>5, <1>6, RingFrom
<1>8. ASSUME NEW x \in Int PROVE Held(c, x) = IF x = index THEN v ELSE Held(b, x)
  <2>1. CASE x \notin b.start .. b.end
    BY <1>5, <2>1 DEF Held
  <2>2. CASE x \in b.start .. b.end
    <3>1. Capacity(c) = n
      BY <1>7, RingFacts
    <3>2. Slot(c, x) = Slot(b, x)
      BY <1>1, <1>5, <3>1 DEF Slot
    <3>3. Held(c, x) = c.backing[Slot(b, x)]
      BY <1>5, <2>2, <3>2 DEF Held
    <3>4. Held(b, x) = b.backing[Slot(b, x)] /\ Slot(b, x) \in 0 .. n - 1
      BY <1>1, <2>2, SlotFacts
    <3>5. x # index => Slot(b, x) # Slot(b, index)
      BY <1>1, <2>2, SlotsDiffer
    <3> QED
      BY <1>5, <3>3, <3>4, <3>5
  <2> QED
    BY <2>1, <2>2
<1> QED
  BY <1>5, <1>7, <1>8

TightRing(b) == (\E n : Ring(b, n)) /\ Tight(b)

LEMMA IncrementFacts ==
  ASSUME NEW b, TightRing(b), NEW low \in Int, NEW high \in Int, high - low < MaxSize,
         NEW index \in low .. high, Within(b, low, high), NEW increment \in Nat
  PROVE  /\ TightRing(IncrementIndexBy(b, index, increment))
         /\ Within(IncrementIndexBy(b, index, increment), low, high)
         /\ \A x \in Int : Held(IncrementIndexBy(b, index, increment), x)
                             = Held(b, x) + (IF x = index THEN increment ELSE 0)
<1>1. PICK n : Ring(b, n)
  BY DEF TightRing
<1>2. \A x : Held(b, x) \in Nat
  BY <1>1, HeldIsNat DEF Ring
<1>3. CASE increment = 0
  <2>1. IncrementIndexBy(b, index, increment) = b
    BY <1>3 DEF IncrementIndexBy
  <2>2. \A x \in Int : Held(b, x) = Held(b, x) + (IF x = index THEN increment ELSE 0)
    BY <1>2, <1>3
  <2> QED
    BY <2>1, <2>2
<1>4. CASE increment # 0
  <2>1. PICK w : w = Reaching(b, index)
    OBVIOUS
  <2>2. Widened(w, b, index, low, high)
    BY <1>1, <2>1, ReachingFacts
  <2>3. PICK m : Ring(w, m)
    BY <2>2 DEF Widened
  <2>4. /\ \A x \in Int : Held(w, x) = Held(b, x)
        /\ w.start \in Int /\ w.end \in Int
        /\ low <= w.start /\ w.start <= index /\ index <= w.end /\ w.end <= high
        /\ w.start = index \/ (Length(b) # 0 /\ w.start = b.start)
        /\ w.end = index \/ (Length(b) # 0 /\ w.end = b.end)
    BY <2>2 DEF Widened
  <2>5. index \in w.start .. w.end /\ index \in Int
    BY <2>4
  <2> DEFINE v == Held(w, index) + increment
  <2>6. v \in Nat
    BY <1>2, <2>4, <2>5
  <2>7. PICK c : c = [w EXCEPT !.backing[Slot(w, index)] = v]
    OBVIOUS
  <2>8. IncrementIndexBy(b, index, increment) = c
    <3>1. Held(w, index) = w.backing[Slot(w, index)]
      BY <2>5 DEF Held
    <3> QED
      BY <1>4, <2>1, <2>7, <3>1 DEF IncrementIndexBy
  <2> HIDE DEF v
  <2>9. /\ Ring(c, m) /\ c.start = w.start /\ c.end = w.end
        /\ \A x \in Int : Held(c, x) = IF x = index THEN v ELSE Held(w, x)
    BY <2>3, <2>5, <2>6, <2>7, CountChanged
  <2>10. \A x \in Int : Held(c, x) = Held(b, x) + (IF x = index THEN increment ELSE 0)
    <3> TAKE x \in Int
    <3>1. Held(c, x) = IF x = index THEN v ELSE Held(w, x)
      BY <2>9
    <3>2. Held(w, x) = Held(b, x) /\ Held(b, x) \in Nat
      BY <1>2, <2>4
    <3> QED
      BY <3>1, <3>2 DEF v
  <2>11. Held(c, c.start) > 0 /\ Held(c, c.end) > 0
    <3>1. Length(b) # 0 => Held(b, b.start) > 0 /\ Held(b, b.end) > 0
      BY DEF TightRing, Tight
    <3>2. Held(c, index) = Held(b, index) + increment
      BY <2>5, <2>10
    <3>3. Held(c, index) > 0 /\ Held(b, index) \in Nat
      BY <1>2, <1>4, <3>2
    <3>4. \A x \in Int : Held(b, x) > 0 => Held(c, x) > 0
      BY <1>2, <2>10
    <3>5. c.start \in Int /\ c.end \in Int
      BY <2>4, <2>9
    <3> QED
      BY <2>4, <2>9, <3>1, <3>3, <3>4, <3>5
  <2> QED
    BY <2>4, <2>8, <2>9, <2>10, <2>11 DEF TightRing, Tight, Within
<1> QED
  BY <1>3, <1>4

\* A count that is large enough is taken down by the decrement.
LEMMA DecrementFacts ==
  ASSUME NEW b, NEW n, Ring(b, n), NEW index \in b.start .. b.end, NEW decrement \in Nat,
         decrement <= Held(b, index)
  PROVE  /\ Ring(Decrement(b, index, decrement), n)
         /\ Decrement(b, index, decrement).start = b.start
         /\ Decrement(b, index, decrement).end = b.end
         /\ \A x \in Int : Held(Decrement(b, index, decrement), x)
                             = Held(b, x) - (IF x = index THEN decrement ELSE 0)
<1>1. LooseRing(b, n) /\ b.start \in Int /\ b.end \in Int /\ b.backing \in [0 .. n - 1 -> Nat]
  BY RingFacts
<1>2. /\ Slot(b, index) \in 0 .. n - 1 /\ Held(b, index) = b.backing[Slot(b, index)]
      /\ Held(b, index) \in Nat
  BY <1>1, SlotFacts
<1> DEFINE v == Held(b, index) - decrement
<1>3. v \in Nat
  BY <1>2
<1>4. PICK c : c = [b EXCEPT !.backing[Slot(b, index)] = v]
  OBVIOUS
<1>5. Decrement(b, index, decrement) = c
  <2>1. Slot(b, index) \in DOMAIN b.backing /\ b.backing[Slot(b, index)] >= decrement
    BY <1>1, <1>2
  <2> QED
    BY <1>2, <1>4, <2>1 DEF Decrement
<1> HIDE DEF v
<1>6. /\ Ring(c, n) /\ c.start = b.start /\ c.end = b.end
      /\ \A x \in Int : Held(c, x) = IF x = index THEN v ELSE Held(b, x)
  BY <1>3, <1>4, CountChanged
<1>7. \A x \in Int : Held(c, x) = Held(b, x) - (IF x = index THEN decrement ELSE 0)
  <2> TAKE x \in Int
  <2>1. Held(c, x) = IF x = index THEN v ELSE Held(b, x)
    BY <1>6
  <2>2. Held(b, x) \in Nat
    BY <1>1, HeldIsNat
  <2> QED
    BY <1>2, <2>1, <2>2 DEF v
<1> QED
  BY <1>5, <1>6, <1>7

-------------------------------------------------------------------------------
\* Trimming

LEMMA MinMaxFacts ==
  ASSUME NEW S, S \subseteq Int, S # {}, NEW low \in Int, NEW high \in Int,
         \A x \in S : low <= x /\ x <= high
  PROVE  /\ Min(S) \in S /\ \A x \in S : Min(S) <= x
         /\ Max(S) \in S /\ \A x \in S : x <= Max(S)
<1> DEFINE Up == {x - low : x \in S}
           Down == {high - x : x \in S}
<1>1. Up \subseteq Nat /\ Up # {} /\ Down \subseteq Nat /\ Down # {}
  <2>1. PICK x : x \in S
    OBVIOUS
  <2>2. x - low \in Up /\ high - x \in Down
    BY <2>1
  <2>3. \A y \in S : y - low \in Nat /\ high - y \in Nat
    <3> TAKE y \in S
    <3>1. y \in Int /\ low <= y /\ y <= high
      OBVIOUS
    <3> QED
      BY <3>1
  <2> QED
    BY <2>2, <2>3
<1>2. \E u \in Up : \A v \in Up : u <= v
  <2> HIDE DEF Up
  <2> QED
    BY <1>1, NatHasLeast
<1>3. \E u \in Down : \A v \in Down : u <= v
  <2> HIDE DEF Down
  <2> QED
    BY <1>1, NatHasLeast
<1>4. \E x \in S : \A y \in S : x <= y
  <2>1. PICK x \in S : \A v \in Up : x - low <= v
    BY <1>2
  <2>2. \A y \in S : x <= y
    <3> TAKE y \in S
    <3>1. x - low <= y - low /\ x \in Int /\ y \in Int
      BY <2>1
    <3> QED
      BY <3>1
  <2> QED
    BY <2>2
<1>5. \E x \in S : \A y \in S : y <= x
  <2>1. PICK x \in S : \A v \in Down : high - x <= v
    BY <1>3
  <2>2. \A y \in S : y <= x
    <3> TAKE y \in S
    <3>1. high - x <= high - y /\ x \in Int /\ y \in Int
      BY <2>1
    <3> QED
      BY <3>1
  <2> QED
    BY <2>2
<1>6. Min(S) \in S /\ \A y \in S : Min(S) <= y
  BY <1>4 DEF Min
<1>7. Max(S) \in S /\ \A y \in S : Max(S) >= y
  <2>1. \E x \in S : \A y \in S : x >= y
    <3>1. \A x, y \in S : y <= x => x >= y
      OBVIOUS
    <3> QED
      BY <1>5, <3>1
  <2> QED
    BY <2>1 DEF Max
<1>8. \A y \in S : y <= Max(S)
  BY <1>7
<1> QED
  BY <1>6, <1>7, <1>8

\* Trimming changes no count, and leaves an end only where there is one.
LEMMA TrimFacts ==
  ASSUME NEW b, NEW n, Ring(b, n)
  PROVE  /\ TightRing(Trim(b))
         /\ \A x \in Int : Held(Trim(b), x) = Held(b, x)
<1> DEFINE used == {i \in Positions(b) : At(b, i) # 0}
<1>1. /\ LooseRing(b, n)
      /\ b.base \in Int /\ b.start \in Int /\ b.end \in Int
      /\ b.backing \in [0 .. n - 1 -> Nat]
      /\ n \in Nat /\ n >= 1 /\ n <= MaxSize /\ Capacity(b) = n
      /\ b.start <= b.base /\ b.base <= b.end /\ b.end - b.start < n
  BY RingFacts
<1>2. CASE Length(b) = 0
  <2>1. Trim(b) = Rotate(b)
    BY <1>2 DEF Trim
  <2>2. /\ Ring(Rotate(b), n)
        /\ Rotate(b).start = b.start /\ Rotate(b).end = b.end
        /\ \A x : Held(Rotate(b), x) = Held(b, x)
    BY <1>1, RotateFacts
  <2>3. Length(Rotate(b)) = 0
    <3>1. b.start = b.end /\ Held(b, b.start) = 0
      BY <1>1, <1>2, LengthFacts
    <3>2. LooseRing(Rotate(b), n)
      BY <2>2 DEF Ring
    <3> QED
      BY <2>2, <3>1, <3>2, LengthFacts
  <2> QED
    BY <2>1, <2>2, <2>3 DEF TightRing, Tight
<1>3. ASSUME Length(b) # 0
      PROVE  /\ Positions(b) = 0 .. b.end - b.start
             /\ \A i \in 0 .. b.end - b.start : At(b, i) = Held(b, b.start + i)
  <2>1. Length(b) = b.end - b.start + 1
    BY <1>1, <1>3, LengthFacts
  <2>2. b.end - b.start + 1 - 1 = b.end - b.start
    BY <1>1
  <2> QED
    BY <1>1, <2>1, <2>2, AtIsHeld DEF Positions
<1>4. ASSUME Length(b) # 0, NEW x \in Int, Held(b, x) # 0
      PROVE  x - b.start \in used /\ x \in b.start .. b.end
  <2>1. x \in b.start .. b.end
    BY <1>4 DEF Held
  <2>2. x - b.start \in 0 .. b.end - b.start /\ b.start + (x - b.start) = x
    BY <1>1, <2>1
  <2>3. At(b, x - b.start) # 0
    BY <1>3, <1>4, <2>2
  <2> QED
    BY <1>3, <1>4, <2>1, <2>2, <2>3
<1>5. CASE Length(b) # 0 /\ used = {}
  <2>1. Trim(b) = [b EXCEPT !.base = 0, !.start = 0, !.end = 0]
    BY <1>5 DEF Trim
  <2>2. \A x : Held(b, x) = 0
    <3> TAKE x
    <3>1. CASE x \in b.start .. b.end
      BY <1>1, <1>4, <1>5, <3>1
    <3>2. CASE x \notin b.start .. b.end
      BY <3>2 DEF Held
    <3> QED
      BY <3>1, <3>2
  <2>3. LET e == [b EXCEPT !.base = 0, !.start = 0, !.end = 0]
        IN /\ Ring(e, n)
           /\ e.start = 0 /\ e.end = 0
           /\ \A x \in Int : Held(e, x) = 0
    <3>1. 0 \in Int
      OBVIOUS
    <3> QED
      BY <2>2, <3>1, PlaceEmpty
  <2>4. PICK e : e = Trim(b)
    OBVIOUS
  <2>5. /\ Ring(e, n) /\ e.start = 0 /\ e.end = 0
        /\ \A x \in Int : Held(e, x) = 0
    BY <2>1, <2>3, <2>4
  <2>6. Length(e) = 0
    <3>1. LooseRing(e, n) /\ e.start = e.end /\ Held(e, e.start) = 0
      BY <2>5 DEF Ring
    <3> QED
      BY <3>1, LengthFacts
  <2> QED
    BY <2>2, <2>4, <2>5, <2>6 DEF TightRing, Tight
<1>6. CASE Length(b) # 0 /\ used # {}
  <2> DEFINE lo == Min(used)
             hi == Max(used)
  <2>1. \A i \in used : i \in Int /\ 0 <= i /\ i <= b.end - b.start /\ Held(b, b.start + i) # 0
    BY <1>1, <1>3, <1>6
  <2>2. /\ lo \in used /\ \A i \in used : lo <= i
        /\ hi \in used /\ \A i \in used : i <= hi
    <3>1. used \subseteq Int /\ 0 \in Int /\ b.end - b.start \in Int
      BY <1>1, <2>1
    <3>2. \A i \in used : 0 <= i /\ i <= b.end - b.start
      BY <2>1
    <3> HIDE DEF used
    <3> QED
      BY <1>6, <3>1, <3>2, MinMaxFacts
  <2>3. PICK t : t = [b EXCEPT !.start = b.start + lo, !.end = b.start + hi]
    OBVIOUS
  <2>4. Trim(b) = Rotate(t)
    BY <1>6, <2>3 DEF Trim
  <2>5. /\ lo \in Int /\ hi \in Int /\ 0 <= lo /\ lo <= hi /\ hi <= b.end - b.start
        /\ Held(b, b.start + lo) # 0 /\ Held(b, b.start + hi) # 0
    BY <2>1, <2>2
  <2>6. ASSUME NEW x \in Int, Held(b, x) # 0
        PROVE  b.start + lo <= x /\ x <= b.start + hi
    <3>1. x - b.start \in used
      BY <1>4, <1>6, <2>6
    <3>2. lo <= x - b.start /\ x - b.start <= hi
      BY <2>2, <3>1
    <3> HIDE DEF lo, hi, used
    <3> QED
      BY <1>1, <2>5, <3>2
  <2> HIDE DEF lo, hi, used
  <2>7. /\ Sized(t, n) /\ t.base = b.base /\ t.start = b.start + lo /\ t.end = b.start + hi
        /\ t.backing = b.backing
    <3>1. b \in [base : Int, start : Int, end : Int, backing : [0 .. n - 1 -> Nat]] /\ n \in 1 .. MaxSize
      BY <1>1 DEF LooseRing, Sized
    <3>2. PICK x \in Int, y \in Int : x = b.start + lo /\ y = b.start + hi
      <4>1. b.start + lo \in Int /\ b.start + hi \in Int
        BY <1>1, <2>5
      <4> QED
        BY <4>1
    <3>3. t = [b EXCEPT !.start = x, !.end = y]
      BY <2>3, <3>2
    <3>4. /\ t \in [base : Int, start : Int, end : Int, backing : [0 .. n - 1 -> Nat]]
          /\ t.base = b.base /\ t.start = x /\ t.end = y /\ t.backing = b.backing
      BY <3>1, <3>3
    <3> QED
      BY <3>1, <3>2, <3>4 DEF Sized
  <2>8. ASSUME NEW s \in 0 .. n - 1
        PROVE  \/ t.backing[s] = 0
               \/ t.base + s \in t.start .. t.end
               \/ t.base + s - n \in t.start .. t.end
    <3> SUFFICES ASSUME b.backing[s] # 0
                 PROVE  \/ t.base + s \in t.start .. t.end
                        \/ t.base + s - n \in t.start .. t.end
      BY <2>7
    <3>1. \/ b.base + s \in b.start .. b.end
          \/ b.base + s - n \in b.start .. b.end
      BY <1>1 DEF LooseRing
    <3>2. CASE b.base + s \in b.start .. b.end
      <4>1. PICK x \in Int : x = b.base + s
        BY <1>1
      <4>2. Slot(b, x) = s
        BY <1>1, <4>1 DEF Slot
      <4>3. Held(b, x) # 0
        BY <3>2, <4>1, <4>2 DEF Held
      <4>4. b.start + lo <= x /\ x <= b.start + hi
        BY <2>6, <4>3
      <4> QED
        BY <1>1, <2>5, <2>7, <4>1, <4>4
    <3>3. CASE b.base + s - n \in b.start .. b.end
      <4>1. PICK x \in Int : x = b.base + s - n
        BY <1>1
      <4>2. Slot(b, x) = s
        <5>1. x < b.base /\ x - b.base + n = s
          BY SMTT(30), <1>1, <4>1
        <5> QED
          BY <1>1, <5>1 DEF Slot
      <4>3. Held(b, x) # 0
        BY <3>3, <4>1, <4>2 DEF Held
      <4>4. b.start + lo <= x /\ x <= b.start + hi
        BY <2>6, <4>3
      <4> QED
        BY <1>1, <2>5, <2>7, <4>1, <4>4
    <3> QED
      BY <3>1, <3>2, <3>3
  <2>9. LooseRing(t, n)
    <3>1. /\ t.start <= t.end /\ t.end - t.start < n
          /\ t.base - n <= t.start /\ t.end <= t.base + n - 1
      <4>1. PICK base \in Int, start \in Int, end \in Int, l \in Int, h \in Int :
              base = b.base /\ start = b.start /\ end = b.end /\ l = lo /\ h = hi
        BY <1>1, <2>5
      <4>2. /\ 0 <= l /\ l <= h /\ h <= end - start /\ n \in Nat
            /\ start <= base /\ base <= end /\ end - start < n
        BY <1>1, <2>5, <4>1
      <4>3. /\ start + l <= start + h /\ start + h - (start + l) < n
            /\ base - n <= start + l /\ start + h <= base + n - 1
        BY ONLY <4>2, base \in Int, start \in Int, end \in Int, l \in Int, h \in Int
      <4> QED
        BY <2>7, <4>1, <4>3
    <3> QED
      BY <2>7, <2>8, <3>1 DEF LooseRing
  <2>10. \A x \in Int : Held(t, x) = Held(b, x)
    <3> TAKE x \in Int
    <3>1. Slot(t, x) = Slot(b, x)
      BY <2>7 DEF Slot, Capacity
    <3>2. CASE x \in t.start .. t.end
      <4>1. x \in b.start .. b.end
        BY <1>1, <2>5, <2>7, <3>2
      <4> QED
        BY <2>7, <3>1, <3>2, <4>1 DEF Held
    <3>3. CASE x \notin t.start .. t.end
      <4>1. Held(t, x) = 0
        BY <3>3 DEF Held
      <4>2. Held(b, x) = 0
        BY <1>1, <2>5, <2>6, <2>7, <3>3
      <4> QED
        BY <4>1, <4>2
    <3> QED
      BY <3>2, <3>3
  <2>11. /\ Ring(Rotate(t), n)
         /\ Rotate(t).start = t.start /\ Rotate(t).end = t.end
         /\ \A x : Held(Rotate(t), x) = Held(t, x)
    BY <2>9, RotateFacts
  <2>12. Held(t, t.start) > 0 /\ Held(t, t.end) > 0
    <3>1. t.start \in Int /\ t.end \in Int
      BY <1>1, <2>5, <2>7
    <3>2. Held(t, t.start) \in Nat /\ Held(t, t.end) \in Nat
      BY <2>9, HeldIsNat
    <3>3. Held(t, t.start) # 0 /\ Held(t, t.end) # 0
      BY <2>5, <2>7, <2>10, <3>1
    <3> QED
      BY <3>2, <3>3
  <2> QED
    BY <2>4, <2>10, <2>11, <2>12 DEF TightRing, Tight
<1> QED
  BY <1>2, <1>5, <1>6

-------------------------------------------------------------------------------
\* Scaling down

HeldBy(b) == [x \in b.start .. b.end |-> Held(b, x)]

\* The indexes that fall together into index y.
Together(b, by, y) == {x \in b.start .. b.end : Shr(x, by) = y}

LEMMA TogetherFacts ==
  ASSUME NEW b, NEW n, LooseRing(b, n), NEW by, NEW y
  PROVE  /\ IsFiniteSet(b.start .. b.end) /\ IsFiniteSet(Together(b, by, y))
         /\ \A x \in b.start .. b.end : HeldBy(b)[x] \in Nat
         /\ \A x \in Together(b, by, y) : HeldBy(b)[x] \in Nat
         /\ SumFunctionOnSet(HeldBy(b), Together(b, by, y)) \in Nat
<1>1. b.start \in Int /\ b.end \in Int
  BY RingBounds
<1>2. IsFiniteSet(b.start .. b.end)
  BY <1>1, FS_Interval
<1>3. Together(b, by, y) \in SUBSET (b.start .. b.end)
  BY DEF Together
<1>4. IsFiniteSet(Together(b, by, y))
  BY <1>2, <1>3, FS_Subset
<1>5. \A x \in b.start .. b.end : HeldBy(b)[x] \in Nat
  BY HeldIsNat DEF HeldBy
<1>6. \A x \in Together(b, by, y) : HeldBy(b)[x] \in Nat
  BY <1>3, <1>5
<1>7. SumFunctionOnSet(HeldBy(b), Together(b, by, y)) \in Nat
  BY <1>4, <1>6, SumIsNat
<1> QED
  BY <1>2, <1>4, <1>5, <1>6, <1>7

\* Scaled down, the buckets hold for an index what all that fall into it held.
LEMMA DownscaleFacts ==
  ASSUME NEW b, TightRing(b), NEW by \in 0 .. 31
  PROVE  /\ TightRing(DownscaleBuckets(b, by))
         /\ DownscaleBuckets(b, by).start = Shr(b.start, by)
         /\ DownscaleBuckets(b, by).end = Shr(b.end, by)
         /\ Length(DownscaleBuckets(b, by)) = 0 <=> Length(b) = 0
         /\ \A y \in Int : Held(DownscaleBuckets(b, by), y)
                             = SumFunctionOnSet(HeldBy(b), Together(b, by, y))
<1>1. PICK n : Ring(b, n)
  BY DEF TightRing
<1>2. /\ LooseRing(b, n)
      /\ b.base \in Int /\ b.start \in Int /\ b.end \in Int
      /\ n \in Nat /\ n >= 1 /\ n <= MaxSize
      /\ b.start <= b.end /\ b.end - b.start < n
  <2>1. /\ LooseRing(b, n)
        /\ b.base \in Int /\ b.start \in Int /\ b.end \in Int
        /\ n \in Nat /\ n >= 1 /\ n <= MaxSize
        /\ b.start <= b.base /\ b.base <= b.end /\ b.end - b.start < n
    BY <1>1, RingFacts
  <2> QED
    BY <2>1
<1>3. PICK ring : ring = Rotate(b).backing
  OBVIOUS
<1>4. /\ ring \in [0 .. n - 1 -> Nat]
      /\ \A i \in 0 .. n - 1 :
           ring[i] = IF i <= b.end - b.start THEN Held(b, b.start + i) ELSE 0
  <2>1. /\ Ring(Rotate(b), n)
        /\ \A i \in 0 .. n - 1 :
             Rotate(b).backing[i] = IF i <= b.end - b.start THEN Held(b, b.start + i) ELSE 0
    BY <1>2, RotateFacts
  <2>2. Rotate(b).backing \in [0 .. n - 1 -> Nat]
    BY <2>1, RingFacts
  <2> QED
    BY <1>3, <2>1, <2>2
<1>5. PICK low \in Int, high \in Int : low = Shr(b.start, by) /\ high = Shr(b.end, by)
  BY <1>2, ShrIsDiv
<1>6. low <= high /\ high - low <= b.end - b.start
  BY <1>2, <1>5, ShrMonotone, ShrNarrows
<1> DEFINE size == b.end - b.start + 1
           From(j) == {i \in 0 .. size - 1 : Shr(b.start + i, by) - low = j}
           Sum(y) == SumFunctionOnSet(HeldBy(b), Together(b, by, y))
           backing == [j \in 0 .. n - 1 |->
                         IF j < size THEN SumFunctionOnSet(ring, From(j)) ELSE ring[j]]
<1>7. PICK d : d = DownscaleBuckets(b, by)
  OBVIOUS
<1>8. d = [base |-> low, start |-> low, end |-> high, backing |-> backing]
  BY <1>3, <1>4, <1>5, <1>7 DEF DownscaleBuckets
<1>9. \A x \in b.start .. b.end : Shr(x, by) \in Int /\ low <= Shr(x, by) /\ Shr(x, by) <= high
  <2> TAKE x \in b.start .. b.end
  <2>1. x \in Int /\ b.start <= x /\ x <= b.end
    BY <1>2
  <2> QED
    BY <1>2, <1>5, <2>1, ShrMonotone, ShrIsDiv
<1>10. ASSUME NEW j \in 0 .. n - 1 PROVE SumFunctionOnSet(ring, From(j)) = Sum(low + j)
  <2>1. {b.start + i : i \in From(j)} = Together(b, by, low + j)
    <3>1. ASSUME NEW i \in From(j) PROVE b.start + i \in Together(b, by, low + j)
      <4>1. b.start + i \in b.start .. b.end /\ Shr(b.start + i, by) - low = j
        BY <1>2
      <4>2. Shr(b.start + i, by) = low + j
        BY <1>9, <4>1
      <4> QED
        BY <4>1, <4>2 DEF Together
    <3>2. ASSUME NEW x \in Together(b, by, low + j) PROVE x \in {b.start + i : i \in From(j)}
      <4>1. x \in b.start .. b.end /\ Shr(x, by) = low + j
        BY DEF Together
      <4>2. x - b.start \in 0 .. size - 1 /\ b.start + (x - b.start) = x
        BY <1>2, <4>1
      <4>3. Shr(b.start + (x - b.start), by) - low = j
        BY <4>1, <4>2
      <4> QED
        BY <4>2, <4>3
    <3> HIDE DEF From
    <3> QED
      BY <3>1, <3>2
  <2>2. IsFiniteSet(From(j)) /\ From(j) \subseteq 0 .. size - 1
    <3>1. From(j) \in SUBSET (0 .. size - 1) /\ size - 1 \in Int /\ 0 \in Int
      BY <1>2
    <3> HIDE DEF From, size
    <3> QED
      BY <3>1, FS_Interval, FS_Subset
  <2>3. ASSUME NEW i \in From(j) PROVE ring[i] \in Int /\ HeldBy(b)[b.start + i] = ring[i]
    <3>1. i \in 0 .. n - 1 /\ i <= b.end - b.start /\ b.start + i \in b.start .. b.end
      BY <1>2, <2>2
    <3> HIDE DEF From
    <3> QED
      BY <1>4, <3>1 DEF HeldBy
  <2>4. From(j) \subseteq Int
    BY <1>2
  <2> HIDE DEF From
  <2> QED
    BY SMTT(30), <1>2, <2>1, <2>2, <2>3, <2>4, SumShifted
<1>11. ASSUME NEW y \in Int PROVE Sum(y) \in Nat /\ (y \notin low .. high => Sum(y) = 0)
  <2>1. Sum(y) \in Nat
    BY <1>2, TogetherFacts
  <2>2. ASSUME y \notin low .. high PROVE Sum(y) = 0
    <3>1. Together(b, by, y) = {}
      BY <1>9, <2>2 DEF Together
    <3> QED
      BY <3>1, SumOfEmpty
  <2> QED
    BY <2>1, <2>2
<1> HIDE DEF From, Sum
<1>12. \A j \in 0 .. n - 1 : backing[j] = Sum(low + j)
  <2> TAKE j \in 0 .. n - 1
  <2>1. CASE j < size
    BY <1>10, <2>1
  <2>2. CASE ~(j < size)
    <3>1. ring[j] = 0 /\ low + j \notin low .. high
      BY <1>2, <1>4, <1>6, <2>2
    <3> QED
      BY <1>11, <2>2, <3>1
  <2> QED
    BY <2>1, <2>2
<1>13. backing \in [0 .. n - 1 -> Nat]
  <2>1. \A j \in 0 .. n - 1 : low + j \in Int
    BY <1>2
  <2>2. \A j \in 0 .. n - 1 : backing[j] \in Nat
    BY <1>11, <1>12, <2>1
  <2>3. backing = [j \in 0 .. n - 1 |-> backing[j]]
    OBVIOUS
  <2> HIDE DEF backing
  <2> QED
    BY <2>2, <2>3
<1> HIDE DEF backing
<1>14. Sized(d, n) /\ d.base = low /\ d.start = low /\ d.end = high /\ d.backing = backing
  <2>1. n \in 1 .. MaxSize
    BY <1>2 DEF LooseRing, Sized
  <2> QED
    BY <1>8, <1>13, <2>1 DEF Sized
<1>15. Ring(d, n)
  <2>1. ASSUME NEW s \in 0 .. n - 1
        PROVE  \/ d.backing[s] = 0
               \/ d.base + s \in d.start .. d.end
               \/ d.base + s - n \in d.start .. d.end
    <3>1. low + s \in Int
      BY <1>2
    <3> QED
      BY <1>11, <1>12, <1>14, <3>1
  <2>2. d.start <= d.base /\ d.base <= d.end /\ d.end - d.start < n
    BY <1>2, <1>6, <1>14
  <2> QED
    BY <1>14, <2>1, <2>2, RingFrom
<1>16. ASSUME NEW y \in Int PROVE Held(d, y) = Sum(y)
  <2>1. CASE y \in low .. high
    <3>1. Capacity(d) = n
      BY <1>15, RingFacts
    <3>2. Slot(d, y) = y - low /\ y - low \in 0 .. n - 1 /\ low + (y - low) = y
      BY <1>2, <1>6, <1>14, <2>1 DEF Slot
    <3>3. Held(d, y) = backing[y - low]
      BY <1>14, <2>1, <3>2 DEF Held
    <3> QED
      BY <1>12, <3>2, <3>3
  <2>2. CASE y \notin low .. high
    BY <1>11, <1>14, <2>2 DEF Held
  <2> QED
    BY <2>1, <2>2
<1>17. ASSUME Length(b) = 0 PROVE Length(d) = 0
  <2>1. b.start = b.end /\ \A x : Held(b, x) = 0
    BY <1>2, <1>17, LengthFacts
  <2>2. low = high
    BY <1>5, <2>1
  <2>3. Sum(low) = 0
    <3>1. \A x \in Together(b, by, low) : HeldBy(b)[x] = 0
      BY <2>1 DEF Together, HeldBy
    <3>2. /\ IsFiniteSet(Together(b, by, low))
          /\ \A x \in Together(b, by, low) : HeldBy(b)[x] \in Int
      BY <1>2, TogetherFacts
    <3>3. SumFunctionOnSet(HeldBy(b), {}) = SumFunctionOnSet(HeldBy(b), Together(b, by, low))
      <4>1. {} \in SUBSET Together(b, by, low)
            /\ \A x \in Together(b, by, low) \ {} : HeldBy(b)[x] = 0
        BY <3>1
      <4> QED
        BY <3>2, <4>1, SumWithZeros
    <3> QED
      BY <3>3, SumOfEmpty DEF Sum
  <2>4. Held(d, low) = 0
    BY <1>16, <2>3
  <2>5. LooseRing(d, n) /\ d.start = d.end /\ Held(d, d.start) = 0
    BY <1>14, <1>15, <2>2, <2>4 DEF Ring
  <2> QED
    BY <2>5, LengthFacts
<1>18. ASSUME Length(b) # 0 PROVE Held(d, low) > 0 /\ Held(d, high) > 0 /\ Length(d) # 0
  <2>1. Held(b, b.start) > 0 /\ Held(b, b.end) > 0
    BY <1>18 DEF TightRing, Tight
  <2>2. ASSUME NEW x \in {b.start, b.end} PROVE Held(d, Shr(x, by)) > 0
    <3>1. x \in Together(b, by, Shr(x, by)) /\ HeldBy(b)[x] = Held(b, x)
      BY <1>2 DEF Together, HeldBy
    <3>2. /\ IsFiniteSet(Together(b, by, Shr(x, by)))
          /\ \A z \in Together(b, by, Shr(x, by)) : HeldBy(b)[z] \in Nat
          /\ SumFunctionOnSet(HeldBy(b), Together(b, by, Shr(x, by))) \in Nat
      BY <1>2, TogetherFacts
    <3>3. HeldBy(b)[x] <= Sum(Shr(x, by))
      BY <3>1, <3>2, SumOfElement DEF Sum
    <3>4. Held(d, Shr(x, by)) = Sum(Shr(x, by))
      <4>1. Shr(x, by) \in Int
        BY <1>2, ShrIsDiv
      <4> QED
        BY <1>16, <4>1
    <3>5. Held(b, x) > 0 /\ Held(b, x) \in Nat /\ Sum(Shr(x, by)) \in Nat
      BY <1>2, <2>1, <3>2, HeldIsNat DEF Sum
    <3> QED
      BY <3>1, <3>3, <3>4, <3>5
  <2>3. Held(d, low) > 0 /\ Held(d, high) > 0
    BY <1>5, <2>2
  <2>4. Length(d) # 0
    <3>1. LooseRing(d, n)
      BY <1>15 DEF Ring
    <3>2. Held(d, d.start) # 0
      BY <1>14, <2>3
    <3> QED
      BY <3>1, <3>2, LengthFacts
  <2> QED
    BY <2>3, <2>4
<1>19. TightRing(d)
  BY <1>14, <1>15, <1>17, <1>18 DEF TightRing, Tight
<1> QED
  BY <1>5, <1>7, <1>14, <1>16, <1>17, <1>18, <1>19 DEF Sum

-------------------------------------------------------------------------------
\* Buckets that count the values of a bag

\* The values of a side whose index is x once they are shifted by d.
Falling(side, d, x) == {v \in OfSide(side) : Shr(v.index, d) = x}

Bags == [Values -> Nat]

\* At d places less than the largest scale.
Counts(b, bag, side, d) ==
  /\ TightRing(b)
  /\ \A x \in Int : Held(b, x) = Total(bag, Falling(side, d, x))

LEMMA ValuesFacts ==
  /\ IsFiniteSet(Values)
  /\ Zero \in Values /\ Zero \notin OfSide("positive") /\ Zero \notin OfSide("negative")
  /\ \A side \in Sides :
       /\ OfSide(side) \subseteq Values /\ IsFiniteSet(OfSide(side))
       /\ \A v \in OfSide(side) : v.index \in Int /\ Shr(v.index, 30) \in {-1, 0}
  /\ Values = {Zero} \cup OfSide("positive") \cup OfSide("negative")
  /\ OfSide("positive") \cap OfSide("negative") = {}
<1> DEFINE pos == [side : {"positive"}, index : Positives]
           neg == [side : {"negative"}, index : Negatives]
           P == [i \in Positives |-> [side |-> "positive", index |-> i]]
           N == [i \in Negatives |-> [side |-> "negative", index |-> i]]
<1>1. pos = {P[x] : x \in Positives}
  <2>1. \A v \in pos : v.index \in Positives /\ v = P[v.index]
    OBVIOUS
  <2>2. \A x \in Positives : P[x] \in pos
    OBVIOUS
  <2> HIDE DEF pos, neg, P, N
  <2> QED
    BY <2>1, <2>2
<1>2. neg = {N[x] : x \in Negatives}
  <2>1. \A v \in neg : v.index \in Negatives /\ v = N[v.index]
    OBVIOUS
  <2>2. \A x \in Negatives : N[x] \in neg
    OBVIOUS
  <2> HIDE DEF pos, neg, P, N
  <2> QED
    BY <2>1, <2>2
<1>3. IsFiniteSet(pos) /\ IsFiniteSet(neg)
  <2> HIDE DEF pos, neg, P, N
  <2> QED
    BY <1>1, <1>2, HistogramAssumption, FiniteImage
<1>4. Values = {Zero} \cup pos \cup neg
  BY DEF Values
<1>5. OfSide("positive") = pos /\ OfSide("negative") = neg
  <2>1. \A v \in pos : v.side = "positive"
    OBVIOUS
  <2>2. \A v \in neg : v.side = "negative"
    OBVIOUS
  <2>3. Zero.side = "zero"
    BY DEF Zero
  <2> HIDE DEF pos, neg
  <2> QED
    BY <1>4, <2>1, <2>2, <2>3 DEF OfSide
<1>6. IsFiniteSet(Values)
  <2> HIDE DEF pos, neg
  <2>1. IsFiniteSet({Zero})
    BY FS_EmptySet, FS_AddElement
  <2>2. IsFiniteSet({Zero} \cup pos)
    BY <1>3, <2>1, FS_Union
  <2> QED
    BY <1>3, <1>4, <2>2, FS_Union
<1>7. ASSUME NEW side \in Sides, NEW v \in OfSide(side)
      PROVE  v.index \in Int /\ Shr(v.index, 30) \in {-1, 0}
  <2>1. v \in pos \cup neg
    BY <1>5, <1>7 DEF Sides
  <2>2. v.index \in Positives \cup Negatives
    BY <2>1
  <2> QED
    BY <2>2, HistogramAssumption
<1>8. /\ Zero \in Values
      /\ Zero \notin OfSide("positive") /\ Zero \notin OfSide("negative")
      /\ OfSide("positive") \cap OfSide("negative") = {}
  BY DEF Values, OfSide, Zero
<1>9. \A side \in Sides : OfSide(side) \subseteq Values /\ IsFiniteSet(OfSide(side))
  BY <1>3, <1>5, <1>4 DEF Sides
<1>10. Values = {Zero} \cup OfSide("positive") \cup OfSide("negative")
  <2> HIDE DEF pos, neg
  <2> QED
    BY <1>4, <1>5
<1> HIDE DEF pos, neg
<1> QED
  BY <1>6, <1>7, <1>8, <1>9, <1>10

LEMMA FallingFacts ==
  ASSUME NEW bag \in Bags, NEW side \in Sides, NEW d, NEW x
  PROVE  /\ IsFiniteSet(Falling(side, d, x)) /\ Falling(side, d, x) \subseteq Values
         /\ \A v \in Falling(side, d, x) : bag[v] \in Nat
         /\ Total(bag, Falling(side, d, x)) \in Nat
         /\ Total(bag, Falling(side, d, x)) = 0 => \A v \in Falling(side, d, x) : bag[v] = 0
<1>1. Falling(side, d, x) \in SUBSET OfSide(side) /\ OfSide(side) \subseteq Values
  BY ValuesFacts DEF Falling
<1>2. IsFiniteSet(Falling(side, d, x))
  BY <1>1, ValuesFacts, FS_Subset
<1>3. \A v \in Falling(side, d, x) : bag[v] \in Nat
  BY <1>1 DEF Bags
<1> QED
  BY <1>1, <1>2, <1>3, SumIsNat, SumIsZero DEF Total

\* The values of W that fall between the ends of the buckets fall into I.
Match(b, side, d, I, W) ==
  /\ I \subseteq b.start .. b.end
  /\ W \subseteq OfSide(side)
  /\ \A v \in OfSide(side) : Shr(v.index, d) \in b.start .. b.end
                             => (v \in W <=> Shr(v.index, d) \in I)

\* What buckets that count a bag hold for some of their indexes are the values
\* there.
LEMMA CountsOver ==
  ASSUME NEW bag \in Bags, NEW side \in Sides, NEW d \in 0 .. 30,
         NEW b, Counts(b, bag, side, d), NEW I, NEW W, Match(b, side, d, I, W)
  PROVE  SumFunctionOnSet(HeldBy(b), I) = Total(bag, W)
<1> DEFINE S == {v \in W : Shr(v.index, d) \in I}
           p == [v \in Values |-> Shr(v.index, d)]
<1>0. I \in SUBSET (b.start .. b.end) /\ W \in SUBSET OfSide(side)
  BY DEF Match
<1>1. PICK n : LooseRing(b, n)
  BY DEF Counts, TightRing, Ring
<1>2. IsFiniteSet(I) /\ I \subseteq Int
  <2>1. b.start .. b.end \subseteq Int /\ IsFiniteSet(b.start .. b.end)
    BY <1>1, RingBounds, TogetherFacts
  <2> QED
    BY <1>0, <2>1, FS_Subset
<1>3. ASSUME NEW v \in OfSide(side)
      PROVE  v \in Values /\ Shr(v.index, d) \in Int /\ bag[v] \in Nat
  <2>1. v.index \in Int /\ v \in Values
    BY ValuesFacts
  <2>2. d \in 0 .. 31
    OBVIOUS
  <2> QED
    BY <2>1, <2>2, ShrIsDiv DEF Bags
<1>4. S \in SUBSET W /\ W \subseteq Values /\ IsFiniteSet(W) /\ \A v \in W : bag[v] \in Nat
  <2>1. W \subseteq Values /\ IsFiniteSet(W)
    BY <1>0, ValuesFacts, FS_Subset
  <2>2. \A v \in W : bag[v] \in Nat
    BY <1>0, <1>3
  <2> QED
    BY <2>1, <2>2
<1>5. IsFiniteSet(S)
  BY <1>4, FS_Subset
<1>6. ASSUME NEW x \in I PROVE {v \in S : p[v] = x} = Falling(side, d, x)
  <2>1. ASSUME NEW v \in Falling(side, d, x) PROVE v \in S /\ p[v] = x
    <3>1. v \in OfSide(side) /\ Shr(v.index, d) = x /\ v \in Values
      BY FallingFacts DEF Falling
    <3>2. v \in W
      BY <1>0, <3>1 DEF Match
    <3> QED
      BY <3>1, <3>2
  <2>2. ASSUME NEW v \in S, p[v] = x PROVE v \in Falling(side, d, x)
    <3>1. v \in OfSide(side) /\ v \in Values
      BY <1>0, <1>4
    <3> QED
      BY <2>2, <3>1 DEF Falling
  <2> QED
    BY <2>1, <2>2
<1>7. ASSUME NEW v \in W \ S PROVE bag[v] = 0
  <2>1. v \in OfSide(side) /\ Shr(v.index, d) \notin I
    BY <1>0
  <2>2. PICK x \in Int : x = Shr(v.index, d)
    BY <1>3, <2>1
  <2>3. x \notin b.start .. b.end
    BY <2>1, <2>2 DEF Match
  <2>4. Held(b, x) = 0
    BY <2>3 DEF Held
  <2>5. Total(bag, Falling(side, d, x)) = 0
    BY <2>2, <2>4 DEF Counts
  <2>6. v \in Falling(side, d, x)
    BY <2>1, <2>2 DEF Falling
  <2> QED
    BY <2>5, <2>6, FallingFacts
<1>8. \A v \in S : bag[v] \in Int /\ p[v] \in I
  <2> TAKE v \in S
  <2>1. v \in W /\ v \in Values /\ Shr(v.index, d) \in I
    BY <1>4
  <2>2. p[v] = Shr(v.index, d)
    BY <2>1
  <2> HIDE DEF S, p
  <2>3. bag[v] \in Nat
    BY <1>4, <2>1
  <2> QED
    BY <2>1, <2>2, <2>3
<1> HIDE DEF S, p
<1> DEFINE parts == [i \in I |-> SumFunctionOnSet(bag, {v \in S : p[v] = i})]
<1>9. \A x \in I : HeldBy(b)[x] = parts[x] /\ parts[x] \in Int
  <2> TAKE x \in I
  <2>1. HeldBy(b)[x] = Held(b, x) /\ x \in Int
    BY <1>0, <1>2 DEF HeldBy
  <2>2. Held(b, x) = Total(bag, Falling(side, d, x)) /\ Held(b, x) \in Nat
    BY <1>1, <2>1, HeldIsNat DEF Counts
  <2>3. parts[x] = Total(bag, Falling(side, d, x))
    BY <1>6 DEF Total
  <2> QED
    BY <2>1, <2>2, <2>3
<1>10. SumFunctionOnSet(parts, I) = SumFunctionOnSet(bag, S)
  <2>1. /\ IsFiniteSet(S) /\ \A x \in S : bag[x] \in Int
        /\ IsFiniteSet(I) /\ \A x \in S : p[x] \in I
    BY <1>2, <1>5, <1>8
  <2>2. SumFunctionOnSet([i \in I |-> SumFunctionOnSet(bag, {x \in S : p[x] = i})], I)
          = SumFunctionOnSet(bag, S)
    BY ONLY <2>1, SumOfParts
  <2> QED
    BY <2>2
<1>11. SumFunctionOnSet(bag, S) = SumFunctionOnSet(bag, W)
  <2>1. \A v \in W : bag[v] \in Int
    BY <1>4
  <2> QED
    BY <1>4, <1>7, <2>1, SumWithZeros
<1> HIDE DEF parts
<1>12. SumFunctionOnSet(HeldBy(b), I) = SumFunctionOnSet(parts, I)
  BY <1>2, <1>9, SumOfEqual
<1> QED
  BY <1>10, <1>11, <1>12 DEF Total

\* What falls together in such buckets are the values that fall together.
LEMMA CountsTogether ==
  ASSUME NEW bag \in Bags, NEW side \in Sides, NEW d \in Nat, NEW by \in Nat, d + by <= 30,
         NEW b, Counts(b, bag, side, d), NEW y \in Int
  PROVE  SumFunctionOnSet(HeldBy(b), Together(b, by, y)) = Total(bag, Falling(side, d + by, y))
<1>1. Together(b, by, y) \in SUBSET (b.start .. b.end)
  BY DEF Together
<1>2. Falling(side, d + by, y) \in SUBSET OfSide(side)
  BY DEF Falling
<1>3. Match(b, side, d, Together(b, by, y), Falling(side, d + by, y))
  <2>1. ASSUME NEW v \in OfSide(side), Shr(v.index, d) \in b.start .. b.end
        PROVE  v \in Falling(side, d + by, y) <=> Shr(v.index, d) \in Together(b, by, y)
    <3>1. v.index \in Int
      BY ValuesFacts
    <3>2. d + by <= 31
      OBVIOUS
    <3>3. Shr(Shr(v.index, d), by) = Shr(v.index, d + by)
      BY <3>1, <3>2, ShrTwice
    <3> QED
      BY <2>1, <3>3 DEF Falling, Together
  <2> QED
    BY <1>1, <1>2, <2>1 DEF Match
<1>4. d \in 0 .. 30
  OBVIOUS
<1> QED
  BY <1>3, <1>4, CountsOver

\* Scaling down keeps the counts.
LEMMA CountsDownscaled ==
  ASSUME NEW bag \in Bags, NEW side \in Sides, NEW d \in Nat, NEW by \in Nat, d + by <= 30,
         NEW b, Counts(b, bag, side, d)
  PROVE  /\ Counts(DownscaleBuckets(b, by), bag, side, d + by)
         /\ DownscaleBuckets(b, by).start = Shr(b.start, by)
         /\ DownscaleBuckets(b, by).end = Shr(b.end, by)
         /\ Length(DownscaleBuckets(b, by)) = 0 <=> Length(b) = 0
<1>1. TightRing(b) /\ by \in 0 .. 31
  BY DEF Counts
<1> DEFINE t == DownscaleBuckets(b, by)
<1>2. /\ TightRing(t) /\ t.start = Shr(b.start, by) /\ t.end = Shr(b.end, by)
      /\ Length(t) = 0 <=> Length(b) = 0
      /\ \A y \in Int : Held(t, y) = SumFunctionOnSet(HeldBy(b), Together(b, by, y))
  BY <1>1, DownscaleFacts
<1> HIDE DEF t
<1>3. \A y \in Int : Held(t, y) = Total(bag, Falling(side, d + by, y))
  BY <1>2, CountsTogether
<1>4. Counts(t, bag, side, d + by)
  BY <1>2, <1>3 DEF Counts
<1> QED
  BY <1>2, <1>4 DEF t

\* The values of a side that were recorded.
Present(bag, side) == {v \in OfSide(side) : bag[v] > 0}

\* Where something is held a value was recorded.
LEMMA CountedSomewhere ==
  ASSUME NEW bag \in Bags, NEW side \in Sides, NEW d \in 0 .. 30, NEW b,
         Counts(b, bag, side, d), NEW x \in Int, Held(b, x) > 0
  PROVE  \E v \in Present(bag, side) : Shr(v.index, d) = x
<1>1. Total(bag, Falling(side, d, x)) > 0
  BY DEF Counts
<1>2. PICK v \in Falling(side, d, x) : bag[v] # 0
  <2>1. SUFFICES ASSUME \A v \in Falling(side, d, x) : bag[v] = 0
                 PROVE  Total(bag, Falling(side, d, x)) = 0
    BY <1>1
  <2>2. IsFiniteSet(Falling(side, d, x)) /\ \A v \in Falling(side, d, x) : bag[v] \in Int
    BY FallingFacts
  <2>3. {} \in SUBSET Falling(side, d, x) /\ \A v \in Falling(side, d, x) \ {} : bag[v] = 0
    BY <2>1
  <2>4. SumFunctionOnSet(bag, {}) = SumFunctionOnSet(bag, Falling(side, d, x))
    BY <2>2, <2>3, SumWithZeros
  <2> QED
    BY <2>4, SumOfEmpty DEF Total
<1>3. bag[v] \in Nat
  BY FallingFacts
<1>4. bag[v] > 0
  BY <1>2, <1>3
<1> QED
  BY <1>4 DEF Falling, Present

\* The ends of buckets that are not empty are indexes of values.
LEMMA CountsEnds ==
  ASSUME NEW bag \in Bags, NEW side \in Sides, NEW d \in 0 .. 30, NEW b,
         Counts(b, bag, side, d), Length(b) # 0
  PROVE  /\ b.start \in Int /\ b.end \in Int /\ b.start <= b.end /\ b.end - b.start < MaxSize
         /\ Shr(b.start, 30 - d) \in {-1, 0} /\ Shr(b.end, 30 - d) \in {-1, 0}
         /\ \E v \in OfSide(side) : bag[v] > 0
<1>1. PICK n : LooseRing(b, n)
  BY DEF Counts, TightRing, Ring
<1>2. /\ b.start \in Int /\ b.end \in Int /\ b.start <= b.end
      /\ b.end - b.start < n /\ n \in Nat /\ n <= MaxSize
  BY <1>1, RingBounds
<1>3. Held(b, b.start) > 0 /\ Held(b, b.end) > 0
  BY DEF Counts, TightRing, Tight
<1>4. ASSUME NEW x \in Int, Held(b, x) > 0
      PROVE  Shr(x, 30 - d) \in {-1, 0} /\ \E v \in OfSide(side) : bag[v] > 0
  <2>1. PICK v \in Present(bag, side) : Shr(v.index, d) = x
    BY <1>4, CountedSomewhere
  <2>2. v \in OfSide(side) /\ bag[v] > 0 /\ v.index \in Int /\ Shr(v.index, 30) \in {-1, 0}
    BY ValuesFacts DEF Present
  <2>3. d \in Nat /\ 30 - d \in Nat /\ d + (30 - d) = 30 /\ d + (30 - d) <= 31
    OBVIOUS
  <2>4. Shr(Shr(v.index, d), 30 - d) = Shr(v.index, d + (30 - d))
    BY <2>2, <2>3, ShrTwice
  <2> QED
    BY <2>1, <2>2, <2>3, <2>4
<1>5. b.end - b.start < MaxSize
  BY <1>2, HistogramAssumption
<1> QED
  BY <1>2, <1>3, <1>4, <1>5

\* Where a value with a count is, there are buckets.
LEMMA CountsNothing ==
  ASSUME NEW bag \in Bags, NEW side \in Sides, NEW d \in 0 .. 30, NEW b,
         Counts(b, bag, side, d)
  PROVE  Length(b) = 0 <=> \A v \in OfSide(side) : bag[v] = 0
<1>1. CASE Length(b) # 0
  <2>1. \E v \in OfSide(side) : bag[v] > 0
    BY <1>1, CountsEnds
  <2> QED
    BY <1>1, <2>1
<1>2. CASE Length(b) = 0
  <2>1. PICK n : LooseRing(b, n)
    BY DEF Counts, TightRing, Ring
  <2>2. \A x : Held(b, x) = 0
    BY <1>2, <2>1, LengthFacts
  <2>3. ASSUME NEW v \in OfSide(side) PROVE bag[v] = 0
    <3>1. v.index \in Int
      BY ValuesFacts
    <3>2. PICK x \in Int : x = Shr(v.index, d)
      <4>1. d \in 0 .. 31
        OBVIOUS
      <4> QED
        BY <3>1, <4>1, ShrIsDiv
    <3>3. v \in Falling(side, d, x) /\ Total(bag, Falling(side, d, x)) = 0
      BY <2>2, <3>2 DEF Falling, Counts
    <3> QED
      BY <3>3, FallingFacts
  <2> QED
    BY <1>2, <2>3
<1> QED
  BY <1>1, <1>2

\* A value more is counted in its bucket.
LEMMA CountsOneMore ==
  ASSUME NEW bag \in Bags, NEW side \in Sides, NEW d \in 0 .. 30, NEW b,
         Counts(b, bag, side, d), NEW v \in OfSide(side),
         NEW low \in Int, NEW high \in Int, high - low < MaxSize,
         Shr(v.index, d) \in low .. high, Within(b, low, high)
  PROVE  Counts(IncrementIndexBy(b, Shr(v.index, d), 1), [bag EXCEPT ![v] = @ + 1], side, d)
<1> DEFINE more == [bag EXCEPT ![v] = @ + 1]
<1>1. PICK c : c = IncrementIndexBy(b, Shr(v.index, d), 1)
  OBVIOUS
<1>2. /\ TightRing(c)
      /\ \A x \in Int : Held(c, x) = Held(b, x) + (IF x = Shr(v.index, d) THEN 1 ELSE 0)
  <2>1. TightRing(b)
    BY DEF Counts
  <2> QED
    BY <1>1, <2>1, IncrementFacts
<1>3. ASSUME NEW x \in Int PROVE Held(c, x) = Total(more, Falling(side, d, x))
  <2>1. IsFiniteSet(Falling(side, d, x)) /\ \A z \in Falling(side, d, x) : bag[z] \in Int
        /\ Falling(side, d, x) \subseteq Values
    BY FallingFacts
  <2>2. v \in Values
    BY ValuesFacts
  <2>3. CASE x = Shr(v.index, d)
    <3>1. v \in Falling(side, d, x)
      BY <2>3 DEF Falling
    <3>2. more[v] = bag[v] + 1 /\ bag[v] \in Int
      BY <2>1, <2>2, <3>1 DEF Bags
    <3>3. \A z \in Falling(side, d, x) \ {v} : more[z] = bag[z]
      BY <2>1 DEF Bags
    <3>4. SumFunctionOnSet(more, Falling(side, d, x))
            = SumFunctionOnSet(bag, Falling(side, d, x)) + more[v] - bag[v]
      <4> HIDE DEF more
      <4>1. more[v] \in Int
        BY <3>2
      <4> QED
        BY <2>1, <3>1, <3>3, <4>1, SumWithChange
    <3>5. SumFunctionOnSet(bag, Falling(side, d, x)) \in Nat
      BY FallingFacts DEF Total
    <3>6. Held(c, x) = SumFunctionOnSet(bag, Falling(side, d, x)) + 1
      BY <1>2, <2>3 DEF Counts, Total
    <3> HIDE DEF more
    <3> QED
      BY <3>2, <3>4, <3>5, <3>6 DEF Total
  <2>4. CASE x # Shr(v.index, d)
    <3>1. \A z \in Falling(side, d, x) : more[z] = bag[z]
      BY <2>1, <2>4 DEF Bags, Falling
    <3>2. SumFunctionOnSet(more, Falling(side, d, x)) = SumFunctionOnSet(bag, Falling(side, d, x))
      <4> HIDE DEF more
      <4> QED
        BY <2>1, <3>1, SumOfEqual
    <3>3. Held(b, x) = Total(bag, Falling(side, d, x)) /\ Held(b, x) \in Nat
      BY FallingFacts DEF Counts
    <3>4. Held(c, x) = Held(b, x) + 0
      BY <1>2, <2>4
    <3> HIDE DEF more
    <3> QED
      BY <3>2, <3>3, <3>4 DEF Total
  <2> QED
    BY <2>3, <2>4
<1> QED
  BY <1>1, <1>2, <1>3 DEF Counts

-------------------------------------------------------------------------------
\* Going through the buckets of another histogram

\* The first k of the indexes that fall together into index x.
Upto(b, by, k, x) == {y \in b.start .. b.start + k - 1 : Shr(y, by) = x}
HeldUpto(b, by, k, x) == SumFunctionOnSet(HeldBy(b), Upto(b, by, k, x))

LEMMA UptoFacts ==
  ASSUME NEW b, NEW n, LooseRing(b, n), NEW by \in 0 .. 31,
         NEW k \in 0 .. b.end - b.start + 1, NEW x \in Int
  PROVE  /\ IsFiniteSet(Upto(b, by, k, x))
         /\ Upto(b, by, k, x) \subseteq Together(b, by, x)
         /\ Upto(b, by, k, x) \subseteq b.start .. b.end
         /\ HeldUpto(b, by, k, x) \in Nat
         /\ HeldUpto(b, by, k, x) <= SumFunctionOnSet(HeldBy(b), Together(b, by, x))
         /\ k = 0 => HeldUpto(b, by, k, x) = 0
         /\ k = b.end - b.start + 1 =>
              HeldUpto(b, by, k, x) = SumFunctionOnSet(HeldBy(b), Together(b, by, x))
<1>1. b.start \in Int /\ b.end \in Int /\ b.start <= b.end
  BY RingBounds
<1>2. k \in Int /\ b.start + k - 1 <= b.end
  BY <1>1
<1>3. b.start .. b.start + k - 1 \subseteq b.start .. b.end
  BY <1>1, <1>2
<1>4. Upto(b, by, k, x) \in SUBSET Together(b, by, x) /\ Upto(b, by, k, x) \subseteq b.start .. b.end
  BY <1>3 DEF Upto, Together
<1>5. /\ IsFiniteSet(Together(b, by, x))
      /\ \A y \in Together(b, by, x) : HeldBy(b)[y] \in Nat
  BY TogetherFacts
<1>6. IsFiniteSet(Upto(b, by, k, x)) /\ \A y \in Upto(b, by, k, x) : HeldBy(b)[y] \in Nat
  BY <1>4, <1>5, FS_Subset
<1>7. HeldUpto(b, by, k, x) \in Nat
  BY <1>6, SumIsNat DEF HeldUpto
<1>8. HeldUpto(b, by, k, x) <= SumFunctionOnSet(HeldBy(b), Together(b, by, x))
  BY <1>4, <1>5, SumOfPart DEF HeldUpto
<1>9. ASSUME k = 0 PROVE HeldUpto(b, by, k, x) = 0
  <2>1. b.start .. b.start + k - 1 = {}
    BY <1>1, <1>9
  <2>2. Upto(b, by, k, x) = {}
    BY <2>1 DEF Upto
  <2> QED
    BY <2>2, SumOfEmpty DEF HeldUpto
<1>10. ASSUME k = b.end - b.start + 1
       PROVE  HeldUpto(b, by, k, x) = SumFunctionOnSet(HeldBy(b), Together(b, by, x))
  <2>1. b.start + k - 1 = b.end
    BY <1>1, <1>10
  <2> QED
    BY <2>1 DEF HeldUpto, Upto, Together
<1> QED
  BY <1>4, <1>6, <1>7, <1>8, <1>9, <1>10

LEMMA UptoGrows ==
  ASSUME NEW b, NEW n, LooseRing(b, n), NEW by \in 0 .. 31,
         NEW k \in 0 .. b.end - b.start, NEW x \in Int
  PROVE  HeldUpto(b, by, k + 1, x)
           = HeldUpto(b, by, k, x) + (IF x = Shr(b.start + k, by) THEN Held(b, b.start + k) ELSE 0)
<1>1. b.start \in Int /\ b.end \in Int /\ b.start <= b.end
  BY RingBounds
<1>2. PICK y : y = b.start + k
  OBVIOUS
<1>3. y \in b.start .. b.end /\ y \in Int /\ k \in 0 .. b.end - b.start + 1
  BY <1>1, <1>2
<1>4. b.start .. b.start + (k + 1) - 1 = (b.start .. b.start + k - 1) \cup {y}
      /\ y \notin b.start .. b.start + k - 1
  BY <1>1, <1>2
<1>5. /\ IsFiniteSet(Upto(b, by, k, x)) /\ Upto(b, by, k, x) \subseteq b.start .. b.end
      /\ HeldUpto(b, by, k, x) \in Nat
  BY <1>3, UptoFacts
<1>6. \A z \in b.start .. b.end : HeldBy(b)[z] \in Nat /\ HeldBy(b)[z] = Held(b, z)
  BY TogetherFacts DEF HeldBy
<1>7. CASE x = Shr(y, by)
  <2>1. Upto(b, by, k + 1, x) = Upto(b, by, k, x) \cup {y} /\ y \notin Upto(b, by, k, x)
    BY <1>4, <1>7 DEF Upto
  <2>2. \A z \in Upto(b, by, k, x) \cup {y} : HeldBy(b)[z] \in Int
    BY <1>3, <1>5, <1>6
  <2>3. SumFunctionOnSet(HeldBy(b), Upto(b, by, k, x) \cup {y})
          = HeldBy(b)[y] + SumFunctionOnSet(HeldBy(b), Upto(b, by, k, x))
    BY <1>5, <2>1, <2>2, SumWithElement
  <2>4. HeldUpto(b, by, k + 1, x) = HeldBy(b)[y] + HeldUpto(b, by, k, x)
    BY <2>1, <2>3 DEF HeldUpto
  <2>5. HeldBy(b)[y] = Held(b, y) /\ Held(b, y) \in Nat
    BY <1>3, <1>6
  <2> QED
    BY <1>2, <1>5, <1>7, <2>4, <2>5
<1>8. CASE x # Shr(y, by)
  <2>1. Upto(b, by, k + 1, x) = Upto(b, by, k, x)
    BY <1>4, <1>8 DEF Upto
  <2>2. HeldUpto(b, by, k + 1, x) = HeldUpto(b, by, k, x) + 0
    BY <1>5, <2>1 DEF HeldUpto
  <2> QED
    BY <1>2, <1>8, <2>2
<1> QED
  BY <1>7, <1>8

\* One step of merging or diffing.
Taken(merging, b, index, counts) ==
  IF merging THEN IncrementIndexBy(b, index, counts) ELSE Decrement(b, index, counts)

Steps(g, merging, ours, theirs, shift, m) ==
  g = [i \in -1 .. m - 1 |->
         IF i = -1 THEN ours
         ELSE Taken(merging, g[i - 1], Shr(theirs.start + i, shift), At(theirs, i))]

LEMMA StepsExist ==
  ASSUME NEW merging, NEW ours, NEW theirs, NEW shift, NEW n \in Nat
  PROVE  \E g : Steps(g, merging, ours, theirs, shift, n)
<1> DEFINE Next1(g, i) == IF i = -1 THEN ours
                          ELSE Taken(merging, g[i - 1], Shr(theirs.start + i, shift), At(theirs, i))
           Made == {m \in Nat : \E g : Steps(g, merging, ours, theirs, shift, m)}
<1>1. 0 \in Made
  <2> DEFINE g == [i \in -1 .. 0 - 1 |-> ours]
             h == [i \in -1 .. 0 - 1 |-> Next1(g, i)]
  <2>1. \A i \in -1 .. 0 - 1 : g[i] = h[i]
    OBVIOUS
  <2>2. g = h
    BY <2>1
  <2>3. Steps(g, merging, ours, theirs, shift, 0)
    BY <2>2 DEF Steps
  <2> QED
    BY <2>3
<1>2. ASSUME NEW m \in Nat, m \in Made PROVE m + 1 \in Made
  <2>1. PICK g : Steps(g, merging, ours, theirs, shift, m)
    BY <1>2
  <2>2. g = [i \in -1 .. m - 1 |-> Next1(g, i)]
    BY <2>1 DEF Steps
  <2> HIDE DEF Next1
  <2> DEFINE h == [i \in -1 .. (m + 1) - 1 |-> IF i <= m - 1 THEN g[i] ELSE Next1(g, i)]
             k == [i \in -1 .. (m + 1) - 1 |-> Next1(h, i)]
  <2>3. \A i \in -1 .. (m + 1) - 1 : h[i] = k[i]
    <3> TAKE i \in -1 .. (m + 1) - 1
    <3>1. Next1(h, i) = Next1(g, i)
      <4>1. i # -1 => i - 1 \in -1 .. (m + 1) - 1 /\ i - 1 <= m - 1
        OBVIOUS
      <4>2. i # -1 => h[i - 1] = g[i - 1]
        BY <4>1
      <4> HIDE DEF h
      <4> QED
        BY <4>2 DEF Next1
    <3>2. h[i] = Next1(g, i)
      <4>1. CASE i <= m - 1
        <5>1. i \in -1 .. m - 1
          BY <4>1
        <5>2. g[i] = Next1(g, i)
          BY <2>2, <5>1
        <5> QED
          BY <4>1, <5>2
      <4>2. CASE ~(i <= m - 1)
        BY <4>2
      <4> QED
        BY <4>1, <4>2
    <3>3. k[i] = Next1(h, i)
      <4> HIDE DEF h
      <4> QED
        OBVIOUS
    <3> HIDE DEF h, k
    <3> QED
      BY <3>1, <3>2, <3>3
  <2>4. h = k
    BY <2>3
  <2>5. Steps(h, merging, ours, theirs, shift, m + 1)
    <3> HIDE DEF h
    <3> QED
      BY <2>4 DEF Steps, Next1
  <2>6. \E f : Steps(f, merging, ours, theirs, shift, m + 1)
    BY <2>5
  <2> QED
    BY <2>6
<1> HIDE DEF Made
<1>3. n \in Made
  BY <1>1, <1>2, NatsBySuccessor
<1> QED
  BY <1>3 DEF Made

\* Merging and diffing come to the last step.
LEMMA MergeIsLast ==
  ASSUME NEW ours, NEW theirs, NEW shift, Length(theirs) \in Nat
  PROVE  /\ \E g : /\ Steps(g, TRUE, ours, theirs, shift, Length(theirs))
                   /\ MergeBuckets(ours, theirs, shift) = g[Length(theirs) - 1]
         /\ \E g : /\ Steps(g, FALSE, ours, theirs, shift, Length(theirs))
                   /\ DiffBuckets(ours, theirs, shift) = Trim(g[Length(theirs) - 1])
<1> DEFINE Merging(g) == g = [i \in -1 .. Length(theirs) - 1 |->
                                IF i = -1 THEN ours
                                ELSE IncrementIndexBy(g[i - 1], Shr(theirs.start + i, shift), At(theirs, i))]
           Diffing(g) == g = [i \in -1 .. Length(theirs) - 1 |->
                                IF i = -1 THEN ours
                                ELSE Decrement(g[i - 1], Shr(theirs.start + i, shift), At(theirs, i))]
           merge == CHOOSE g : Merging(g)
           diff == CHOOSE g : Diffing(g)
<1>1. \A g : Merging(g) <=> Steps(g, TRUE, ours, theirs, shift, Length(theirs))
  BY DEF Steps, Taken
<1>2. \A g : Diffing(g) <=> Steps(g, FALSE, ours, theirs, shift, Length(theirs))
  BY DEF Steps, Taken
<1>3. MergeBuckets(ours, theirs, shift) = merge[Length(theirs) - 1]
  BY DEF MergeBuckets
<1>4. DiffBuckets(ours, theirs, shift) = Trim(diff[Length(theirs) - 1])
  BY DEF DiffBuckets
<1>5. (\E g : Merging(g)) /\ (\E g : Diffing(g))
  <2> HIDE DEF Merging, Diffing
  <2> QED
    BY <1>1, <1>2, StepsExist
<1>6. Merging(merge) /\ Diffing(diff)
  <2> HIDE DEF Merging, Diffing
  <2> QED
    BY <1>5
<1> HIDE DEF Merging, Diffing, merge, diff
<1> QED
  BY <1>1, <1>2, <1>3, <1>4, <1>6

LEMMA TogetherEmpty ==
  ASSUME NEW b, NEW n, LooseRing(b, n), \A x : Held(b, x) = 0, NEW by, NEW y
  PROVE  SumFunctionOnSet(HeldBy(b), Together(b, by, y)) = 0
<1>1. \A x \in Together(b, by, y) \ {} : HeldBy(b)[x] = 0
  BY DEF Together, HeldBy
<1>2. IsFiniteSet(Together(b, by, y)) /\ \A x \in Together(b, by, y) : HeldBy(b)[x] \in Int
  BY TogetherFacts
<1>3. SumFunctionOnSet(HeldBy(b), {}) = SumFunctionOnSet(HeldBy(b), Together(b, by, y))
  <2>1. {} \in SUBSET Together(b, by, y)
    OBVIOUS
  <2> QED
    BY <1>1, <1>2, <2>1, SumWithZeros
<1> QED
  BY <1>3, SumOfEmpty

LEMMA MergeBucketsFacts ==
  ASSUME NEW ours, TightRing(ours), NEW theirs, TightRing(theirs), NEW shift \in 0 .. 31,
         NEW low \in Int, NEW high \in Int, high - low < MaxSize, Within(ours, low, high),
         \/ Length(theirs) = 0
         \/ low <= Shr(theirs.start, shift) /\ Shr(theirs.end, shift) <= high
  PROVE  /\ TightRing(MergeBuckets(ours, theirs, shift))
         /\ \A x \in Int :
              Held(MergeBuckets(ours, theirs, shift), x)
                = Held(ours, x) + SumFunctionOnSet(HeldBy(theirs), Together(theirs, shift, x))
<1>1. PICK n : LooseRing(theirs, n)
  BY DEF TightRing, Ring
<1>2. PICK first \in Int, last \in Int : first = theirs.start /\ last = theirs.end /\ first <= last
  BY <1>1, RingBounds
<1>3. PICK len \in Nat :
        /\ len = Length(theirs)
        /\ len # 0 => len = last - first + 1
        /\ \A i \in 0 .. len - 1 : i \in 0 .. last - first /\ At(theirs, i) = Held(theirs, first + i)
        /\ len = 0 => \A x : Held(theirs, x) = 0
  <2>1. Length(theirs) \in Nat
    <3>1. Length(theirs) \in 0 .. n /\ n \in Nat
      BY <1>1, LengthFacts, RingBounds
    <3> QED
      BY <3>1
  <2> QED
    BY <1>1, <1>2, <2>1, LengthFacts DEF Positions
<1>4. PICK g : /\ Steps(g, TRUE, ours, theirs, shift, len)
               /\ MergeBuckets(ours, theirs, shift) = g[len - 1]
  BY <1>3, MergeIsLast
<1> DEFINE Good(k) == /\ TightRing(g[k - 1]) /\ Within(g[k - 1], low, high)
                      /\ \A x \in Int : Held(g[k - 1], x)
                                          = Held(ours, x) + HeldUpto(theirs, shift, k, x)
           Reached == {k \in Nat : k <= len => Good(k)}
<1>5. \A x : Held(ours, x) \in Nat
  BY HeldIsNat DEF TightRing, Ring
<1>6. 0 \in Reached
  <2>1. g[0 - 1] = ours
    BY <1>3, <1>4 DEF Steps
  <2>2. ASSUME NEW x \in Int PROVE Held(g[0 - 1], x) = Held(ours, x) + HeldUpto(theirs, shift, 0, x)
    <3>1. 0 \in 0 .. theirs.end - theirs.start + 1
      BY <1>2
    <3>2. HeldUpto(theirs, shift, 0, x) = 0
      BY <1>1, <3>1, UptoFacts
    <3> QED
      BY <1>5, <2>1, <3>2
  <2> QED
    BY <2>1, <2>2
<1>7. ASSUME NEW k \in Nat, k \in Reached PROVE k + 1 \in Reached
  <2> SUFFICES ASSUME k + 1 <= len PROVE Good(k + 1)
    OBVIOUS
  <2>1. Good(k)
    BY <1>7
  <2>2. k \in 0 .. len - 1 /\ k \in 0 .. last - first /\ At(theirs, k) = Held(theirs, first + k)
    BY <1>3
  <2>3. PICK index \in Int : index = Shr(first + k, shift) /\ low <= index /\ index <= high
    <3>1. first + k \in Int /\ first <= first + k /\ first + k <= last
      BY <2>2
    <3>2. Shr(first, shift) <= Shr(first + k, shift) /\ Shr(first + k, shift) <= Shr(last, shift)
      BY <3>1, ShrMonotone
    <3>3. low <= Shr(first, shift) /\ Shr(last, shift) <= high
      BY <1>2, <1>3, <2>2
    <3>4. Shr(first, shift) \in Int /\ Shr(first + k, shift) \in Int /\ Shr(last, shift) \in Int
      BY <3>1, ShrIsDiv
    <3> QED
      BY <3>2, <3>3, <3>4
  <2>4. PICK counts \in Nat : counts = Held(theirs, first + k)
    BY <1>1, HeldIsNat
  <2>5. g[k] = IncrementIndexBy(g[k - 1], index, counts)
    <3>1. k \in -1 .. len - 1 /\ k # -1
      BY <2>2
    <3>2. g[k] = Taken(TRUE, g[k - 1], Shr(theirs.start + k, shift), At(theirs, k))
      BY <1>4, <3>1 DEF Steps
    <3> QED
      BY <1>2, <2>2, <2>3, <2>4, <3>2 DEF Taken
  <2>6. (k + 1) - 1 = k
    OBVIOUS
  <2> HIDE DEF Good
  <2>7. TightRing(g[k - 1]) /\ Within(g[k - 1], low, high)
    BY <2>1 DEF Good
  <2>8. /\ TightRing(g[k]) /\ Within(g[k], low, high)
        /\ \A x \in Int : Held(g[k], x) = Held(g[k - 1], x) + (IF x = index THEN counts ELSE 0)
    <3>1. index \in low .. high
      BY <2>3
    <3> QED
      BY <2>5, <2>7, <3>1, IncrementFacts
  <2>9. ASSUME NEW x \in Int PROVE Held(g[k], x) = Held(ours, x) + HeldUpto(theirs, shift, k + 1, x)
    <3>1. k \in 0 .. theirs.end - theirs.start + 1 /\ k \in 0 .. theirs.end - theirs.start
      BY <1>2, <2>2
    <3>2. HeldUpto(theirs, shift, k, x) \in Nat
      BY <1>1, <3>1, UptoFacts
    <3>3. HeldUpto(theirs, shift, k + 1, x)
            = HeldUpto(theirs, shift, k, x) + (IF x = index THEN counts ELSE 0)
      BY <1>1, <1>2, <2>3, <2>4, <3>1, UptoGrows
    <3>4. Held(g[k - 1], x) = Held(ours, x) + HeldUpto(theirs, shift, k, x)
      BY <2>1 DEF Good
    <3>5. Held(g[k], x) = Held(g[k - 1], x) + (IF x = index THEN counts ELSE 0)
      BY <2>8
    <3>6. Held(ours, x) \in Nat
      BY <1>5
    <3> QED
      BY ONLY <3>2, <3>3, <3>4, <3>5, <3>6, counts \in Nat
  <2> QED
    BY <2>6, <2>8, <2>9 DEF Good
<1> HIDE DEF Reached
<1>8. len \in Reached
  BY <1>6, <1>7, NatsBySuccessor
<1>9. Good(len)
  BY <1>8 DEF Reached
<1> HIDE DEF Good
<1>10. ASSUME NEW x \in Int
       PROVE  HeldUpto(theirs, shift, len, x)
                = SumFunctionOnSet(HeldBy(theirs), Together(theirs, shift, x))
  <2>1. CASE len # 0
    <3>1. len \in 0 .. theirs.end - theirs.start + 1 /\ len = theirs.end - theirs.start + 1
      BY <1>2, <1>3, <2>1
    <3> QED
      BY <1>1, <3>1, UptoFacts
  <2>2. CASE len = 0
    <3>1. 0 \in 0 .. theirs.end - theirs.start + 1
      BY <1>2
    <3>2. HeldUpto(theirs, shift, 0, x) = 0
      BY <1>1, <3>1, UptoFacts
    <3>3. SumFunctionOnSet(HeldBy(theirs), Together(theirs, shift, x)) = 0
      BY <1>1, <1>3, <2>2, TogetherEmpty
    <3> QED
      BY <2>2, <3>2, <3>3
  <2> QED
    BY <2>1, <2>2
<1> QED
  BY <1>4, <1>9, <1>10 DEF Good

LEMMA DiffBucketsFacts ==
  ASSUME NEW ours, TightRing(ours), NEW theirs, TightRing(theirs), NEW shift \in 0 .. 31,
         \A x \in Int : SumFunctionOnSet(HeldBy(theirs), Together(theirs, shift, x)) <= Held(ours, x)
  PROVE  /\ TightRing(DiffBuckets(ours, theirs, shift))
         /\ \A x \in Int :
              Held(DiffBuckets(ours, theirs, shift), x)
                = Held(ours, x) - SumFunctionOnSet(HeldBy(theirs), Together(theirs, shift, x))
<1> DEFINE All(x) == SumFunctionOnSet(HeldBy(theirs), Together(theirs, shift, x))
<1>1. PICK n : LooseRing(theirs, n)
  BY DEF TightRing, Ring
<1>2. PICK first \in Int, last \in Int : first = theirs.start /\ last = theirs.end /\ first <= last
  BY <1>1, RingBounds
<1>3. PICK len \in Nat :
        /\ len = Length(theirs)
        /\ len # 0 => len = last - first + 1
        /\ \A i \in 0 .. len - 1 : i \in 0 .. last - first /\ At(theirs, i) = Held(theirs, first + i)
        /\ len = 0 => \A x : Held(theirs, x) = 0
  <2>1. Length(theirs) \in Nat
    <3>1. Length(theirs) \in 0 .. n /\ n \in Nat
      BY <1>1, LengthFacts, RingBounds
    <3> QED
      BY <3>1
  <2> QED
    BY <1>1, <1>2, <2>1, LengthFacts DEF Positions
<1>4. PICK g : /\ Steps(g, FALSE, ours, theirs, shift, len)
               /\ DiffBuckets(ours, theirs, shift) = Trim(g[len - 1])
  BY ZenonT(40), <1>3, MergeIsLast
<1>5. PICK m : Ring(ours, m)
  BY DEF TightRing
<1>6. PICK start \in Int, end \in Int : start = ours.start /\ end = ours.end
  BY <1>5, RingFacts
<1>7. \A x : Held(ours, x) \in Nat
  BY <1>5, HeldIsNat DEF Ring
<1>8. \A x \in Int : All(x) \in Nat /\ All(x) <= Held(ours, x)
  BY <1>1, TogetherFacts
<1> DEFINE Good(k) == /\ Ring(g[k - 1], m) /\ g[k - 1].start = start /\ g[k - 1].end = end
                      /\ \A x \in Int : Held(g[k - 1], x)
                                          = Held(ours, x) - HeldUpto(theirs, shift, k, x)
           Reached == {k \in Nat : k <= len => Good(k)}
<1>9. 0 \in Reached
  <2>1. g[0 - 1] = ours
    BY <1>3, <1>4 DEF Steps
  <2>2. ASSUME NEW x \in Int PROVE Held(g[0 - 1], x) = Held(ours, x) - HeldUpto(theirs, shift, 0, x)
    <3>1. 0 \in 0 .. theirs.end - theirs.start + 1
      BY <1>2
    <3>2. HeldUpto(theirs, shift, 0, x) = 0
      BY <1>1, <3>1, UptoFacts
    <3> QED
      BY <1>7, <2>1, <3>2
  <2> QED
    BY <1>5, <1>6, <2>1, <2>2
\* Where theirs begin and end ours hold something, and what comes between does
\* so between them.
<1>10. ASSUME len # 0
       PROVE  /\ Shr(first, shift) \in start .. end
              /\ Shr(last, shift) \in start .. end
  <2>1. Held(theirs, first) > 0 /\ Held(theirs, last) > 0
    BY <1>2, <1>3, <1>10 DEF TightRing, Tight
  <2>2. ASSUME NEW y \in {first, last} PROVE Shr(y, shift) \in start .. end
    <3>1. y \in Int /\ y \in theirs.start .. theirs.end
      BY <1>2
    <3>2. Shr(y, shift) \in Int
      BY <3>1, ShrIsDiv
    <3>3. y \in Together(theirs, shift, Shr(y, shift)) /\ HeldBy(theirs)[y] = Held(theirs, y)
      BY <3>1 DEF Together, HeldBy
    <3>4. HeldBy(theirs)[y] <= All(Shr(y, shift))
      BY <1>1, <3>3, TogetherFacts, SumOfElement
    <3>5. Held(theirs, y) > 0 /\ Held(theirs, y) \in Nat
      BY <1>1, <2>1, HeldIsNat
    <3> HIDE DEF All
    <3>6. Held(ours, Shr(y, shift)) # 0
      BY <1>7, <1>8, <3>2, <3>3, <3>4, <3>5
    <3> QED
      BY <1>6, <3>6 DEF Held
  <2> QED
    BY <2>2
<1>11. ASSUME NEW k \in Nat, k \in Reached PROVE k + 1 \in Reached
  <2> SUFFICES ASSUME k + 1 <= len PROVE Good(k + 1)
    OBVIOUS
  <2>1. Good(k)
    BY <1>11
  <2>2. k \in 0 .. len - 1 /\ k \in 0 .. last - first /\ At(theirs, k) = Held(theirs, first + k)
    BY <1>3
  <2>3. PICK index \in Int : index = Shr(first + k, shift) /\ index \in start .. end
    <3>1. first + k \in Int /\ first <= first + k /\ first + k <= last
      BY <2>2
    <3>2. Shr(first, shift) <= Shr(first + k, shift) /\ Shr(first + k, shift) <= Shr(last, shift)
      BY <3>1, ShrMonotone
    <3>3. Shr(first, shift) \in start .. end /\ Shr(last, shift) \in start .. end
      BY <1>10, <2>2
    <3>4. Shr(first + k, shift) \in Int
      BY <3>1, ShrIsDiv
    <3> QED
      BY <3>2, <3>3, <3>4
  <2>4. PICK counts \in Nat : counts = Held(theirs, first + k)
    BY <1>1, HeldIsNat
  <2>5. g[k] = Decrement(g[k - 1], index, counts)
    <3>1. k \in -1 .. len - 1 /\ k # -1
      BY <2>2
    <3>2. g[k] = Taken(FALSE, g[k - 1], Shr(theirs.start + k, shift), At(theirs, k))
      BY <1>4, <3>1 DEF Steps
    <3> QED
      BY <1>2, <2>2, <2>3, <2>4, <3>2 DEF Taken
  <2>6. (k + 1) - 1 = k
    OBVIOUS
  <2> HIDE DEF Good
  <2>7. Ring(g[k - 1], m) /\ g[k - 1].start = start /\ g[k - 1].end = end
    BY <2>1 DEF Good
  <2>8. k \in 0 .. theirs.end - theirs.start + 1 /\ k \in 0 .. theirs.end - theirs.start
        /\ k + 1 \in 0 .. theirs.end - theirs.start + 1
    BY <1>2, <2>2
  <2>9. ASSUME NEW x \in Int
        PROVE  /\ HeldUpto(theirs, shift, k, x) \in Nat
               /\ HeldUpto(theirs, shift, k + 1, x) <= All(x)
               /\ HeldUpto(theirs, shift, k + 1, x)
                    = HeldUpto(theirs, shift, k, x) + (IF x = index THEN counts ELSE 0)
               /\ Held(g[k - 1], x) = Held(ours, x) - HeldUpto(theirs, shift, k, x)
    <3>1. HeldUpto(theirs, shift, k, x) \in Nat
      BY <1>1, <2>8, UptoFacts
    <3>2. HeldUpto(theirs, shift, k + 1, x) <= All(x)
      BY <1>1, <2>8, UptoFacts
    <3>3. HeldUpto(theirs, shift, k + 1, x)
            = HeldUpto(theirs, shift, k, x) + (IF x = index THEN counts ELSE 0)
      BY SMTT(30), <1>1, <1>2, <2>3, <2>4, <2>8, UptoGrows
    <3>4. Held(g[k - 1], x) = Held(ours, x) - HeldUpto(theirs, shift, k, x)
      BY <2>1 DEF Good
    <3> QED
      BY <3>1, <3>2, <3>3, <3>4
  <2> HIDE DEF All
  <2>10. counts <= Held(g[k - 1], index)
    <3>1. /\ HeldUpto(theirs, shift, k, index) \in Nat
          /\ HeldUpto(theirs, shift, k, index) + counts <= All(index)
          /\ Held(g[k - 1], index) = Held(ours, index) - HeldUpto(theirs, shift, k, index)
      BY <2>9
    <3>2. All(index) <= Held(ours, index) /\ All(index) \in Nat /\ Held(ours, index) \in Nat
      BY <1>7, <1>8
    <3> QED
      BY <3>1, <3>2
  <2>11. /\ Ring(g[k], m) /\ g[k].start = start /\ g[k].end = end
         /\ \A x \in Int : Held(g[k], x) = Held(g[k - 1], x) - (IF x = index THEN counts ELSE 0)
    <3>1. index \in g[k - 1].start .. g[k - 1].end
      BY <2>3, <2>7
    <3> QED
      BY <2>5, <2>7, <2>10, <3>1, DecrementFacts
  <2>12. ASSUME NEW x \in Int PROVE Held(g[k], x) = Held(ours, x) - HeldUpto(theirs, shift, k + 1, x)
    <3>1. Held(g[k], x) = Held(g[k - 1], x) - (IF x = index THEN counts ELSE 0)
      BY <2>11
    <3>2. Held(ours, x) \in Nat
      BY <1>7
    <3>3. /\ HeldUpto(theirs, shift, k, x) \in Nat
          /\ HeldUpto(theirs, shift, k + 1, x)
               = HeldUpto(theirs, shift, k, x) + (IF x = index THEN counts ELSE 0)
          /\ Held(g[k - 1], x) = Held(ours, x) - HeldUpto(theirs, shift, k, x)
      BY <2>9
    <3> QED
      BY ONLY <3>1, <3>2, <3>3, counts \in Nat
  <2> QED
    BY <2>6, <2>11, <2>12 DEF Good
<1> HIDE DEF Reached
<1>12. len \in Reached
  BY <1>9, <1>11, NatsBySuccessor
<1>13. Good(len)
  BY <1>12 DEF Reached
<1> HIDE DEF Good
<1>14. ASSUME NEW x \in Int PROVE HeldUpto(theirs, shift, len, x) = All(x)
  <2>1. CASE len # 0
    <3>1. len \in 0 .. theirs.end - theirs.start + 1 /\ len = theirs.end - theirs.start + 1
      BY <1>2, <1>3, <2>1
    <3> QED
      BY <1>1, <3>1, UptoFacts
  <2>2. CASE len = 0
    <3>1. 0 \in 0 .. theirs.end - theirs.start + 1
      BY <1>2
    <3>2. HeldUpto(theirs, shift, 0, x) = 0
      BY <1>1, <3>1, UptoFacts
    <3>3. All(x) = 0
      BY <1>1, <1>3, <2>2, TogetherEmpty
    <3> HIDE DEF All
    <3> QED
      BY <2>2, <3>2, <3>3
  <2> QED
    BY <2>1, <2>2
<1>15. /\ TightRing(Trim(g[len - 1]))
       /\ \A x \in Int : Held(Trim(g[len - 1]), x) = Held(g[len - 1], x)
  BY <1>13, TrimFacts DEF Good
<1>16. \A x \in Int : Held(g[len - 1], x) = Held(ours, x) - HeldUpto(theirs, shift, len, x)
  BY <1>13 DEF Good
<1> HIDE DEF All
<1>17. \A x \in Int : Held(Trim(g[len - 1]), x) = Held(ours, x) - All(x)
  BY <1>14, <1>15, <1>16
<1> QED
  BY <1>4, <1>15, <1>17 DEF All

-------------------------------------------------------------------------------
\* Histograms

BucketsType ==
  UNION {[base : Int, start : Int, end : Int, backing : [0 .. n - 1 -> Nat]] : n \in 1 .. MaxSize}

Histograms ==
  [count : Nat, zeroCount : Nat, scale : Int, positive : BucketsType, negative : BucketsType]

\* How far the indexes of a histogram are shifted.
Places(h) == MaxScale - h.scale

\* Both sides of a histogram count the values of a bag at its scale.
Sided(h, bag) ==
  /\ h \in Histograms
  /\ Places(h) \in 0 .. 30
  /\ \A side \in Sides : Counts(Buckets(h, side), bag, side, Places(h))

Kept(h, bag) ==
  /\ Sided(h, bag)
  /\ h.count = Total(bag, Values)
  /\ h.zeroCount = bag[Zero]

LEMMA CountsType ==
  ASSUME NEW b, TightRing(b)
  PROVE  b \in BucketsType
<1>1. PICK n : Sized(b, n)
  BY DEF TightRing, Ring, LooseRing
<1> QED
  BY <1>1 DEF Sized, BucketsType

LEMMA NewHistogramKept ==
  NoValues \in Bags /\ Kept(NewHistogram, NoValues)
<1>1. NoValues \in Bags
  BY DEF NoValues, Bags
<1> DEFINE b == NewBuckets
<1>2. Sized(b, 1) /\ b.base = 0 /\ b.start = 0 /\ b.end = 0 /\ \A i \in 0 .. 0 : b.backing[i] = 0
  BY HistogramAssumption DEF Sized, NewBuckets
<1> HIDE DEF b
<1>3. Ring(b, 1)
  <2>1. \A s \in 0 .. 1 - 1 : b.backing[s] = 0
    BY <1>2
  <2> QED
    BY <1>2, <2>1, RingFrom
<1>4. Capacity(b) = 1
  BY <1>2, CapacityIs
<1>5. \A x : Held(b, x) = 0
  <2> TAKE x
  <2>1. CASE x \in b.start .. b.end
    <3>1. Slot(b, x) = 0
      BY <1>2, <1>4, <2>1 DEF Slot
    <3> QED
      BY <1>2, <3>1 DEF Held
  <2>2. CASE x \notin b.start .. b.end
    BY <2>2 DEF Held
  <2> QED
    BY <2>1, <2>2
<1>6. Length(b) = 0
  BY <1>2, <1>3, <1>5, LengthFacts DEF Ring
<1>7. TightRing(b)
  BY <1>3, <1>6 DEF TightRing, Tight
<1>8. ASSUME NEW S \in SUBSET Values PROVE Total(NoValues, S) = 0
  <2>1. IsFiniteSet(S) /\ \A v \in S : NoValues[v] \in Int /\ NoValues[v] = 0
    BY ValuesFacts, FS_Subset DEF NoValues
  <2>2. {} \in SUBSET S /\ \A v \in S \ {} : NoValues[v] = 0
    BY <2>1
  <2>3. SumFunctionOnSet(NoValues, {}) = SumFunctionOnSet(NoValues, S)
    BY <2>1, <2>2, SumWithZeros
  <2> QED
    BY <2>3, SumOfEmpty DEF Total
<1>9. ASSUME NEW side \in Sides PROVE Counts(b, NoValues, side, 0)
  <2>1. ASSUME NEW x \in Int PROVE Total(NoValues, Falling(side, 0, x)) = 0
    <3>1. Falling(side, 0, x) \in SUBSET Values
      BY <1>1, FallingFacts
    <3> QED
      BY <1>8, <3>1
  <2> QED
    BY <1>5, <1>7, <2>1 DEF Counts
<1>10. /\ NewHistogram \in Histograms /\ Places(NewHistogram) = 0
       /\ NewHistogram.count = 0 /\ NewHistogram.zeroCount = 0
       /\ \A side \in Sides : Buckets(NewHistogram, side) = b
  <2>1. b \in BucketsType
    BY <1>7, CountsType
  <2>2. NewHistogram = [count |-> 0, zeroCount |-> 0, scale |-> MaxScale, positive |-> b, negative |-> b]
    BY DEF NewHistogram, b
  <2>3. MaxScale \in Int
    BY HistogramAssumption
  <2> QED
    BY <2>1, <2>2, <2>3 DEF Histograms, Places, Buckets
<1>11. Total(NoValues, Values) = 0 /\ NoValues[Zero] = 0
  BY <1>8, ValuesFacts DEF NoValues
<1> QED
  BY <1>1, <1>9, <1>10, <1>11 DEF Kept, Sided

\* Scaling down keeps the counts of both sides.
LEMMA DownscaleKeeps ==
  ASSUME NEW bag \in Bags, NEW h, Sided(h, bag), NEW change \in Nat, Places(h) + change <= 30
  PROVE  LET d == Downscale(h, change)
         IN /\ Sided(d, bag) /\ d.count = h.count /\ d.zeroCount = h.zeroCount
            /\ d.scale = h.scale - change
            /\ \A side \in Sides :
                 LET ours == Buckets(d, side)
                     theirs == Buckets(h, side)
                 IN /\ Length(ours) = 0 <=> Length(theirs) = 0
                    /\ ours.start = Shr(theirs.start, change)
                    /\ ours.end = Shr(theirs.end, change)
<1> DEFINE d == Downscale(h, change)
<1>1. /\ h \in Histograms /\ Places(h) \in 0 .. 30 /\ h.scale \in Int /\ MaxScale \in Int
      /\ Counts(h.positive, bag, "positive", Places(h))
      /\ Counts(h.negative, bag, "negative", Places(h))
  BY HistogramAssumption DEF Sided, Histograms, Sides, Buckets
<1>2. CASE change = 0
  <2>1. d = h
    BY <1>2 DEF Downscale
  <2>2. ASSUME NEW side \in Sides
        PROVE  /\ Buckets(h, side).start = Shr(Buckets(h, side).start, change)
               /\ Buckets(h, side).end = Shr(Buckets(h, side).end, change)
    <3>1. PICK n : LooseRing(Buckets(h, side), n)
      BY DEF Sided, Counts, TightRing, Ring
    <3>2. Buckets(h, side).start \in Int /\ Buckets(h, side).end \in Int
      BY <3>1, RingBounds
    <3> QED
      BY <1>2, <3>2, ShrZero
  <2>3. d.scale = h.scale - change
    BY <1>1, <1>2, <2>1
  <2> HIDE DEF d
  <2> QED
    BY <2>1, <2>2, <2>3 DEF d
<1>3. CASE change # 0
  <2> DEFINE pos == DownscaleBuckets(h.positive, change)
             neg == DownscaleBuckets(h.negative, change)
  <2>1. d = [h EXCEPT !.scale = h.scale - change, !.positive = pos, !.negative = neg]
    BY <1>3 DEF Downscale
  <2>2. Places(h) \in Nat /\ "positive" \in Sides /\ "negative" \in Sides
    BY <1>1 DEF Sides
  <2>3. /\ Counts(pos, bag, "positive", Places(h) + change)
        /\ pos.start = Shr(h.positive.start, change) /\ pos.end = Shr(h.positive.end, change)
        /\ Length(pos) = 0 <=> Length(h.positive) = 0
    BY <1>1, <2>2, CountsDownscaled
  <2>4. /\ Counts(neg, bag, "negative", Places(h) + change)
        /\ neg.start = Shr(h.negative.start, change) /\ neg.end = Shr(h.negative.end, change)
        /\ Length(neg) = 0 <=> Length(h.negative) = 0
    BY <1>1, <2>2, CountsDownscaled
  <2>5. pos \in BucketsType /\ neg \in BucketsType
    BY <2>3, <2>4, CountsType DEF Counts
  <2> HIDE DEF d, pos, neg
  <2>6. /\ d \in Histograms /\ d.count = h.count /\ d.zeroCount = h.zeroCount
        /\ d.scale = h.scale - change /\ d.positive = pos /\ d.negative = neg
    <3>1. PICK scale \in Int : scale = h.scale - change
      BY <1>1
    <3>2. d = [h EXCEPT !.scale = scale, !.positive = pos, !.negative = neg]
      BY <2>1, <3>1
    <3>3. /\ d.count = h.count /\ d.zeroCount = h.zeroCount /\ d.scale = scale
          /\ d.positive = pos /\ d.negative = neg
          /\ d = [count |-> d.count, zeroCount |-> d.zeroCount, scale |-> d.scale,
                  positive |-> d.positive, negative |-> d.negative]
          /\ h.count \in Nat /\ h.zeroCount \in Nat
      BY <1>1, <3>2 DEF Histograms
    <3>4. d \in Histograms
      BY <2>5, <3>1, <3>3 DEF Histograms
    <3> QED
      BY <3>1, <3>3, <3>4
  <2>7. Places(d) = Places(h) + change /\ Places(d) \in 0 .. 30
    BY <1>1, <2>6 DEF Places
  <2>8. Sided(d, bag)
    BY <2>3, <2>4, <2>6, <2>7 DEF Sided, Sides, Buckets
  <2> QED
    BY <2>3, <2>4, <2>6, <2>8 DEF Sides, Buckets, d
<1> QED
  BY <1>2, <1>3

\* A histogram holds as many values as zeros when it holds only zeros.
LEMMA OnlyZerosCounted ==
  ASSUME NEW bag \in Bags
  PROVE  /\ Total(bag, Values) \in Nat /\ bag[Zero] \in Nat /\ bag[Zero] <= Total(bag, Values)
         /\ Total(bag, Values) = bag[Zero] <=> OnlyZeros(bag)
<1>1. IsFiniteSet(Values) /\ Zero \in Values /\ \A v \in Values : bag[v] \in Nat
  BY ValuesFacts DEF Bags
<1>2. SumFunctionOnSet(bag, Values)
        = SumFunctionOnSet(bag, {Zero}) + SumFunctionOnSet(bag, Values \ {Zero})
  <2>1. {Zero} \in SUBSET Values /\ \A v \in Values : bag[v] \in Int
    BY <1>1
  <2> QED
    BY <1>1, <2>1, SumOfTwoParts
<1>3. SumFunctionOnSet(bag, {Zero}) = bag[Zero] /\ bag[Zero] \in Nat
  BY <1>1, SumOfOne
<1>4. /\ IsFiniteSet(Values \ {Zero}) /\ \A v \in Values \ {Zero} : bag[v] \in Nat
  <2>1. Values \ {Zero} \in SUBSET Values
    OBVIOUS
  <2> QED
    BY <1>1, <2>1, FS_Subset
<1>5. SumFunctionOnSet(bag, Values \ {Zero}) \in Nat
  BY <1>4, SumIsNat
<1>6. SumFunctionOnSet(bag, Values \ {Zero}) = 0 <=> OnlyZeros(bag)
  <2>1. ASSUME OnlyZeros(bag) PROVE SumFunctionOnSet(bag, Values \ {Zero}) = 0
    <3>1. {} \in SUBSET (Values \ {Zero}) /\ \A v \in (Values \ {Zero}) \ {} : bag[v] = 0
      BY <2>1 DEF OnlyZeros
    <3>2. \A v \in Values \ {Zero} : bag[v] \in Int
      BY <1>4
    <3>3. SumFunctionOnSet(bag, {}) = SumFunctionOnSet(bag, Values \ {Zero})
      BY <1>4, <3>1, <3>2, SumWithZeros
    <3> QED
      BY <3>3, SumOfEmpty
  <2>2. ASSUME SumFunctionOnSet(bag, Values \ {Zero}) = 0 PROVE OnlyZeros(bag)
    BY <1>4, <2>2, SumIsZero DEF OnlyZeros
  <2> QED
    BY <2>1, <2>2
<1> QED
  BY <1>2, <1>3, <1>5, <1>6 DEF Total

\* An index of a histogram, once shifted to a smaller scale.
Index(x, e) == x \in Int /\ Shr(x, 30 - e) \in {-1, 0}

\* Shifting buckets by so much brings them from d to e places.
Brings(b, d, shift, e) == Length(b) # 0 => shift \in Nat /\ d + shift = e

\* The lowest and the highest index of buckets, at e places.
Ends(ends, b, shift, e) ==
  /\ Index(ends.low, e) /\ Index(ends.high, e)
  /\ Length(b) # 0 => ends.low = Shr(b.start, shift) /\ ends.high = Shr(b.end, shift)
  /\ Length(b) = 0 => ends.low = 0 /\ ends.high = -1

LEMMA HighLowFacts ==
  ASSUME NEW bag \in Bags, NEW side \in Sides, NEW d \in 0 .. 30, NEW b,
         Counts(b, bag, side, d), NEW e \in 0 .. 30, NEW shift,
         Brings(b, d, shift, e)
  PROVE  Ends(HighLow(b, shift), b, shift, e)
<1>1. CASE Length(b) = 0
  <2>1. HighLow(b, shift).low = 0 /\ HighLow(b, shift).high = -1
    BY <1>1 DEF HighLow
  <2>2. 30 - e \in 0 .. 31
    OBVIOUS
  <2>3. Shr(0, 30 - e) = 0 /\ Shr(-1, 30 - e) = -1
    BY <2>2, ShrOfSign
  <2> QED
    BY <1>1, <2>1, <2>3 DEF Index, Ends
<1>2. CASE Length(b) # 0
  <2>1. HighLow(b, shift).low = Shr(b.start, shift) /\ HighLow(b, shift).high = Shr(b.end, shift)
    BY <1>2 DEF HighLow
  <2>2. /\ b.start \in Int /\ b.end \in Int
        /\ Shr(b.start, 30 - d) \in {-1, 0} /\ Shr(b.end, 30 - d) \in {-1, 0}
    BY <1>2, CountsEnds
  <2>3. /\ shift \in Nat /\ 30 - e \in Nat /\ shift + (30 - e) = 30 - d /\ shift \in 0 .. 31
        /\ shift + (30 - e) <= 31
    <3>1. shift \in Nat /\ d + shift = e
      BY <1>2 DEF Brings
    <3> QED
      BY ONLY <3>1, d \in 0 .. 30, e \in 0 .. 30
  <2>4. ASSUME NEW x \in Int, Shr(x, 30 - d) \in {-1, 0} PROVE Index(Shr(x, shift), e)
    <3>1. Shr(Shr(x, shift), 30 - e) = Shr(x, 30 - d)
      BY <2>3, ShrTwice
    <3>2. Shr(x, shift) \in Int
      BY <2>3, ShrIsDiv
    <3> QED
      BY <2>4, <3>1, <3>2 DEF Index
  <2> QED
    BY <1>2, <2>1, <2>2, <2>4 DEF Ends
<1> QED
  BY <1>1, <1>2

LEMMA IndexOfTwo ==
  ASSUME NEW x, NEW y, NEW e \in 0 .. 30, Index(x, e), Index(y, e)
  PROVE  /\ Index(Max({x, y}), e) /\ Index(Min({x, y}), e)
         /\ x <= Max({x, y}) /\ y <= Max({x, y}) /\ Min({x, y}) <= x /\ Min({x, y}) <= y
<1>1. x \in Int /\ y \in Int
  BY DEF Index
<1>2. Max({x, y}) \in {x, y} /\ Min({x, y}) \in {x, y}
      /\ x <= Max({x, y}) /\ y <= Max({x, y}) /\ Min({x, y}) <= x /\ Min({x, y}) <= y
  BY <1>1, MinOfTwo, MaxOfTwo
<1> QED
  BY <1>2

\* After the change of scale, and any further one, both ends fit.
LEMMA ChangeFits ==
  ASSUME NEW high, NEW low, NEW e \in 0 .. 30, Index(high, e), Index(low, e)
  PROVE  /\ ChangeScale(high, low) \in 0 .. 30 - e
         /\ \A by \in ChangeScale(high, low) .. 30 - e :
              /\ Shr(high, by) \in Int /\ Shr(low, by) \in Int
              /\ Shr(high, by) - Shr(low, by) < MaxSize
<1>1. high \in Int /\ low \in Int /\ 30 - e \in 0 .. 30
      /\ Shr(high, 30 - e) \in {-1, 0} /\ Shr(low, 30 - e) \in {-1, 0}
  BY DEF Index
<1>2. PICK change : change = ChangeScale(high, low)
  OBVIOUS
<1>3. change \in 0 .. 30 - e /\ Shr(high, change) - Shr(low, change) < MaxSize
  BY <1>1, <1>2, HalvingsFacts DEF ChangeScale
<1>4. ASSUME NEW by \in change .. 30 - e
      PROVE  /\ Shr(high, by) \in Int /\ Shr(low, by) \in Int
             /\ Shr(high, by) - Shr(low, by) < MaxSize
  <2>1. /\ by \in 0 .. 31 /\ change \in Nat /\ change \in 0 .. 31
        /\ by - change \in Nat /\ by - change \in 0 .. 31
        /\ change + (by - change) = by /\ change + (by - change) <= 31
    BY <1>3
  <2>2. Shr(high, change) \in Int /\ Shr(low, change) \in Int
        /\ Shr(high, by) \in Int /\ Shr(low, by) \in Int
    BY <1>1, <2>1, ShrIsDiv
  <2>3. Shr(Shr(high, change), by - change) = Shr(high, by)
    BY <1>1, <2>1, ShrTwice
  <2>4. Shr(Shr(low, change), by - change) = Shr(low, by)
    BY <1>1, <2>1, ShrTwice
  <2>5. Shr(Shr(high, change), by - change) - Shr(Shr(low, change), by - change) < MaxSize
    BY <1>3, <2>1, <2>2, FitsOn
  <2> QED
    BY <2>2, <2>3, <2>4, <2>5
<1> QED
  BY <1>2, <1>3, <1>4

\* A change for one side makes its buckets fit together with another's, and
\* there is none when both are empty.
SideFitting(b1, shift1, b2, shift2, e, change) ==
  /\ change \in 0 .. 30 - e
  /\ Length(b1) = 0 /\ Length(b2) = 0 => change = 0
  /\ \A by \in change .. 30 - e : \E low \in Int, high \in Int :
       /\ high - low < MaxSize
       /\ Length(b1) # 0 => low <= Shr(b1.start, shift1 + by) /\ Shr(b1.end, shift1 + by) <= high
       /\ Length(b2) # 0 => low <= Shr(b2.start, shift2 + by) /\ Shr(b2.end, shift2 + by) <= high

LEMMA SideFits ==
  ASSUME NEW side \in Sides, NEW e \in 0 .. 30,
         NEW bag1 \in Bags, NEW d1 \in 0 .. 30, NEW b1, Counts(b1, bag1, side, d1), NEW shift1,
         Brings(b1, d1, shift1, e),
         NEW bag2 \in Bags, NEW d2 \in 0 .. 30, NEW b2, Counts(b2, bag2, side, d2), NEW shift2,
         Brings(b2, d2, shift2, e),
         NEW change,
         change = ChangeScale(Max({HighLow(b1, shift1).high, HighLow(b2, shift2).high}),
                              Min({HighLow(b1, shift1).low, HighLow(b2, shift2).low}))
  PROVE  SideFitting(b1, shift1, b2, shift2, e, change)
<1>1. PICK h1, h2, l1, l2 :
        /\ h1 = HighLow(b1, shift1).high /\ l1 = HighLow(b1, shift1).low
        /\ h2 = HighLow(b2, shift2).high /\ l2 = HighLow(b2, shift2).low
  OBVIOUS
<1>2. /\ Index(l1, e) /\ Index(h1, e)
      /\ Length(b1) # 0 => l1 = Shr(b1.start, shift1) /\ h1 = Shr(b1.end, shift1)
      /\ Length(b1) = 0 => l1 = 0 /\ h1 = -1
  <2>1. Ends(HighLow(b1, shift1), b1, shift1, e)
    BY HighLowFacts
  <2> QED
    BY <1>1, <2>1 DEF Ends
<1>3. /\ Index(l2, e) /\ Index(h2, e)
      /\ Length(b2) # 0 => l2 = Shr(b2.start, shift2) /\ h2 = Shr(b2.end, shift2)
      /\ Length(b2) = 0 => l2 = 0 /\ h2 = -1
  <2>1. Ends(HighLow(b2, shift2), b2, shift2, e)
    BY HighLowFacts
  <2> QED
    BY <1>1, <2>1 DEF Ends
<1>4. PICK high, low : high = Max({h1, h2}) /\ low = Min({l1, l2})
  OBVIOUS
<1>5. /\ Index(high, e) /\ Index(low, e)
      /\ h1 <= high /\ h2 <= high /\ low <= l1 /\ low <= l2
  BY <1>2, <1>3, <1>4, IndexOfTwo
<1>6. change = ChangeScale(high, low)
  BY <1>1, <1>4
<1>7. /\ change \in 0 .. 30 - e
      /\ \A by \in change .. 30 - e :
           /\ Shr(high, by) \in Int /\ Shr(low, by) \in Int
           /\ Shr(high, by) - Shr(low, by) < MaxSize
  BY <1>5, <1>6, ChangeFits
<1>8. ASSUME Length(b1) = 0, Length(b2) = 0 PROVE change = 0
  <2>1. high = -1 /\ low = 0
    <3>1. {h1, h2} = {-1} /\ {l1, l2} = {0}
      BY <1>2, <1>3, <1>8
    <3>2. Max({-1, -1}) = -1 /\ Min({0, 0}) = 0
      BY MinOfTwo, MaxOfTwo
    <3> QED
      BY <1>4, <3>1, <3>2
  <2>2. Shr(-1, 0) \in {-1, 0} /\ Shr(0, 0) \in {-1, 0}
    BY ShrZero
  <2>3. Halvings(-1, 0) \in 0 .. 0
    BY <2>2, HalvingsFacts
  <2> QED
    BY <1>6, <2>1, <2>3 DEF ChangeScale
<1>9. ASSUME NEW by \in change .. 30 - e
      PROVE  \E l \in Int, h \in Int :
        /\ h - l < MaxSize
        /\ Length(b1) # 0 => l <= Shr(b1.start, shift1 + by) /\ Shr(b1.end, shift1 + by) <= h
        /\ Length(b2) # 0 => l <= Shr(b2.start, shift2 + by) /\ Shr(b2.end, shift2 + by) <= h
  <2>1. Shr(high, by) \in Int /\ Shr(low, by) \in Int /\ Shr(high, by) - Shr(low, by) < MaxSize
    BY <1>7
  <2>2. by \in 0 .. 31 /\ by \in Nat /\ by <= 30 - e
    BY <1>7
  <2>3. ASSUME NEW x, Index(x, e)
        PROVE  /\ low <= x => Shr(low, by) <= Shr(x, by)
               /\ x <= high => Shr(x, by) <= Shr(high, by)
    BY <1>5, <2>2, <2>3, ShrMonotone DEF Index
  <2>4. ASSUME Length(b1) # 0
        PROVE  Shr(low, by) <= Shr(b1.start, shift1 + by) /\ Shr(b1.end, shift1 + by) <= Shr(high, by)
    <3>1. b1.start \in Int /\ b1.end \in Int
      BY <2>4, CountsEnds
    <3>2. shift1 \in Nat /\ shift1 + by <= 31
      <4>1. shift1 \in Nat /\ d1 + shift1 = e
        BY <2>4 DEF Brings
      <4> QED
        BY ONLY <2>2, <4>1, d1 \in 0 .. 30, e \in 0 .. 30
    <3>3. Shr(l1, by) = Shr(b1.start, shift1 + by) /\ Shr(h1, by) = Shr(b1.end, shift1 + by)
      BY ZenonT(40), <1>2, <2>2, <2>4, <3>1, <3>2, ShrTwice
    <3> QED
      BY <1>2, <1>5, <2>3, <3>3
  <2>5. ASSUME Length(b2) # 0
        PROVE  Shr(low, by) <= Shr(b2.start, shift2 + by) /\ Shr(b2.end, shift2 + by) <= Shr(high, by)
    <3>1. b2.start \in Int /\ b2.end \in Int
      BY <2>5, CountsEnds
    <3>2. shift2 \in Nat /\ shift2 + by <= 31
      <4>1. shift2 \in Nat /\ d2 + shift2 = e
        BY <2>5 DEF Brings
      <4> QED
        BY ONLY <2>2, <4>1, d2 \in 0 .. 30, e \in 0 .. 30
    <3>3. Shr(l2, by) = Shr(b2.start, shift2 + by) /\ Shr(h2, by) = Shr(b2.end, shift2 + by)
      BY ZenonT(40), <1>3, <2>2, <2>5, <3>1, <3>2, ShrTwice
    <3> QED
      BY <1>3, <1>5, <2>3, <3>3
  <2> QED
    BY <2>1, <2>4, <2>5
<1> QED
  BY <1>7, <1>8, <1>9 DEF SideFitting

\* A histogram scaled down to take another one: both sides fit together with
\* the other's, once these are shifted.
Fitting(scaled, h, bag, o, shift) ==
  /\ Sided(scaled, bag) /\ scaled.count = h.count /\ scaled.zeroCount = h.zeroCount
  /\ shift \in 0 .. 31
  /\ \A side \in Sides :
       /\ Brings(Buckets(o, side), Places(o), shift, Places(scaled))
       /\ \E low \in Int, high \in Int :
            /\ high - low < MaxSize
            /\ Within(Buckets(scaled, side), low, high)
            /\ \/ Length(Buckets(o, side)) = 0
               \/ /\ low <= Shr(Buckets(o, side).start, shift)
                  /\ Shr(Buckets(o, side).end, shift) <= high

LEMMA ScaleFacts ==
  ASSUME NEW bag \in Bags, NEW h, Sided(h, bag),
         h.count = h.zeroCount => OnlyZeros(bag)
  PROVE  /\ Scale(h) \in Int /\ MaxScale - Scale(h) \in 0 .. 30
         /\ h.count = h.zeroCount => /\ Scale(h) = 0
                                     /\ \A side \in Sides : Length(Buckets(h, side)) = 0
         /\ h.count # h.zeroCount => Scale(h) = h.scale
<1>1. h.scale \in Int /\ MaxScale - h.scale \in 0 .. 30 /\ MaxScale \in 0 .. 30
  BY HistogramAssumption DEF Sided, Histograms, Places
<1>2. CASE h.count = h.zeroCount
  <2>1. Scale(h) = 0
    BY <1>2 DEF Scale
  <2>2. ASSUME NEW side \in Sides PROVE Length(Buckets(h, side)) = 0
    <3>1. \A v \in OfSide(side) : bag[v] = 0
      BY <1>2, ValuesFacts DEF OnlyZeros, Sides
    <3>2. Counts(Buckets(h, side), bag, side, Places(h)) /\ Places(h) \in 0 .. 30
      BY DEF Sided
    <3> QED
      BY <3>1, <3>2, CountsNothing
  <2> QED
    BY <1>1, <1>2, <2>1, <2>2
<1>3. CASE h.count # h.zeroCount
  BY <1>1, <1>3 DEF Scale
<1> QED
  BY <1>2, <1>3

LEMMA ScaledFacts ==
  ASSUME NEW bag \in Bags, NEW h, Sided(h, bag),
         NEW bag2 \in Bags, NEW o, Sided(o, bag2),
         h.count = h.zeroCount => OnlyZeros(bag) /\ OnlyZeros(bag2),
         o.count = o.zeroCount <=> OnlyZeros(bag2),
         NEW scale, scale = MinScale(h, o)
  PROVE  Fitting(Downscale(h, Scale(h) - scale), h, bag, o, Scale(o) - scale)
<1>1. PICK s1 \in Int, s2 \in Int : s1 = Scale(h) /\ s2 = Scale(o)
  BY ScaleFacts
<1>2. /\ MaxScale - s1 \in 0 .. 30 /\ MaxScale - s2 \in 0 .. 30 /\ MaxScale \in 0 .. 30
      /\ h.count = h.zeroCount => s1 = 0 /\ \A side \in Sides : Length(Buckets(h, side)) = 0
      /\ h.count # h.zeroCount => s1 = h.scale
      /\ o.count = o.zeroCount => s2 = 0 /\ \A side \in Sides : Length(Buckets(o, side)) = 0
      /\ o.count # o.zeroCount => s2 = o.scale
  <2>1. MaxScale - s1 \in 0 .. 30
        /\ (h.count = h.zeroCount => s1 = 0 /\ \A side \in Sides : Length(Buckets(h, side)) = 0)
        /\ (h.count # h.zeroCount => s1 = h.scale)
    BY <1>1, ScaleFacts
  <2>2. MaxScale - s2 \in 0 .. 30
        /\ (o.count = o.zeroCount => s2 = 0 /\ \A side \in Sides : Length(Buckets(o, side)) = 0)
        /\ (o.count # o.zeroCount => s2 = o.scale)
    BY <1>1, ScaleFacts
  <2> QED
    BY <2>1, <2>2, HistogramAssumption
<1>3. PICK s0 \in Int, e \in Int : s0 = Min({s1, s2}) /\ e = MaxScale - s0
  <2>1. Min({s1, s2}) \in Int
    BY MinOfTwo
  <2> QED
    BY <1>2, <2>1
<1>4. s0 <= s1 /\ s0 <= s2 /\ e \in 0 .. 30 /\ (s0 = s1 \/ s0 = s2)
  <2>1. s0 = IF s1 <= s2 THEN s1 ELSE s2
    BY <1>3, MinOfTwo
  <2>2. PICK m \in Int : m = MaxScale
    BY <1>2
  <2>3. m - s1 \in 0 .. 30 /\ m - s2 \in 0 .. 30 /\ e = m - s0
    BY <1>2, <1>3, <2>2
  <2> QED
    BY ONLY <2>1, <2>3, m \in Int, s0 \in Int, s1 \in Int, s2 \in Int
<1>5. PICK d1 \in 0 .. 30, d2 \in 0 .. 30 : d1 = Places(h) /\ d2 = Places(o)
  BY DEF Sided
<1>6. h.scale \in Int /\ o.scale \in Int /\ d1 = MaxScale - h.scale /\ d2 = MaxScale - o.scale
  BY <1>5 DEF Sided, Histograms, Places
<1>7. ASSUME NEW side \in Sides
      PROVE  /\ Brings(Buckets(h, side), d1, s1 - s0, e) /\ Brings(Buckets(o, side), d2, s2 - s0, e)
             /\ Counts(Buckets(h, side), bag, side, d1) /\ Counts(Buckets(o, side), bag2, side, d2)
  <2>1. ASSUME Length(Buckets(h, side)) # 0 PROVE s1 - s0 \in Nat /\ d1 + (s1 - s0) = e
    <3>1. s1 = h.scale
      BY <1>2, <2>1
    <3> QED
      BY <1>2, <1>3, <1>4, <1>6, <3>1
  <2>2. ASSUME Length(Buckets(o, side)) # 0 PROVE s2 - s0 \in Nat /\ d2 + (s2 - s0) = e
    <3>1. s2 = o.scale
      BY <1>2, <2>2
    <3> QED
      BY <1>2, <1>3, <1>4, <1>6, <3>1
  <2> QED
    BY <1>5, <2>1, <2>2 DEF Brings, Sided
<1> DEFINE ChangeOf(side) ==
             ChangeScale(Max({HighLow(Buckets(h, side), s1 - s0).high,
                              HighLow(Buckets(o, side), s2 - s0).high}),
                         Min({HighLow(Buckets(h, side), s1 - s0).low,
                              HighLow(Buckets(o, side), s2 - s0).low}))
           Fits(side, by, low, high) ==
             /\ high - low < MaxSize
             /\ Length(Buckets(h, side)) # 0 =>
                  /\ low <= Shr(Buckets(h, side).start, (s1 - s0) + by)
                  /\ Shr(Buckets(h, side).end, (s1 - s0) + by) <= high
             /\ Length(Buckets(o, side)) # 0 =>
                  /\ low <= Shr(Buckets(o, side).start, (s2 - s0) + by)
                  /\ Shr(Buckets(o, side).end, (s2 - s0) + by) <= high
<1>8. ASSUME NEW side \in Sides
      PROVE  /\ ChangeOf(side) \in 0 .. 30 - e
             /\ Length(Buckets(h, side)) = 0 /\ Length(Buckets(o, side)) = 0 => ChangeOf(side) = 0
             /\ \A by \in ChangeOf(side) .. 30 - e : \E low \in Int, high \in Int : Fits(side, by, low, high)
  <2>1. /\ Brings(Buckets(h, side), d1, s1 - s0, e) /\ Brings(Buckets(o, side), d2, s2 - s0, e)
        /\ Counts(Buckets(h, side), bag, side, d1) /\ Counts(Buckets(o, side), bag2, side, d2)
    BY <1>7
  <2>2. PICK b1, b2, t1, t2 : /\ b1 = Buckets(h, side) /\ b2 = Buckets(o, side)
                              /\ t1 = s1 - s0 /\ t2 = s2 - s0
    OBVIOUS
  <2>3. PICK change : change = ChangeScale(Max({HighLow(b1, t1).high, HighLow(b2, t2).high}),
                                           Min({HighLow(b1, t1).low, HighLow(b2, t2).low}))
    OBVIOUS
  <2>4. e \in 0 .. 30 /\ d1 \in 0 .. 30 /\ d2 \in 0 .. 30
        /\ Brings(b1, d1, t1, e) /\ Brings(b2, d2, t2, e)
        /\ Counts(b1, bag, side, d1) /\ Counts(b2, bag2, side, d2)
    BY <1>4, <2>1, <2>2
  <2>5. SideFitting(b1, t1, b2, t2, e, change)
    BY ONLY <2>3, <2>4, SideFits, side \in Sides, bag \in Bags, bag2 \in Bags
  <2> QED
    BY <2>2, <2>3, <2>5 DEF SideFitting
<1>9. PICK cp \in 0 .. 30 - e, cn \in 0 .. 30 - e : cp = ChangeOf("positive") /\ cn = ChangeOf("negative")
  <2> HIDE DEF ChangeOf, Fits
  <2> QED
    BY <1>8 DEF Sides
<1>10. scale = Min({s0 - cp, s0 - cn})
  <2>1. scale = Min({s0 - ChangeOf("positive"), s0 - ChangeOf("negative")})
    BY <1>1, <1>3 DEF MinScale
  <2> QED
    BY <1>9, <2>1
<1> HIDE DEF ChangeOf
<1>11. PICK by \in Int : by = s0 - scale
  <2>1. Min({s0 - cp, s0 - cn}) \in Int
    <3>1. s0 - cp \in Int /\ s0 - cn \in Int
      OBVIOUS
    <3> QED
      BY <3>1, MinOfTwo
  <2> QED
    BY <1>10, <2>1
<1>12. /\ scale \in Int /\ scale = s0 - by /\ by \in 0 .. 30 - e /\ cp <= by /\ cn <= by
       /\ by = cp \/ by = cn
  <2>1. scale = IF s0 - cp <= s0 - cn THEN s0 - cp ELSE s0 - cn
    <3>1. s0 - cp \in Int /\ s0 - cn \in Int
      OBVIOUS
    <3> QED
      BY <1>10, <3>1, MinOfTwo
  <2>2. e \in Int
    BY <1>4
  <2> QED
    BY <1>11, <2>1, <2>2
<1>13. PICK t1 \in Int, t2 \in Int :
         /\ t1 = s1 - scale /\ t2 = s2 - scale
         /\ t1 = (s1 - s0) + by /\ t2 = (s2 - s0) + by
  BY <1>12
<1>14. t1 \in Nat /\ t2 \in 0 .. 31
  <2>1. PICK m \in Int : m = MaxScale
    BY <1>2
  <2>2. m - s2 \in 0 .. 30 /\ e = m - s0
    BY <1>2, <1>3, <2>1
  <2> QED
    BY ONLY <1>4, <1>12, <1>13, <2>2, m \in Int, s0 \in Int, s1 \in Int, s2 \in Int,
            t1 \in Int, t2 \in Int, by \in Int, e \in Int
<1>15. d1 + t1 <= 30 /\ (h.count # h.zeroCount => d1 + t1 = e + by)
  <2>1. CASE h.count # h.zeroCount
    <3>1. s1 = h.scale
      BY <1>2, <2>1
    <3> QED
      BY <1>2, <1>3, <1>4, <1>6, <1>12, <1>13, <3>1
  <2>2. CASE h.count = h.zeroCount
    <3>1. s1 = 0 /\ s2 = 0 /\ \A side \in Sides : Length(Buckets(h, side)) = 0 /\ Length(Buckets(o, side)) = 0
      BY <1>2, <2>2
    <3>2. cp = 0 /\ cn = 0
      BY <1>8, <1>9, <3>1 DEF Sides
    <3>3. t1 = 0
      BY <1>4, <1>12, <1>13, <3>1, <3>2
    <3> QED
      BY <2>2, <3>3
  <2> QED
    BY <2>1, <2>2
<1>16. PICK d : d = Downscale(h, t1)
  OBVIOUS
<1>17. /\ Sided(d, bag) /\ d.count = h.count /\ d.zeroCount = h.zeroCount
       /\ d.scale = h.scale - t1
       /\ \A side \in Sides : /\ Length(Buckets(d, side)) = 0 <=> Length(Buckets(h, side)) = 0
                              /\ Buckets(d, side).start = Shr(Buckets(h, side).start, t1)
                              /\ Buckets(d, side).end = Shr(Buckets(h, side).end, t1)
  BY <1>5, <1>14, <1>15, <1>16, DownscaleKeeps
<1>18. Places(d) = d1 + t1
  BY <1>2, <1>6, <1>13, <1>17 DEF Places
<1>19. ASSUME NEW side \in Sides PROVE Brings(Buckets(o, side), Places(o), t2, Places(d))
  <2> SUFFICES ASSUME Length(Buckets(o, side)) # 0 PROVE t2 \in Nat /\ d2 + t2 = d1 + t1
    BY <1>5, <1>18 DEF Brings
  <2>1. o.count # o.zeroCount /\ s2 = o.scale
    BY <1>2
  <2>2. h.count # h.zeroCount
    BY <2>1
  <2>3. d1 + t1 = e + by /\ s1 = h.scale
    BY <1>2, <1>15, <2>2
  <2> QED
    BY SMTT(30), <1>2, <1>3, <1>4, <1>6, <1>12, <1>13, <1>14, <2>1, <2>3
<1>20. ASSUME NEW side \in Sides
       PROVE  \E low \in Int, high \in Int :
                /\ high - low < MaxSize
                /\ Within(Buckets(d, side), low, high)
                /\ \/ Length(Buckets(o, side)) = 0
                   \/ /\ low <= Shr(Buckets(o, side).start, t2)
                      /\ Shr(Buckets(o, side).end, t2) <= high
  <2>1. by \in ChangeOf(side) .. 30 - e
    <3>1. ChangeOf(side) \in Int /\ ChangeOf(side) <= by
      BY <1>8, <1>9, <1>12 DEF Sides
    <3> QED
      BY <1>12, <3>1
  <2>2. PICK low \in Int, high \in Int : Fits(side, by, low, high)
    BY <1>8, <2>1
  <2>3. /\ high - low < MaxSize
        /\ Length(Buckets(h, side)) # 0 =>
             low <= Shr(Buckets(h, side).start, t1) /\ Shr(Buckets(h, side).end, t1) <= high
        /\ Length(Buckets(o, side)) # 0 =>
             low <= Shr(Buckets(o, side).start, t2) /\ Shr(Buckets(o, side).end, t2) <= high
    BY <1>13, <2>2
  <2>4. Within(Buckets(d, side), low, high)
    BY <1>17, <2>3 DEF Within
  <2> QED
    BY <2>3, <2>4
<1>21. Fitting(d, h, bag, o, t2)
  BY <1>14, <1>17, <1>19, <1>20 DEF Fitting
<1> QED
  BY <1>1, <1>13, <1>16, <1>21

-------------------------------------------------------------------------------
\* Recording a value

OneMore(bag, v) == [bag EXCEPT ![v] = @ + 1]

LEMMA OneMoreFacts ==
  ASSUME NEW bag \in Bags, NEW v \in Values
  PROVE  /\ OneMore(bag, v) \in Bags
         /\ Total(OneMore(bag, v), Values) = Total(bag, Values) + 1
         /\ OneMore(bag, v)[Zero] = IF v = Zero THEN bag[Zero] + 1 ELSE bag[Zero]
<1> DEFINE more == OneMore(bag, v)
<1>1. \A z \in Values : bag[z] \in Nat /\ more[z] = IF z = v THEN bag[z] + 1 ELSE bag[z]
  BY DEF Bags, OneMore
<1>2. more \in Bags
  BY <1>1 DEF Bags, OneMore
<1> HIDE DEF more
<1>3. SumFunctionOnSet(more, Values) = SumFunctionOnSet(bag, Values) + more[v] - bag[v]
  <2>1. IsFiniteSet(Values) /\ \A z \in Values : bag[z] \in Int
    BY <1>1, ValuesFacts
  <2>2. more[v] \in Int /\ \A z \in Values \ {v} : more[z] = bag[z]
    BY <1>1
  <2> QED
    BY <2>1, <2>2, SumWithChange
<1>4. SumFunctionOnSet(bag, Values) \in Nat
  BY OnlyZerosCounted DEF Total
<1>5. more[v] = bag[v] + 1 /\ bag[v] \in Nat
  BY <1>1
<1>6. SumFunctionOnSet(more, Values) = SumFunctionOnSet(bag, Values) + 1
  BY <1>3, <1>4, <1>5
<1> QED
  BY <1>1, <1>2, <1>6, ValuesFacts DEF more, Total

LEMMA CountsElsewhere ==
  ASSUME NEW bag \in Bags, NEW side \in Sides, NEW d, NEW b, Counts(b, bag, side, d),
         NEW v \in Values, v \notin OfSide(side)
  PROVE  Counts(b, OneMore(bag, v), side, d)
<1>1. ASSUME NEW x \in Int
      PROVE  Total(OneMore(bag, v), Falling(side, d, x)) = Total(bag, Falling(side, d, x))
  <2>1. IsFiniteSet(Falling(side, d, x)) /\ \A z \in Falling(side, d, x) : bag[z] \in Int
        /\ Falling(side, d, x) \subseteq Values
    BY FallingFacts
  <2>2. \A z \in Falling(side, d, x) : OneMore(bag, v)[z] = bag[z]
    BY <2>1 DEF Bags, Falling, OneMore
  <2> QED
    BY <2>1, <2>2, SumOfEqual DEF Total
<1> QED
  BY <1>1 DEF Counts

\* The change of scale makes room for an index.
LEMMA ChangeFacts ==
  ASSUME NEW bag \in Bags, NEW side \in Sides, NEW d \in 0 .. 30, NEW b,
         Counts(b, bag, side, d), NEW v \in OfSide(side)
  PROVE  /\ Change(b, Shr(v.index, d)) \in 0 .. 30 - d
         /\ \E low \in Int, high \in Int :
              /\ high - low < MaxSize
              /\ Shr(v.index, d + Change(b, Shr(v.index, d))) \in low .. high
              /\ Length(b) # 0 =>
                   /\ low <= Shr(b.start, Change(b, Shr(v.index, d)))
                   /\ Shr(b.end, Change(b, Shr(v.index, d))) <= high
<1>1. v.index \in Int /\ Shr(v.index, 30) \in {-1, 0}
  BY ValuesFacts
<1>2. d \in 0 .. 31 /\ d \in Nat /\ 30 - d \in Nat /\ d + (30 - d) = 30 /\ d + (30 - d) <= 31
  OBVIOUS
<1>3. PICK index \in Int : index = Shr(v.index, d)
  BY <1>1, <1>2, ShrIsDiv
<1>4. Index(index, d)
  <2>1. Shr(index, 30 - d) = Shr(v.index, d + (30 - d))
    BY <1>1, <1>2, <1>3, ShrTwice
  <2> QED
    BY <1>1, <1>2, <2>1 DEF Index
<1>5. PICK change : change = Change(b, index)
  OBVIOUS
<1>6. ASSUME NEW low \in Int, NEW high \in Int, change \in 0 .. 30 - d,
             Shr(low, change) \in Int, Shr(high, change) \in Int,
             Shr(high, change) - Shr(low, change) < MaxSize,
             low <= index, index <= high,
             Length(b) # 0 => b.start \in Int /\ b.end \in Int /\ low <= b.start /\ b.end <= high
      PROVE  \E l \in Int, h \in Int :
               /\ h - l < MaxSize
               /\ Shr(v.index, d + change) \in l .. h
               /\ Length(b) # 0 => l <= Shr(b.start, change) /\ Shr(b.end, change) <= h
  <2>1. change \in 0 .. 31 /\ change \in Nat /\ d + change <= 31 /\ d + change \in 0 .. 31
    BY <1>6
  <2>2. Shr(low, change) <= Shr(index, change) /\ Shr(index, change) <= Shr(high, change)
    BY <1>6, <2>1, ShrMonotone
  <2>3. Shr(index, change) = Shr(v.index, d + change) /\ Shr(index, change) \in Int
    BY <1>1, <1>2, <1>3, <2>1, ShrTwice, ShrIsDiv
  <2>4. Length(b) # 0 => Shr(low, change) <= Shr(b.start, change)
                         /\ Shr(b.end, change) <= Shr(high, change)
    BY <1>6, <2>1, ShrMonotone
  <2>5. Shr(v.index, d + change) \in Shr(low, change) .. Shr(high, change)
    BY <1>6, <2>2, <2>3
  <2> QED
    BY <1>6, <2>4, <2>5
<1>7. CASE Length(b) = 0
  <2>1. change = 0
    BY <1>5, <1>7 DEF Change
  <2>2. Shr(index, change) = index /\ change \in 0 .. 30 - d
    BY <1>2, <2>1, ShrZero
  <2>3. index - index < MaxSize
    BY HistogramAssumption
  <2>4. \E l \in Int, h \in Int :
               /\ h - l < MaxSize
               /\ Shr(v.index, d + change) \in l .. h
               /\ Length(b) # 0 => l <= Shr(b.start, change) /\ Shr(b.end, change) <= h
    BY <1>6, <1>7, <2>2, <2>3
  <2> QED
    BY <1>3, <1>5, <2>2, <2>4
<1>8. CASE Length(b) # 0
  <2>1. Index(b.start, d) /\ Index(b.end, d) /\ b.start \in Int /\ b.end \in Int
    BY <1>8, CountsEnds DEF Index
  <2>2. PICK high, low : high = Max({b.end, index}) /\ low = Min({b.start, index})
    OBVIOUS
  <2>3. Index(high, d) /\ b.end <= high /\ index <= high
    BY <1>4, <2>1, <2>2, IndexOfTwo
  <2>4. Index(low, d) /\ low <= b.start /\ low <= index
    BY <1>4, <2>1, <2>2, IndexOfTwo
  <2>5. change = ChangeScale(high, low)
    BY <1>5, <1>8, <2>2 DEF Change
  <2>6. /\ change \in 0 .. 30 - d
        /\ \A by \in change .. 30 - d :
              /\ Shr(high, by) \in Int /\ Shr(low, by) \in Int
              /\ Shr(high, by) - Shr(low, by) < MaxSize
    BY <2>3, <2>4, <2>5, ChangeFits
  <2>7. change \in change .. 30 - d
    BY <2>6
  <2>8. high \in Int /\ low \in Int
    BY <2>3, <2>4 DEF Index
  <2>9. Shr(high, change) \in Int /\ Shr(low, change) \in Int
        /\ Shr(high, change) - Shr(low, change) < MaxSize
    BY <2>6, <2>7
  <2>10. \E l \in Int, h \in Int :
               /\ h - l < MaxSize
               /\ Shr(v.index, d + change) \in l .. h
               /\ Length(b) # 0 => l <= Shr(b.start, change) /\ Shr(b.end, change) <= h
    BY <1>6, <2>1, <2>3, <2>4, <2>6, <2>8, <2>9
  <2> QED
    BY <1>3, <1>5, <2>6, <2>10
<1> QED
  BY <1>7, <1>8

LEMMA RecordKeeps ==
  ASSUME NEW bag \in Bags, NEW h, Kept(h, bag), NEW v \in Values
  PROVE  Kept(Record(h, v), OneMore(bag, v))
<1>1. /\ h \in Histograms /\ h.count \in Nat /\ h.zeroCount \in Nat
      /\ Sided(h, bag) /\ h.count = Total(bag, Values) /\ h.zeroCount = bag[Zero]
      /\ \A side \in Sides : Counts(Buckets(h, side), bag, side, Places(h))
  BY DEF Kept, Sided, Histograms
<1>2. CASE v = Zero
  <2>1. PICK r : r = Record(h, v)
    OBVIOUS
  <2>2. r = [h EXCEPT !.count = h.count + 1, !.zeroCount = h.zeroCount + 1]
    BY <1>2, <2>1 DEF Record
  <2>3. /\ r \in Histograms /\ r.count = h.count + 1 /\ r.zeroCount = h.zeroCount + 1
        /\ r.scale = h.scale /\ r.positive = h.positive /\ r.negative = h.negative
    <3>1. PICK count \in Nat, zeroCount \in Nat :
            count = h.count + 1 /\ zeroCount = h.zeroCount + 1
      BY <1>1
    <3>2. r = [h EXCEPT !.count = count, !.zeroCount = zeroCount]
      BY <2>2, <3>1
    <3> QED
      BY <1>1, <3>1, <3>2 DEF Histograms
  <2>4. Places(r) = Places(h) /\ \A side \in Sides : Buckets(r, side) = Buckets(h, side)
    BY <2>3 DEF Places, Buckets
  <2>5. \A side \in Sides : v \notin OfSide(side)
    BY <1>2, ValuesFacts DEF Sides
  <2>6. \A side \in Sides : Counts(Buckets(r, side), OneMore(bag, v), side, Places(r))
    BY <1>1, <2>4, <2>5, CountsElsewhere
  <2>7. Sided(r, OneMore(bag, v))
    BY <1>1, <2>3, <2>4, <2>6 DEF Sided
  <2> QED
    BY <1>1, <1>2, <2>1, <2>3, <2>7, OneMoreFacts DEF Kept
<1>3. CASE v # Zero
  <2>1. PICK side \in Sides : v \in OfSide(side) /\ v.side = side
    BY <1>3, ValuesFacts DEF Sides, OfSide
  <2>2. PICK g : g = [h EXCEPT !.count = h.count + 1]
    OBVIOUS
  <2>3. /\ g \in Histograms /\ g.count = h.count + 1 /\ g.zeroCount = h.zeroCount
        /\ g.scale = h.scale /\ g.positive = h.positive /\ g.negative = h.negative
    BY <1>1, <2>2 DEF Histograms
  <2>4. Places(g) = Places(h) /\ \A s \in Sides : Buckets(g, s) = Buckets(h, s)
    BY <2>3 DEF Places, Buckets
  <2>5. Sided(g, bag)
    BY <1>1, <2>3, <2>4 DEF Sided
  <2>6. PICK d \in 0 .. 30 : d = Places(g)
    BY <2>5 DEF Sided
  <2>7. PICK b : b = Buckets(g, side)
    OBVIOUS
  <2>8. Counts(b, bag, side, d)
    BY <2>5, <2>6, <2>7 DEF Sided
  <2>9. MapToIndex(g, v) = Shr(v.index, d)
    BY <2>6 DEF MapToIndex, Places
  <2>10. PICK change : change = Change(b, Shr(v.index, d))
    OBVIOUS
  <2>11. PICK low \in Int, high \in Int :
           /\ change \in 0 .. 30 - d
           /\ high - low < MaxSize
           /\ Shr(v.index, d + change) \in low .. high
           /\ Length(b) # 0 => low <= Shr(b.start, change) /\ Shr(b.end, change) <= high
    <3>1. /\ Change(b, Shr(v.index, d)) \in 0 .. 30 - d
          /\ \E low \in Int, high \in Int :
              /\ high - low < MaxSize
              /\ Shr(v.index, d + Change(b, Shr(v.index, d))) \in low .. high
              /\ Length(b) # 0 =>
                   /\ low <= Shr(b.start, Change(b, Shr(v.index, d)))
                   /\ Shr(b.end, Change(b, Shr(v.index, d))) <= high
      BY <2>1, <2>8, ChangeFacts
    <3> QED
      BY <2>10, <3>1
  <2>12. PICK s : s = Downscale(g, change)
    OBVIOUS
  <2>13. /\ Sided(s, bag) /\ s.count = g.count /\ s.zeroCount = g.zeroCount
         /\ s.scale = g.scale - change
         /\ Length(Buckets(s, side)) = 0 <=> Length(b) = 0
         /\ Buckets(s, side).start = Shr(b.start, change)
         /\ Buckets(s, side).end = Shr(b.end, change)
    <3>1. change \in Nat /\ Places(g) + change <= 30
      BY <2>6, <2>11
    <3> QED
      BY <2>5, <2>7, <2>12, <3>1, DownscaleKeeps
  <2>14. s \in Histograms /\ Places(s) \in 0 .. 30 /\ Places(s) = d + change
    <3>1. s \in Histograms /\ Places(s) \in 0 .. 30 /\ g.scale \in Int /\ MaxScale \in Int
      BY <2>3, <2>13, HistogramAssumption DEF Sided, Histograms
    <3> QED
      BY <2>6, <2>11, <2>13, <3>1 DEF Places
  <2>15. PICK c : c = IncrementIndexBy(Buckets(s, side), Shr(v.index, Places(s)), 1)
    OBVIOUS
  <2>16. Counts(c, OneMore(bag, v), side, Places(s))
    <3>1. Within(Buckets(s, side), low, high)
      BY <2>11, <2>13 DEF Within
    <3>2. Shr(v.index, Places(s)) \in low .. high
      BY <2>11, <2>14
    <3>3. Counts(Buckets(s, side), bag, side, Places(s))
      BY <2>13 DEF Sided
    <3> QED
      BY <2>1, <2>11, <2>14, <2>15, <3>1, <3>2, <3>3, CountsOneMore DEF OneMore
  <2>17. PICK r : r = WithBuckets(s, side, c)
    OBVIOUS
  <2>18. Record(h, v) = r
    <3>1. Record(h, v) = UpdateBuckets(g, v)
      BY <1>3, <2>2 DEF Record
    <3>2. MapToIndex(s, v) = Shr(v.index, Places(s))
      BY DEF MapToIndex, Places
    <3> QED
      BY <2>1, <2>7, <2>9, <2>10, <2>12, <2>15, <2>17, <3>1, <3>2 DEF UpdateBuckets
  <2>19. /\ r \in Histograms /\ r.count = s.count /\ r.zeroCount = s.zeroCount /\ r.scale = s.scale
         /\ Buckets(r, side) = c
         /\ \A other \in Sides \ {side} : Buckets(r, other) = Buckets(s, other)
    <3>1. c \in BucketsType
      BY <2>16, CountsType DEF Counts
    <3>2. CASE side = "negative"
      <4>1. r = [s EXCEPT !.negative = c]
        BY <2>17, <3>2 DEF WithBuckets
      <4> QED
        BY <2>14, <3>1, <3>2, <4>1 DEF Histograms, Buckets, Sides
    <3>3. CASE side = "positive"
      <4>1. r = [s EXCEPT !.positive = c]
        BY <2>17, <3>3 DEF WithBuckets
      <4> QED
        BY <2>14, <3>1, <3>3, <4>1 DEF Histograms, Buckets, Sides
    <3> QED
      BY <3>2, <3>3 DEF Sides
  <2>20. Places(r) = Places(s)
    BY <2>19 DEF Places
  <2>21. ASSUME NEW other \in Sides \ {side}
         PROVE  Counts(Buckets(r, other), OneMore(bag, v), other, Places(r))
    <3>1. Counts(Buckets(s, other), bag, other, Places(s))
      BY <2>13 DEF Sided
    <3>2. v \notin OfSide(other)
      BY <2>1 DEF OfSide
    <3> QED
      BY <2>19, <2>20, <3>1, <3>2, CountsElsewhere
  <2>22. Sided(r, OneMore(bag, v))
    BY <2>14, <2>16, <2>19, <2>20, <2>21 DEF Sided
  <2> QED
    BY <1>1, <1>3, <2>3, <2>13, <2>18, <2>19, <2>22, OneMoreFacts DEF Kept
<1> QED
  BY <1>2, <1>3

-------------------------------------------------------------------------------
\* Merging and diffing

\* What a histogram's buckets add to another's at e places.
LEMMA OthersTogether ==
  ASSUME NEW bag \in Bags, NEW side \in Sides, NEW d \in 0 .. 30, NEW b,
         Counts(b, bag, side, d), NEW e \in 0 .. 30, NEW shift, Brings(b, d, shift, e),
         NEW x \in Int
  PROVE  SumFunctionOnSet(HeldBy(b), Together(b, shift, x)) = Total(bag, Falling(side, e, x))
<1>1. CASE Length(b) # 0
  <2>1. shift \in Nat /\ d + shift = e
    BY <1>1 DEF Brings
  <2>2. d \in Nat /\ d + shift <= 30
    BY <2>1
  <2>3. SumFunctionOnSet(HeldBy(b), Together(b, shift, x)) = Total(bag, Falling(side, d + shift, x))
    BY <2>1, <2>2, CountsTogether
  <2> QED
    BY <2>1, <2>3
<1>2. CASE Length(b) = 0
  <2>1. PICK n : LooseRing(b, n)
    BY DEF Counts, TightRing, Ring
  <2>2. \A y : Held(b, y) = 0
    BY <1>2, <2>1, LengthFacts
  <2>3. SumFunctionOnSet(HeldBy(b), Together(b, shift, x)) = 0
    BY <2>1, <2>2, TogetherEmpty
  <2>4. \A v \in OfSide(side) : bag[v] = 0
    BY <1>2, CountsNothing
  <2>5. Total(bag, Falling(side, e, x)) = 0
    <3>1. {} \in SUBSET Falling(side, e, x) /\ \A v \in Falling(side, e, x) \ {} : bag[v] = 0
      BY <2>4 DEF Falling
    <3>2. IsFiniteSet(Falling(side, e, x)) /\ \A v \in Falling(side, e, x) : bag[v] \in Int
      BY FallingFacts
    <3>3. SumFunctionOnSet(bag, {}) = SumFunctionOnSet(bag, Falling(side, e, x))
      BY <3>1, <3>2, SumWithZeros
    <3> QED
      BY <3>3, SumOfEmpty DEF Total
  <2> QED
    BY <2>3, <2>5
<1> QED
  BY <1>1, <1>2

\* Totals are added and subtracted value by value.
LEMMA TotalsAdd ==
  ASSUME NEW bag \in Bags, NEW bag2 \in Bags
  PROVE  /\ Plus(bag, bag2) \in Bags
         /\ \A S \in SUBSET Values : Total(Plus(bag, bag2), S) = Total(bag, S) + Total(bag2, S)
         /\ Plus(bag, bag2)[Zero] = bag[Zero] + bag2[Zero]
<1>1. \A v \in Values : bag[v] \in Nat /\ bag2[v] \in Nat /\ Plus(bag, bag2)[v] = bag[v] + bag2[v]
  BY DEF Bags, Plus
<1>2. Plus(bag, bag2) \in Bags
  BY <1>1 DEF Bags, Plus
<1>3. ASSUME NEW S \in SUBSET Values
      PROVE  Total(Plus(bag, bag2), S) = Total(bag, S) + Total(bag2, S)
  <2>1. IsFiniteSet(S)
    BY ValuesFacts, FS_Subset
  <2>2. \A v \in S : bag[v] \in Int /\ bag2[v] \in Int /\ Plus(bag, bag2)[v] = bag[v] + bag2[v]
    BY <1>1
  <2> QED
    BY <2>1, <2>2, SumOfSums DEF Total
<1> QED
  BY <1>1, <1>2, <1>3, ValuesFacts

LEMMA TotalsSubtract ==
  ASSUME NEW bag \in Bags, NEW bag2 \in Bags, IsWithin(bag2, bag)
  PROVE  /\ Minus(bag, bag2) \in Bags
         /\ \A S \in SUBSET Values :
              /\ Total(bag2, S) <= Total(bag, S)
              /\ Total(Minus(bag, bag2), S) = Total(bag, S) - Total(bag2, S)
         /\ Minus(bag, bag2)[Zero] = bag[Zero] - bag2[Zero]
<1> DEFINE rest == Minus(bag, bag2)
<1>1. \A v \in Values : /\ bag[v] \in Nat /\ bag2[v] \in Nat /\ bag2[v] <= bag[v]
                        /\ rest[v] = bag[v] - bag2[v] /\ rest[v] \in Nat
                        /\ bag[v] = rest[v] + bag2[v]
  BY DEF Bags, Minus, IsWithin
<1>2. rest \in Bags
  BY <1>1 DEF Bags, Minus
<1>3. rest[Zero] = bag[Zero] - bag2[Zero]
  BY <1>1, ValuesFacts
<1> HIDE DEF rest
<1>4. ASSUME NEW S \in SUBSET Values
      PROVE  /\ Total(bag2, S) <= Total(bag, S)
             /\ Total(rest, S) = Total(bag, S) - Total(bag2, S)
  <2>1. IsFiniteSet(S)
    BY ValuesFacts, FS_Subset
  <2>2. \A v \in S : rest[v] \in Nat /\ bag2[v] \in Nat /\ bag[v] = rest[v] + bag2[v]
    BY <1>1
  <2>3. SumFunctionOnSet(bag, S) = SumFunctionOnSet(rest, S) + SumFunctionOnSet(bag2, S)
    <3>1. \A v \in S : rest[v] \in Int /\ bag2[v] \in Int /\ bag[v] = rest[v] + bag2[v]
      BY <2>2
    <3> QED
      BY <2>1, <3>1, SumOfSums
  <2>4. SumFunctionOnSet(rest, S) \in Nat /\ SumFunctionOnSet(bag2, S) \in Nat
    BY <2>1, <2>2, SumIsNat
  <2> QED
    BY <2>3, <2>4 DEF Total
<1> QED
  BY <1>2, <1>3, <1>4 DEF rest

\* Both sides of a histogram replaced.
WithSides(h, positive, negative) == [h EXCEPT !.positive = positive, !.negative = negative]

LEMMA SidesReplaced ==
  ASSUME NEW bag, NEW h, h \in Histograms, Places(h) \in 0 .. 30,
         NEW positive, Counts(positive, bag, "positive", Places(h)),
         NEW negative, Counts(negative, bag, "negative", Places(h)),
         NEW r, r = WithSides(h, positive, negative)
  PROVE  Sided(r, bag) /\ r.count = h.count /\ r.zeroCount = h.zeroCount
<1>1. positive \in BucketsType /\ negative \in BucketsType
  BY CountsType DEF Counts
<1>2. /\ r \in Histograms /\ r.count = h.count /\ r.zeroCount = h.zeroCount /\ r.scale = h.scale
      /\ r.positive = positive /\ r.negative = negative
  BY <1>1 DEF Histograms, WithSides
<1>3. Places(r) = Places(h)
  BY <1>2 DEF Places
<1> QED
  BY <1>2, <1>3 DEF Sided, Sides, Buckets

\* A histogram with other counts has the same buckets.
WithCounts(h, count, zeroCount) == [h EXCEPT !.count = count, !.zeroCount = zeroCount]

LEMMA CountsReplaced ==
  ASSUME NEW bag, NEW h, Sided(h, bag), NEW count \in Nat, NEW zeroCount \in Nat,
         NEW r, r = WithCounts(h, count, zeroCount)
  PROVE  Sided(r, bag) /\ r.count = count /\ r.zeroCount = zeroCount
<1>1. h \in Histograms
  BY DEF Sided
<1>2. /\ r \in Histograms /\ r.count = count /\ r.zeroCount = zeroCount /\ r.scale = h.scale
      /\ r.positive = h.positive /\ r.negative = h.negative
  BY <1>1 DEF Histograms, WithCounts
<1>3. Places(r) = Places(h) /\ \A side : Buckets(r, side) = Buckets(h, side)
  BY <1>2 DEF Places, Buckets
<1> QED
  BY <1>2, <1>3 DEF Sided

LEMMA MergeKeeps ==
  ASSUME NEW bag \in Bags, NEW h, Kept(h, bag), NEW bag2 \in Bags, NEW o, Kept(o, bag2)
  PROVE  Kept(Merge(o, h), Plus(bag, bag2))
<1>1. /\ Sided(h, bag) /\ Sided(o, bag2)
      /\ h.count = Total(bag, Values) /\ h.zeroCount = bag[Zero]
      /\ o.count = Total(bag2, Values) /\ o.zeroCount = bag2[Zero]
  BY DEF Kept
<1>2. /\ Total(bag, Values) \in Nat /\ bag[Zero] \in Nat /\ bag[Zero] <= Total(bag, Values)
      /\ Total(bag, Values) = bag[Zero] <=> OnlyZeros(bag)
      /\ Total(bag2, Values) \in Nat /\ bag2[Zero] \in Nat /\ bag2[Zero] <= Total(bag2, Values)
      /\ Total(bag2, Values) = bag2[Zero] <=> OnlyZeros(bag2)
  BY OnlyZerosCounted
<1>3. PICK count \in Nat, zeroCount \in Nat :
        /\ count = h.count + o.count /\ zeroCount = h.zeroCount + o.zeroCount
        /\ count = zeroCount => OnlyZeros(bag) /\ OnlyZeros(bag2)
  BY <1>1, <1>2
<1>4. PICK sum : sum = WithCounts(h, count, zeroCount)
  OBVIOUS
<1>5. Sided(sum, bag) /\ sum.count = count /\ sum.zeroCount = zeroCount
  BY <1>1, <1>4, CountsReplaced
<1>6. PICK scale : scale = MinScale(sum, o)
  OBVIOUS
<1>7. PICK scaled, shift : scaled = Downscale(sum, Scale(sum) - scale) /\ shift = Scale(o) - scale
  OBVIOUS
<1>8. Fitting(scaled, sum, bag, o, shift)
  <2>1. sum.count = sum.zeroCount => OnlyZeros(bag) /\ OnlyZeros(bag2)
    BY <1>3, <1>5
  <2>2. o.count = o.zeroCount <=> OnlyZeros(bag2)
    BY <1>1, <1>2
  <2> QED
    BY <1>1, <1>5, <1>6, <1>7, <2>1, <2>2, ScaledFacts
<1>9. PICK e \in 0 .. 30, d2 \in 0 .. 30 : e = Places(scaled) /\ d2 = Places(o)
  BY <1>1, <1>8 DEF Fitting, Sided
<1> DEFINE Sum(side) == MergeBuckets(Buckets(scaled, side), Buckets(o, side), shift)
<1>10. ASSUME NEW side \in Sides PROVE Counts(Sum(side), Plus(bag, bag2), side, e)
  <2>1. PICK ours, theirs : ours = Buckets(scaled, side) /\ theirs = Buckets(o, side)
    OBVIOUS
  <2>2. /\ Counts(ours, bag, side, e) /\ Counts(theirs, bag2, side, d2)
        /\ shift \in 0 .. 31 /\ Brings(theirs, d2, shift, e)
    BY <1>1, <1>8, <1>9, <2>1 DEF Fitting, Sided
  <2>3. PICK low \in Int, high \in Int :
          /\ high - low < MaxSize /\ Within(ours, low, high)
          /\ \/ Length(theirs) = 0
             \/ low <= Shr(theirs.start, shift) /\ Shr(theirs.end, shift) <= high
    BY <1>8, <2>1 DEF Fitting
  <2>4. TightRing(ours) /\ TightRing(theirs)
    BY <2>2 DEF Counts
  <2>5. PICK m : m = MergeBuckets(ours, theirs, shift)
    OBVIOUS
  <2>6. /\ TightRing(m)
        /\ \A x \in Int : Held(m, x)
                            = Held(ours, x) + SumFunctionOnSet(HeldBy(theirs), Together(theirs, shift, x))
    BY <2>2, <2>3, <2>4, <2>5, MergeBucketsFacts
  <2>7. ASSUME NEW x \in Int PROVE Held(m, x) = Total(Plus(bag, bag2), Falling(side, e, x))
    <3>1. SumFunctionOnSet(HeldBy(theirs), Together(theirs, shift, x)) = Total(bag2, Falling(side, e, x))
      BY <2>2, OthersTogether
    <3>2. Held(ours, x) = Total(bag, Falling(side, e, x))
      BY <2>2 DEF Counts
    <3>3. Falling(side, e, x) \in SUBSET Values
      BY FallingFacts
    <3> QED
      BY <2>6, <3>1, <3>2, <3>3, TotalsAdd
  <2> QED
    BY <2>1, <2>5, <2>6, <2>7 DEF Counts
<1>11. PICK positive, negative : positive = Sum("positive") /\ negative = Sum("negative")
  OBVIOUS
<1>12. PICK r : r = WithSides(scaled, positive, negative)
  OBVIOUS
<1>13. Merge(o, h) = r
  <2>1. sum = [h EXCEPT !.count = h.count + o.count, !.zeroCount = h.zeroCount + o.zeroCount]
    BY <1>3, <1>4 DEF WithCounts
  <2> QED
    BY <1>6, <1>7, <1>11, <1>12, <2>1 DEF Merge, WithSides
<1>14. /\ Counts(positive, Plus(bag, bag2), "positive", Places(scaled))
       /\ Counts(negative, Plus(bag, bag2), "negative", Places(scaled))
  BY <1>9, <1>10, <1>11 DEF Sides
<1> HIDE DEF Sum
<1>15. Sided(r, Plus(bag, bag2)) /\ r.count = count /\ r.zeroCount = zeroCount
  <2>1. scaled \in Histograms /\ Places(scaled) \in 0 .. 30
        /\ scaled.count = count /\ scaled.zeroCount = zeroCount
    BY <1>5, <1>8 DEF Fitting, Sided
  <2>2. Sided(r, Plus(bag, bag2)) /\ r.count = scaled.count /\ r.zeroCount = scaled.zeroCount
    BY <1>12, <1>14, <2>1, SidesReplaced
  <2> QED
    BY <2>1, <2>2
<1>16. count = Total(Plus(bag, bag2), Values) /\ zeroCount = Plus(bag, bag2)[Zero]
  <2>1. Values \in SUBSET Values
    OBVIOUS
  <2> QED
    BY <1>1, <1>3, <2>1, TotalsAdd
<1> QED
  BY <1>13, <1>15, <1>16 DEF Kept

LEMMA DiffKeeps ==
  ASSUME NEW bag \in Bags, NEW h, Kept(h, bag), NEW bag2 \in Bags, NEW o, Kept(o, bag2),
         IsWithin(bag2, bag), ~OnlyZeros(Minus(bag, bag2))
  PROVE  Kept(Diff(o, h), Minus(bag, bag2))
<1> DEFINE kept == Minus(bag, bag2)
<1>1. /\ Sided(h, bag) /\ Sided(o, bag2)
      /\ h.count = Total(bag, Values) /\ h.zeroCount = bag[Zero]
      /\ o.count = Total(bag2, Values) /\ o.zeroCount = bag2[Zero]
  BY DEF Kept
<1>2. /\ kept \in Bags
      /\ \A S \in SUBSET Values : /\ Total(bag2, S) <= Total(bag, S)
                                  /\ Total(kept, S) = Total(bag, S) - Total(bag2, S)
      /\ kept[Zero] = bag[Zero] - bag2[Zero]
  BY TotalsSubtract
<1> HIDE DEF kept
<1>3. o.count = o.zeroCount <=> OnlyZeros(bag2)
  BY <1>1, OnlyZerosCounted
<1>4. PICK count \in Nat, zeroCount \in Nat :
        /\ count = h.count - o.count /\ zeroCount = h.zeroCount - o.zeroCount
        /\ count # zeroCount
        /\ count = Total(kept, Values) /\ zeroCount = kept[Zero]
  <2>1. Total(kept, Values) = Total(bag, Values) - Total(bag2, Values)
    <3>1. Values \in SUBSET Values
      OBVIOUS
    <3> QED
      BY <1>2, <3>1
  <2>2. Total(kept, Values) \in Nat /\ kept[Zero] \in Nat
        /\ Total(kept, Values) # kept[Zero]
    <3>1. ~OnlyZeros(kept)
      BY DEF kept
    <3> QED
      BY <1>2, <3>1, OnlyZerosCounted
  <2> QED
    BY <1>1, <1>2, <2>1, <2>2
<1>5. PICK rest : rest = WithCounts(h, count, zeroCount)
  OBVIOUS
<1>6. Sided(rest, bag) /\ rest.count = count /\ rest.zeroCount = zeroCount
  BY <1>1, <1>5, CountsReplaced
<1>7. PICK scale : scale = MinScale(rest, o)
  OBVIOUS
<1>8. PICK scaled, shift : scaled = Downscale(rest, Scale(rest) - scale) /\ shift = Scale(o) - scale
  OBVIOUS
<1>9. Fitting(scaled, rest, bag, o, shift)
  <2>1. rest.count = rest.zeroCount => OnlyZeros(bag) /\ OnlyZeros(bag2)
    BY <1>4, <1>6
  <2> QED
    BY <1>1, <1>3, <1>6, <1>7, <1>8, <2>1, ScaledFacts
<1>10. PICK e \in 0 .. 30, d2 \in 0 .. 30 : e = Places(scaled) /\ d2 = Places(o)
  BY <1>1, <1>9 DEF Fitting, Sided
<1> DEFINE Rest(side) == DiffBuckets(Buckets(scaled, side), Buckets(o, side), shift)
<1>11. ASSUME NEW side \in Sides PROVE Counts(Rest(side), kept, side, e)
  <2>1. PICK ours, theirs : ours = Buckets(scaled, side) /\ theirs = Buckets(o, side)
    OBVIOUS
  <2>2. /\ Counts(ours, bag, side, e) /\ Counts(theirs, bag2, side, d2)
        /\ shift \in 0 .. 31 /\ Brings(theirs, d2, shift, e)
    BY <1>1, <1>9, <1>10, <2>1 DEF Fitting, Sided
  <2>3. TightRing(ours) /\ TightRing(theirs)
    BY <2>2 DEF Counts
  <2>4. ASSUME NEW x \in Int
        PROVE  /\ SumFunctionOnSet(HeldBy(theirs), Together(theirs, shift, x))
                    = Total(bag2, Falling(side, e, x))
               /\ Held(ours, x) = Total(bag, Falling(side, e, x))
               /\ Falling(side, e, x) \in SUBSET Values
    <3>1. SumFunctionOnSet(HeldBy(theirs), Together(theirs, shift, x)) = Total(bag2, Falling(side, e, x))
      BY SMTT(30), <2>2, OthersTogether
    <3>2. Held(ours, x) = Total(bag, Falling(side, e, x))
      BY <2>2 DEF Counts
    <3> QED
      BY <3>1, <3>2, FallingFacts
  <2>5. \A x \in Int : SumFunctionOnSet(HeldBy(theirs), Together(theirs, shift, x)) <= Held(ours, x)
    BY <1>2, <2>4
  <2>6. PICK m : m = DiffBuckets(ours, theirs, shift)
    OBVIOUS
  <2>7. /\ TightRing(m)
        /\ \A x \in Int : Held(m, x)
                            = Held(ours, x) - SumFunctionOnSet(HeldBy(theirs), Together(theirs, shift, x))
    BY <2>2, <2>3, <2>5, <2>6, DiffBucketsFacts
  <2>8. \A x \in Int : Held(m, x) = Total(kept, Falling(side, e, x))
    BY <1>2, <2>4, <2>7
  <2> QED
    BY <2>1, <2>6, <2>7, <2>8 DEF Counts
<1>12. PICK positive, negative : positive = Rest("positive") /\ negative = Rest("negative")
  OBVIOUS
<1>13. PICK r : r = WithSides(scaled, positive, negative)
  OBVIOUS
<1>14. Diff(o, h) = r
  <2>1. rest = [h EXCEPT !.count = h.count - o.count, !.zeroCount = h.zeroCount - o.zeroCount]
    BY <1>4, <1>5 DEF WithCounts
  <2> QED
    BY <1>7, <1>8, <1>12, <1>13, <2>1 DEF Diff, WithSides
<1>15. /\ Counts(positive, kept, "positive", Places(scaled))
       /\ Counts(negative, kept, "negative", Places(scaled))
  BY <1>10, <1>11, <1>12 DEF Sides
<1> HIDE DEF Rest
<1>16. Sided(r, kept) /\ r.count = count /\ r.zeroCount = zeroCount
  <2>1. scaled \in Histograms /\ Places(scaled) \in 0 .. 30
        /\ scaled.count = count /\ scaled.zeroCount = zeroCount
    BY <1>6, <1>9 DEF Fitting, Sided
  <2>2. Sided(r, kept) /\ r.count = scaled.count /\ r.zeroCount = scaled.zeroCount
    BY <1>13, <1>15, <2>1, SidesReplaced
  <2> QED
    BY <2>1, <2>2
<1>17. Kept(r, kept)
  BY <1>4, <1>16 DEF Kept
<1> QED
  BY <1>14, <1>17 DEF kept

-------------------------------------------------------------------------------
\* What the counts are worth

LEMMA KeptCounts ==
  ASSUME NEW bag \in Bags, NEW h, Kept(h, bag), NEW side \in Sides
  PROVE  CountsValues(h, bag, side)
<1>1. PICK b : b = Buckets(h, side)
  OBVIOUS
<1>0. PICK d \in 0 .. 30 : d = Places(h)
  BY DEF Kept, Sided
<1>2. Counts(b, bag, side, d)
  BY <1>0, <1>1 DEF Kept, Sided
<1>3. PICK n : LooseRing(b, n)
  BY <1>2 DEF Counts, TightRing, Ring
<1>4. PICK start \in Int, end \in Int : /\ start = b.start /\ end = b.end /\ start <= end
                                        /\ n \in Nat /\ n <= MaxSize
  BY <1>3, RingBounds
<1>5. /\ Length(b) \in 0 .. n
      /\ Length(b) # 0 => Length(b) = end - start + 1
      /\ \A i \in Positions(b) : /\ i \in 0 .. end - start
                                 /\ start + i \in start .. end
                                 /\ At(b, i) = Held(b, start + i)
  BY <1>3, <1>4, LengthFacts
<1>6. Length(b) <= MaxSize
  BY <1>4, <1>5, HistogramAssumption
<1>7. Total(bag, OfSide(side)) = SumFunctionOnSet([i \in Positions(b) |-> At(b, i)], Positions(b))
  <2>0. PICK f : f = [i \in Positions(b) |-> At(b, i)]
    OBVIOUS
  <2>1. CASE Length(b) = 0
    <3>1. Positions(b) = {}
      BY <2>1 DEF Positions
    <3>2. SumFunctionOnSet(f, Positions(b)) = 0
      BY <3>1, SumOfEmpty
    <3>3. \A v \in OfSide(side) : bag[v] = 0
      BY <1>2, <2>1, CountsNothing
    <3>4. Total(bag, OfSide(side)) = 0
      <4>1. {} \in SUBSET OfSide(side) /\ \A v \in OfSide(side) \ {} : bag[v] = 0
        BY <3>3
      <4>2. IsFiniteSet(OfSide(side)) /\ \A v \in OfSide(side) : bag[v] \in Int
        BY <3>3, ValuesFacts
      <4>3. SumFunctionOnSet(bag, {}) = SumFunctionOnSet(bag, OfSide(side))
        BY <4>1, <4>2, SumWithZeros
      <4> QED
        BY <4>3, SumOfEmpty DEF Total
    <3> QED
      BY <2>0, <3>2, <3>4
  <2>2. CASE Length(b) # 0
    <3>1. Positions(b) = 0 .. end - start
      BY <1>5, <2>2 DEF Positions
    <3>2. {start + i : i \in Positions(b)} = start .. end
      <4>1. ASSUME NEW x \in start .. end PROVE x - start \in 0 .. end - start /\ start + (x - start) = x
        OBVIOUS
      <4> QED
        BY <1>5, <3>1, <4>1
    <3>3. IsFiniteSet(Positions(b)) /\ Positions(b) \subseteq Int
      <4>1. end - start \in Int /\ 0 \in Int
        OBVIOUS
      <4> QED
        BY <3>1, <4>1, FS_Interval
    <3>4. \A i \in Positions(b) : f[i] \in Int /\ HeldBy(b)[start + i] = f[i]
      <4> TAKE i \in Positions(b)
      <4>1. start + i \in b.start .. b.end /\ At(b, i) = Held(b, start + i)
        BY <1>4, <1>5
      <4>2. f[i] = Held(b, start + i) /\ HeldBy(b)[start + i] = Held(b, start + i)
        BY <2>0, <4>1 DEF HeldBy
      <4>3. Held(b, start + i) \in Nat
        BY <1>3, HeldIsNat
      <4> QED
        BY <4>2, <4>3
    <3>5. SumFunctionOnSet(HeldBy(b), start .. end) = SumFunctionOnSet(f, Positions(b))
      <4>1. SumFunctionOnSet(HeldBy(b), {start + i : i \in Positions(b)})
              = SumFunctionOnSet(f, Positions(b))
        BY <3>3, <3>4, SumShifted
      <4> QED
        BY <3>2, <4>1
    <3>6. SumFunctionOnSet(HeldBy(b), b.start .. b.end) = Total(bag, OfSide(side))
      <4>1. PICK I, W : I = b.start .. b.end /\ W = OfSide(side)
        OBVIOUS
      <4>2. Match(b, side, d, I, W)
        BY <4>1 DEF Match
      <4>3. SumFunctionOnSet(HeldBy(b), I) = Total(bag, W)
        BY <1>2, <4>2, CountsOver
      <4> QED
        BY <4>1, <4>3
    <3> QED
      BY <1>4, <2>0, <3>5, <3>6
  <2> QED
    BY <2>0, <2>1, <2>2
<1>8. ASSUME NEW i \in Positions(b)
      PROVE  At(b, i) = Total(bag, InBucket(side, Scale(h), start + i))
  <2>1. Length(b) # 0
    BY <1>8, <1>5 DEF Positions
  <2>2. Scale(h) = h.scale
    <3>1. h.count = h.zeroCount => OnlyZeros(bag)
      BY OnlyZerosCounted DEF Kept
    <3>2. Sided(h, bag)
      BY DEF Kept
    <3> QED
      BY <1>1, <2>1, <3>1, <3>2, ScaleFacts
  <2>3. InBucket(side, Scale(h), start + i) = Falling(side, d, start + i)
    BY <1>0, <2>2 DEF InBucket, Falling, Places
  <2>4. At(b, i) = Held(b, start + i) /\ start + i \in Int
    BY <1>5
  <2> QED
    BY <1>2, <2>3, <2>4 DEF Counts
<1>9. \A index \in {b.start + i : i \in Positions(b)} :
        At(b, index - b.start) = Total(bag, InBucket(side, Scale(h), index))
  <2> TAKE index \in {b.start + i : i \in Positions(b)}
  <2>1. PICK i \in Positions(b) : index = start + i
    BY <1>4
  <2>2. index - b.start = i
    <3>1. i \in Int
      BY <1>5
    <3> QED
      BY <1>4, <2>1, <3>1
  <2> QED
    BY <1>8, <2>1, <2>2
<1> QED
  BY <1>1, <1>6, <1>7, <1>9 DEF CountsValues

-------------------------------------------------------------------------------
\* The specification

HistogramsKept ==
  /\ hist = [a \in Accumulations |-> hist[a]]
  /\ recorded \in [Accumulations -> Bags]
  /\ left \in [Accumulations -> Left]
  /\ \A a \in Accumulations : Followed(a) => Kept(hist[a], recorded[a])

\* A step that replaces one histogram, by one that is kept if it is followed.
LEMMA OneReplaced ==
  ASSUME HistogramsKept, NEW a \in Accumulations, NEW h, NEW bag \in Bags, NEW rest \in Left,
         rest = "values" => Kept(h, bag),
         hist' = [hist EXCEPT ![a] = h], recorded' = [recorded EXCEPT ![a] = bag],
         left' = [left EXCEPT ![a] = rest]
  PROVE  HistogramsKept'
<1>1. /\ hist' = [c \in Accumulations |-> hist'[c]]
      /\ recorded' \in [Accumulations -> Bags]
  BY DEF HistogramsKept
<1>2. /\ hist'[a] = h /\ recorded'[a] = bag
      /\ \A c \in Accumulations \ {a} : hist'[c] = hist[c] /\ recorded'[c] = recorded[c]
  BY DEF HistogramsKept
<1>3. /\ left' \in [Accumulations -> Left] /\ left'[a] = rest
      /\ \A c \in Accumulations \ {a} : left'[c] = left[c]
  BY DEF HistogramsKept
<1>4. \A c \in Accumulations :
        left'[c] = "values" => Kept(hist'[c], recorded'[c])
  <2> TAKE c \in Accumulations
  <2>1. CASE c = a
    BY <1>2, <1>3, <2>1
  <2>2. CASE c # a
    BY <1>2, <1>3, <2>2 DEF HistogramsKept, Followed
  <2> QED BY <2>1, <2>2
<1> QED
  BY <1>1, <1>3, <1>4 DEF HistogramsKept, Followed

\* In every histogram that is followed the buckets on either side are a ring that counts,
\* at the histogram's scale, the values recorded, and the values are as many as
\* it says: recording, merging, diffing and scaling down keep that
\* (ExponentialHistogram.ts:209, 243, 273; Buckets.ts:114, 140).
THEOREM HistogramInductive ==
  Spec => []HistogramsKept
<1>1. Init => HistogramsKept
  BY NewHistogramKept DEF Init, HistogramsKept, Left
<1>2. HistogramsKept /\ [Next]_vars => HistogramsKept'
  <2> SUFFICES ASSUME HistogramsKept, [Next]_vars PROVE HistogramsKept'
    OBVIOUS
  <2>1. \A a \in Accumulations :
          /\ recorded[a] \in Bags /\ (Followed(a) => Kept(hist[a], recorded[a]))
          /\ left = [left EXCEPT ![a] = left[a]] /\ left[a] \in Left
    BY DEF HistogramsKept
  <2>2. ASSUME NEW a \in Accumulations, Create(a) PROVE HistogramsKept'
    <3>1. /\ hist' = [hist EXCEPT ![a] = NewHistogram]
          /\ recorded' = [recorded EXCEPT ![a] = NoValues]
          /\ left' = [left EXCEPT ![a] = "values"] /\ "values" \in Left
      BY <2>2 DEF Create, Left
    <3> QED
      BY <3>1, NewHistogramKept, OneReplaced
  <2>3. ASSUME NEW a \in Accumulations, NEW v \in Values, RecordValue(a, v) PROVE HistogramsKept'
    <3>1. PICK h, bag : h = Record(hist[a], v) /\ bag = OneMore(recorded[a], v)
      OBVIOUS
    <3>2. Kept(h, bag) /\ bag \in Bags
      BY <2>1, <2>3, <3>1, RecordKeeps, OneMoreFacts DEF RecordValue
    <3>3. /\ hist' = [hist EXCEPT ![a] = h] /\ recorded' = [recorded EXCEPT ![a] = bag]
          /\ left' = [left EXCEPT ![a] = left[a]]
      BY <2>1, <2>3, <3>1 DEF RecordValue, OneMore
    <3> QED
      BY <2>1, <3>2, <3>3, OneReplaced
  <2>4. ASSUME NEW a \in Accumulations, NEW previous \in Accumulations, MergeInto(a, previous)
        PROVE  HistogramsKept'
    <3>1. PICK h, bag : h = Merge(hist[previous], hist[a]) /\ bag = Plus(recorded[a], recorded[previous])
      OBVIOUS
    <3>2. Kept(h, bag) /\ bag \in Bags
      BY <2>1, <2>4, <3>1, MergeKeeps, TotalsAdd DEF MergeInto
    <3>3. /\ hist' = [hist EXCEPT ![a] = h] /\ recorded' = [recorded EXCEPT ![a] = bag]
          /\ left' = [left EXCEPT ![a] = left[a]]
      BY <2>1, <2>4, <3>1 DEF MergeInto
    <3> QED
      BY <2>1, <3>2, <3>3, OneReplaced
  <2>5. ASSUME NEW a \in Accumulations, NEW previous \in Accumulations, DiffFrom(a, previous)
        PROVE  HistogramsKept'
    <3>1. PICK h, rest, bag :
            /\ h = Diff(hist[previous], hist[a])
            /\ rest = LeftBy(recorded[previous], recorded[a])
            /\ bag = IF rest = "values" THEN Minus(recorded[a], recorded[previous])
                                        ELSE NoValues
      OBVIOUS
    <3>2. rest \in Left
      BY <3>1 DEF LeftBy, Left
    <3>3. rest # "values" => bag \in Bags
      BY <3>1, NewHistogramKept
    <3>4. ASSUME rest = "values" PROVE bag \in Bags /\ Kept(h, bag)
      <4>1. IsWithin(recorded[previous], recorded[a])
            /\ ~OnlyZeros(Minus(recorded[a], recorded[previous]))
        BY <3>1, <3>4 DEF LeftBy
      <4>2. /\ recorded[a] \in Bags /\ Kept(hist[a], recorded[a])
            /\ recorded[previous] \in Bags /\ Kept(hist[previous], recorded[previous])
        BY <2>1, <2>5 DEF DiffFrom
      <4> QED
        BY <3>1, <3>4, <4>1, <4>2, DiffKeeps, TotalsSubtract
    <3>5. hist' = [hist EXCEPT ![a] = h] /\ left' = [left EXCEPT ![a] = rest]
      BY <2>5, <3>1 DEF DiffFrom
    <3>6. left'[a] = rest
      BY <3>5 DEF HistogramsKept
    <3>7. recorded' = [recorded EXCEPT ![a] = bag]
      BY <2>5, <3>1, <3>6 DEF DiffFrom
    <3> QED
      BY <3>2, <3>4, <3>5, <3>7, <3>3, OneReplaced
  <2>6. CASE UNCHANGED vars
    BY <2>6 DEF vars, HistogramsKept, Followed
  <2> QED
    BY <2>2, <2>3, <2>4, <2>5, <2>6 DEF Next
<1> QED
  BY <1>1, <1>2, PTL DEF Spec

\* However values are recorded, histograms merged and a later measurement
\* diffed from an earlier one that it contains, what is reported counts every
\* value once, in its bucket at the scale reported, in no more buckets than
\* allowed (ExponentialHistogram.ts:209, 243, 273), except in a difference that
\* leaves no values but zeros.
THEOREM HistogramCountsValues ==
  Spec => []BucketsCountValues
<1>1. HistogramsKept => BucketsCountValues
  <2> SUFFICES ASSUME HistogramsKept, NEW a \in Accumulations, Followed(a)
               PROVE  /\ hist[a].count = Total(recorded[a], Values)
                      /\ hist[a].zeroCount = recorded[a][Zero]
                      /\ \A side \in Sides : CountsValues(hist[a], recorded[a], side)
    BY DEF BucketsCountValues
  <2>1. Kept(hist[a], recorded[a]) /\ recorded[a] \in Bags
    BY DEF HistogramsKept
  <2> QED
    BY <2>1, KeptCounts DEF Kept
<1> QED
  BY <1>1, HistogramInductive, PTL
-------------------------------------------------------------------------------
\* Precision

\* Two values of a side that do not go into one ring at d places.
Apart(bag, d) ==
  \E side \in Sides : \E v, w \in Present(bag, side) :
    ~(Shr(v.index, d) - Shr(w.index, d) < MaxSize)

\* The indexes of values at d places have 30 - d bits and a sign.
LEMMA IndexOfValue ==
  ASSUME NEW side \in Sides, NEW v \in OfSide(side), NEW d \in 0 .. 30
  PROVE  Index(Shr(v.index, d), d)
<1>1. v.index \in Int /\ Shr(v.index, 30) \in {-1, 0}
  BY ValuesFacts
<1>2. d \in 0 .. 31 /\ d \in Nat /\ 30 - d \in Nat /\ d + (30 - d) = 30 /\ d + (30 - d) <= 31
  OBVIOUS
<1>3. Shr(v.index, d) \in Int
  BY <1>1, <1>2, ShrIsDiv
<1>4. Shr(Shr(v.index, d), 30 - d) = Shr(v.index, d + (30 - d))
  BY <1>1, <1>2, ShrTwice
<1> QED
  BY <1>1, <1>2, <1>3, <1>4 DEF Index

LEMMA IndexBounds ==
  ASSUME NEW d \in 0 .. 30
  PROVE  \E low \in Int, high \in Int : \A x : Index(x, d) => low <= x /\ x <= high
<1>1. 30 - d \in Nat /\ 30 - d \in 0 .. 31
  OBVIOUS
<1>2. PICK p \in Nat : p = Pow2[30 - d] /\ p >= 1
  BY <1>1, Pow2Facts
<1>3. ASSUME NEW x, Index(x, d) PROVE -p <= x /\ x <= p
  <2>1. x \in Int /\ Shr(x, 30 - d) \in {-1, 0}
    BY <1>3 DEF Index
  <2>2. x \div p \in {-1, 0}
    BY <1>1, <1>2, <2>1, ShrIsDiv
  <2>3. p * (x \div p) <= x /\ x < p * (x \div p) + p
    BY <1>2, <2>1, QuotientFacts
  <2>4. CASE x \div p = -1
    <3>1. p * (x \div p) = -p
      BY <2>4
    <3>2. -p <= x /\ x < -p + p
      BY <2>3, <3>1
    <3>3. x \in Int
      BY <2>1
    <3> QED
      BY ONLY <3>2, <3>3, p \in Nat
  <2>5. CASE x \div p = 0
    <3>1. p * (x \div p) = 0
      BY <2>5
    <3>2. 0 <= x /\ x < 0 + p
      BY <2>3, <3>1
    <3>3. x \in Int
      BY <2>1
    <3> QED
      BY ONLY <3>2, <3>3, p \in Nat
  <2> QED
    BY <2>2, <2>4, <2>5
<1>4. -p \in Int /\ p \in Int
  OBVIOUS
<1> QED
  BY <1>3, <1>4

LEMMA FitsUnlessApart ==
  ASSUME NEW bag, NEW scale, NEW d \in 0 .. 30, d = MaxScale - scale
  PROVE  ~FitsAt(bag, scale) <=> Apart(bag, d)
<1> DEFINE Indexes(side) == {Shr(v.index, d) : v \in Present(bag, side)}
<1>1. FitsAt(bag, scale) <=>
        \A side \in Sides : Indexes(side) # {} => Max(Indexes(side)) - Min(Indexes(side)) < MaxSize
  BY DEF FitsAt, Present
<1>2. ASSUME NEW side \in Sides, NEW v \in Present(bag, side)
      PROVE  Index(Shr(v.index, d), d) /\ Shr(v.index, d) \in Int
  BY IndexOfValue DEF Present, Index
<1>3. PICK low \in Int, high \in Int : \A x : Index(x, d) => low <= x /\ x <= high
  BY IndexBounds
<1>4. ASSUME NEW side \in Sides, Indexes(side) # {}
      PROVE  /\ Min(Indexes(side)) \in Indexes(side) /\ Max(Indexes(side)) \in Indexes(side)
             /\ \A x \in Indexes(side) : x \in Int /\ Min(Indexes(side)) <= x /\ x <= Max(Indexes(side))
  <2>1. Indexes(side) \subseteq Int
    BY <1>2
  <2>2. \A x \in Indexes(side) : low <= x /\ x <= high
    BY <1>2, <1>3
  <2> HIDE DEF Indexes
  <2> QED
    BY <1>4, <2>1, <2>2, MinMaxFacts
<1>5. ASSUME ~FitsAt(bag, scale) PROVE Apart(bag, d)
  <2>1. PICK side \in Sides : Indexes(side) # {}
                              /\ ~(Max(Indexes(side)) - Min(Indexes(side)) < MaxSize)
    BY <1>1, <1>5
  <2>2. Min(Indexes(side)) \in Indexes(side) /\ Max(Indexes(side)) \in Indexes(side)
    BY <1>4, <2>1
  <2>3. PICK v \in Present(bag, side), w \in Present(bag, side) :
          Max(Indexes(side)) = Shr(v.index, d) /\ Min(Indexes(side)) = Shr(w.index, d)
    BY <2>2
  <2> QED
    BY <2>1, <2>3 DEF Apart
<1>6. ASSUME Apart(bag, d), FitsAt(bag, scale) PROVE FALSE
  <2>1. PICK side \in Sides : \E v, w \in Present(bag, side) :
                                ~(Shr(v.index, d) - Shr(w.index, d) < MaxSize)
    BY <1>6 DEF Apart
  <2>2. PICK x \in Indexes(side), y \in Indexes(side) : ~(x - y < MaxSize)
    BY <2>1
  <2>3. PICK top, bottom : top = Max(Indexes(side)) /\ bottom = Min(Indexes(side))
    OBVIOUS
  <2>4. Indexes(side) # {}
    BY <2>2
  <2>5. top - bottom < MaxSize
    BY <1>1, <1>6, <2>3, <2>4
  <2>6. /\ top \in Int /\ bottom \in Int /\ x \in Int /\ y \in Int
        /\ x <= top /\ bottom <= y
    <3> HIDE DEF Indexes
    <3> QED
      BY <1>4, <2>2, <2>3, <2>4
  <2> QED
    BY <2>2, <2>5, <2>6, HistogramAssumption
<1> QED
  BY <1>5, <1>6

\* More values stay apart.
LEMMA ApartWithMore ==
  ASSUME NEW bag, NEW bag2, NEW d, Apart(bag, d),
         \A side \in Sides : Present(bag, side) \subseteq Present(bag2, side)
  PROVE  Apart(bag2, d)
BY DEF Apart

\* Two values that had to be halved were apart one halving earlier.
LEMMA HalvedApart ==
  ASSUME NEW bag, NEW side \in Sides, NEW d \in 0 .. 30,
         NEW v \in Present(bag, side), NEW w \in Present(bag, side),
         NEW n, n = ChangeScale(Shr(v.index, d), Shr(w.index, d)), n # 0
  PROVE  n \in 1 .. 30 - d /\ Apart(bag, d + n - 1)
<1>1. v.index \in Int /\ w.index \in Int
  BY ValuesFacts DEF Present
<1>2. PICK high, low : high = Shr(v.index, d) /\ low = Shr(w.index, d)
  OBVIOUS
<1>3. /\ high \in Int /\ low \in Int /\ 30 - d \in 0 .. 30
      /\ Shr(high, 30 - d) \in {-1, 0} /\ Shr(low, 30 - d) \in {-1, 0}
  BY <1>2, IndexOfValue DEF Index, Present
<1>4. n \in 0 .. 30 - d /\ \A m \in 0 .. n - 1 : ~(Shr(high, m) - Shr(low, m) < MaxSize)
  <2>1. n = Halvings(high, low)
    BY <1>2 DEF ChangeScale
  <2>2. PICK k \in 0 .. 30 : k = 30 - d
    BY <1>3
  <2>3. Shr(high, k) \in {-1, 0} /\ Shr(low, k) \in {-1, 0}
    BY <1>3, <2>2
  <2>4. /\ Halvings(high, low) \in 0 .. k
        /\ \A m \in 0 .. Halvings(high, low) - 1 : ~(Shr(high, m) - Shr(low, m) < MaxSize)
    BY <1>3, <2>3, HalvingsFacts
  <2> QED
    BY <2>1, <2>2, <2>4
<1>5. /\ n \in 1 .. 30 - d /\ n - 1 \in 0 .. n - 1 /\ n - 1 \in Nat /\ d \in Nat
      /\ d + (n - 1) = d + n - 1 /\ d + (n - 1) <= 31
  BY <1>4
<1>6. ~(Shr(high, n - 1) - Shr(low, n - 1) < MaxSize)
  BY <1>4, <1>5
<1>7. Shr(high, n - 1) = Shr(v.index, d + n - 1) /\ Shr(low, n - 1) = Shr(w.index, d + n - 1)
  BY <1>1, <1>2, <1>5, ShrTwice
<1> QED
  BY <1>5, <1>6, <1>7 DEF Apart

LEMMA EndsAreTaken ==
  ASSUME NEW bag \in Bags, NEW side \in Sides, NEW d \in 0 .. 30, NEW b,
         Counts(b, bag, side, d), Length(b) # 0
  PROVE  /\ \E v \in Present(bag, side) : Shr(v.index, d) = b.start
         /\ \E v \in Present(bag, side) : Shr(v.index, d) = b.end
<1>1. b.start \in Int /\ b.end \in Int
  BY CountsEnds
<1>2. Held(b, b.start) > 0 /\ Held(b, b.end) > 0
  BY DEF Counts, TightRing, Tight
<1> QED
  BY <1>1, <1>2, CountedSomewhere

\* A value more.
LEMMA PresentWithOne ==
  ASSUME NEW bag \in Bags, NEW v \in Values
  PROVE  /\ \A side \in Sides :
              /\ Present(bag, side) \subseteq Present(OneMore(bag, v), side)
              /\ v \in OfSide(side) => v \in Present(OneMore(bag, v), side)
         /\ OnlyZeros(OneMore(bag, v)) => OnlyZeros(bag)
<1>1. ASSUME NEW w \in Values
      PROVE  /\ bag[w] \in Nat /\ OneMore(bag, v)[w] = IF w = v THEN bag[w] + 1 ELSE bag[w]
  BY DEF Bags, OneMore
<1>2. \A w \in Values : OneMore(bag, v)[w] >= bag[w] /\ (w = v => OneMore(bag, v)[w] > 0)
  BY <1>1
<1>3. \A w \in Values : bag[w] > 0 => OneMore(bag, v)[w] > 0
  BY <1>1, <1>2
<1>4. \A w \in Values : OneMore(bag, v)[w] = 0 => bag[w] = 0
  BY <1>1
<1>5. \A side \in Sides : OfSide(side) \subseteq Values
  BY ValuesFacts
<1>6. OnlyZeros(OneMore(bag, v)) => OnlyZeros(bag)
  BY <1>4 DEF OnlyZeros
<1> QED
  BY <1>2, <1>3, <1>5, <1>6 DEF Present

\* What the change for one more value requires: a bucket's end and the value, or
\* both ends, were apart one halving earlier.
LEMMA ChangeIsNeeded ==
  ASSUME NEW bag \in Bags, NEW side \in Sides, NEW d \in 0 .. 30, NEW b,
         Counts(b, bag, side, d), NEW v \in OfSide(side),
         NEW n, n = Change(b, Shr(v.index, d)), n # 0
  PROVE  n \in 1 .. 30 - d /\ Apart(OneMore(bag, v), d + n - 1)
<1>1. Length(b) # 0
  BY DEF Change
<1>2. PICK index : index = Shr(v.index, d)
  OBVIOUS
<1>3. /\ v \in Present(OneMore(bag, v), side)
      /\ Present(bag, side) \subseteq Present(OneMore(bag, v), side)
  <2>1. v \in Values
    BY ValuesFacts
  <2> QED
    BY <2>1, PresentWithOne
<1>4. PICK first \in Present(bag, side), last \in Present(bag, side) :
        Shr(first.index, d) = b.start /\ Shr(last.index, d) = b.end
  BY <1>1, EndsAreTaken
<1>5. b.start \in Int /\ b.end \in Int /\ index \in Int
  BY <1>1, <1>2, CountsEnds, IndexOfValue DEF Index
<1>6. PICK top \in {last, v} : Shr(top.index, d) = Max({b.end, index})
  BY <1>2, <1>4, <1>5, MaxOfTwo
<1>7. PICK bottom \in {first, v} : Shr(bottom.index, d) = Min({b.start, index})
  BY <1>2, <1>4, <1>5, MinOfTwo
<1>8. n = ChangeScale(Shr(top.index, d), Shr(bottom.index, d))
  BY <1>1, <1>2, <1>6, <1>7 DEF Change
<1>9. top \in Present(OneMore(bag, v), side) /\ bottom \in Present(OneMore(bag, v), side)
  BY <1>3
<1> QED
  BY <1>8, <1>9, HalvedApart

\* The scale could not be larger.
Precise(h, bag) ==
  OnlyZeros(bag) \/ h.scale = MaxScale \/ Apart(bag, Places(h) - 1)

\* A histogram without buckets has the largest scale.
Unscaled(h, bag) == OnlyZeros(bag) => h.scale = MaxScale

LEMMA RecordIsPrecise ==
  ASSUME NEW bag \in Bags, NEW h, Kept(h, bag), Unscaled(h, bag), NEW v \in Values
  PROVE  /\ Unscaled(Record(h, v), OneMore(bag, v))
         /\ Precise(h, bag) => Precise(Record(h, v), OneMore(bag, v))
<1>1. /\ h \in Histograms /\ h.scale \in Int /\ Places(h) \in 0 .. 30
      /\ \A side \in Sides : Counts(Buckets(h, side), bag, side, Places(h))
  BY DEF Kept, Sided, Histograms
<1>2. PICK r : r = Record(h, v)
  OBVIOUS
<1>3. \A side \in Sides : Present(bag, side) \subseteq Present(OneMore(bag, v), side)
  BY PresentWithOne
<1>4. OnlyZeros(OneMore(bag, v)) => OnlyZeros(bag)
  BY PresentWithOne
<1>5. CASE v = Zero
  <2>1. r = [h EXCEPT !.count = h.count + 1, !.zeroCount = h.zeroCount + 1]
    BY <1>2, <1>5 DEF Record
  <2>2. r.scale = h.scale
    BY <1>1, <2>1 DEF Histograms
  <2>3. OnlyZeros(bag) => OnlyZeros(OneMore(bag, v))
    BY <1>5 DEF OnlyZeros, OneMore, Bags
  <2>4. Apart(bag, Places(h) - 1) => Apart(OneMore(bag, v), Places(r) - 1)
    BY <1>3, <2>2, ApartWithMore DEF Places
  <2> QED
    BY <1>2, <1>4, <2>2, <2>3, <2>4 DEF Precise, Unscaled
<1>6. CASE v # Zero
  <2>1. PICK side \in Sides : v \in OfSide(side) /\ v.side = side
    BY <1>6, ValuesFacts DEF Sides, OfSide
  <2>2. PICK g : g = [h EXCEPT !.count = h.count + 1]
    OBVIOUS
  <2>3. Places(g) = Places(h) /\ g.scale = h.scale /\ Buckets(g, side) = Buckets(h, side)
        /\ g \in Histograms
    BY <1>1, <2>2 DEF Histograms, Places, Buckets
  <2>4. PICK d \in 0 .. 30 : d = Places(h)
    BY <1>1
  <2>15. PICK b : b = Buckets(h, side)
    OBVIOUS
  <2>5. PICK n : n = Change(b, Shr(v.index, d))
    OBVIOUS
  <2>6. n # 0 => n \in 1 .. 30 - d /\ Apart(OneMore(bag, v), d + n - 1)
    BY <1>1, <2>1, <2>4, <2>5, <2>15, ChangeIsNeeded
  <2>7. PICK s : s = Downscale(g, n)
    OBVIOUS
  <2>8. s.scale = h.scale - n
    BY <1>1, <2>3, <2>6, <2>7 DEF Downscale, Histograms
  <2>9. PICK c : r = WithBuckets(s, side, c)
    <3>1. Record(h, v) = UpdateBuckets(g, v)
      BY <1>6, <2>2 DEF Record
    <3>2. MapToIndex(g, v) = Shr(v.index, d)
      BY <2>3, <2>4 DEF MapToIndex, Places
    <3> QED
      BY <1>2, <2>1, <2>3, <2>4, <2>5, <2>7, <2>15, <3>1, <3>2 DEF UpdateBuckets
  <2>10. r.scale = h.scale - n
    BY <2>8, <2>9 DEF WithBuckets
  <2>11. Places(r) = d + n
    BY <1>1, <2>4, <2>6, <2>10, HistogramAssumption DEF Places
  <2>12. ~OnlyZeros(OneMore(bag, v))
    BY <1>6, OneMoreFacts DEF OnlyZeros, OneMore, Bags
  <2>13. CASE n = 0
    <3>1. r.scale = h.scale /\ Places(r) = Places(h)
      BY <1>1, <2>4, <2>10, <2>11, <2>13
    <3>2. Apart(bag, Places(h) - 1) => Apart(OneMore(bag, v), Places(r) - 1)
      BY <1>3, <3>1, ApartWithMore
    <3> QED
      BY <1>2, <2>12, <3>1, <3>2 DEF Precise, Unscaled
  <2>14. CASE n # 0
    BY <1>2, <2>6, <2>11, <2>12, <2>14 DEF Precise, Unscaled
  <2> QED
    BY <2>13, <2>14
<1> QED
  BY <1>5, <1>6

LEMMA NonePresent ==
  ASSUME NEW bag \in Bags, NEW side \in Sides, NEW d \in 0 .. 30, NEW b,
         Counts(b, bag, side, d)
  PROVE  Length(b) = 0 <=> Present(bag, side) = {}
<1>1. \A v \in OfSide(side) : bag[v] \in Nat
  BY ValuesFacts DEF Bags
<1>2. (\A v \in OfSide(side) : bag[v] = 0) <=> Present(bag, side) = {}
  BY <1>1 DEF Present
<1> QED
  BY <1>2, CountsNothing

\* The ends of buckets are, at e places, where values go.
EndsTaken(bag, side, ends, e) ==
  \E first, last \in Present(bag, side) :
    Shr(first.index, e) = ends.low /\ Shr(last.index, e) = ends.high

LEMMA EndsShifted ==
  ASSUME NEW bag \in Bags, NEW side \in Sides, NEW d \in 0 .. 30, NEW b,
         Counts(b, bag, side, d), Length(b) # 0,
         NEW t \in Nat, d + t <= 30
  PROVE  EndsTaken(bag, side, HighLow(b, t), d + t)
<1>1. PICK first \in Present(bag, side), last \in Present(bag, side) :
        Shr(first.index, d) = b.start /\ Shr(last.index, d) = b.end
  BY EndsAreTaken
<1>2. first.index \in Int /\ last.index \in Int
  BY ValuesFacts DEF Present
<1>3. d \in Nat /\ d + t <= 31
  OBVIOUS
<1>4. Shr(Shr(first.index, d), t) = Shr(first.index, d + t)
  BY <1>2, <1>3, ShrTwice
<1>5. Shr(Shr(last.index, d), t) = Shr(last.index, d + t)
  BY <1>2, <1>3, ShrTwice
<1>6. HighLow(b, t).low = Shr(b.start, t) /\ HighLow(b, t).high = Shr(b.end, t)
  BY DEF HighLow
<1> QED
  BY <1>1, <1>4, <1>5, <1>6 DEF EndsTaken

\* The scale two histograms with buckets are merged at: the smaller one of theirs
\* less the change that one of the sides requires.
LEMMA MinScaleFacts ==
  ASSUME NEW bag \in Bags, NEW h, Sided(h, bag), h.count # h.zeroCount,
         NEW bag2 \in Bags, NEW o, Sided(o, bag2), o.count # o.zeroCount,
         NEW s0, s0 = Min({h.scale, o.scale}),
         NEW all \in Bags,
         \A side \in Sides : /\ Present(bag, side) \subseteq Present(all, side)
                             /\ Present(bag2, side) \subseteq Present(all, side),
         \A side \in Sides : Present(bag, side) = {} <=> Present(bag2, side) = {}
  PROVE  \/ MinScale(h, o) = s0
         \/ /\ MinScale(h, o) \in Int
            /\ Apart(all, MaxScale - MinScale(h, o) - 1)
<1>1. PICK d1 \in 0 .. 30, d2 \in 0 .. 30 : d1 = Places(h) /\ d2 = Places(o)
  BY DEF Sided
<1>2. PICK s1 \in Int, s2 \in Int, m \in 0 .. 30 :
        /\ s1 = h.scale /\ s2 = o.scale /\ m = MaxScale
        /\ d1 = m - s1 /\ d2 = m - s2
        /\ Scale(h) = s1 /\ Scale(o) = s2
  BY <1>1, HistogramAssumption DEF Sided, Histograms, Places, Scale
<1>3. s0 \in Int /\ s0 = IF s1 <= s2 THEN s1 ELSE s2
  BY <1>2, MinOfTwo
<1>4. PICK t1 \in Nat, t2 \in Nat, e \in 0 .. 30 :
        /\ t1 = s1 - s0 /\ t2 = s2 - s0 /\ e = m - s0
        /\ d1 + t1 = e /\ d2 + t2 = e
  <2>1. /\ s1 - s0 \in Nat /\ s2 - s0 \in Nat /\ m - s0 \in 0 .. 30
        /\ d1 + (s1 - s0) = m - s0 /\ d2 + (s2 - s0) = m - s0
    <3>1. d1 = m - s1 /\ d2 = m - s2
      BY <1>2
    <3> QED
      BY ONLY <1>3, <3>1, d1 \in 0 .. 30, d2 \in 0 .. 30, m \in 0 .. 30, s1 \in Int, s2 \in Int
  <2> QED
    BY <2>1
<1> DEFINE ChangeOf(side) ==
             ChangeScale(Max({HighLow(Buckets(h, side), t1).high, HighLow(Buckets(o, side), t2).high}),
                         Min({HighLow(Buckets(h, side), t1).low, HighLow(Buckets(o, side), t2).low}))
<1>5. ASSUME NEW side \in Sides
      PROVE  /\ ChangeOf(side) \in 0 .. 30 - e
             /\ ChangeOf(side) # 0 => Apart(all, e + ChangeOf(side) - 1)
  <2>1. PICK b1, b2, n : b1 = Buckets(h, side) /\ b2 = Buckets(o, side) /\ n = ChangeOf(side)
    OBVIOUS
  <2>2. n = ChangeScale(Max({HighLow(b1, t1).high, HighLow(b2, t2).high}),
                        Min({HighLow(b1, t1).low, HighLow(b2, t2).low}))
    BY <2>1
  <2> HIDE DEF ChangeOf
  <2>3. Counts(b1, bag, side, d1) /\ Counts(b2, bag2, side, d2)
    BY <1>1, <2>1 DEF Sided
  <2>4. Brings(b1, d1, t1, e) /\ Brings(b2, d2, t2, e)
    BY <1>4 DEF Brings
  <2>5. SideFitting(b1, t1, b2, t2, e, n)
    BY <2>2, <2>3, <2>4, SideFits
  <2>6. n \in 0 .. 30 - e /\ (Length(b1) = 0 /\ Length(b2) = 0 => n = 0)
    BY <2>5 DEF SideFitting
  <2>7. ASSUME n # 0 PROVE Apart(all, e + n - 1)
    <3>1. Length(b1) # 0 /\ Length(b2) # 0
      <4>1. Length(b1) = 0 <=> Present(bag, side) = {}
        BY <2>3, NonePresent
      <4>2. Length(b2) = 0 <=> Present(bag2, side) = {}
        BY <2>3, NonePresent
      <4> QED
        BY <2>6, <2>7, <4>1, <4>2
    <3>2. PICK f1 \in Present(all, side), l1 \in Present(all, side) :
            Shr(f1.index, e) = HighLow(b1, t1).low /\ Shr(l1.index, e) = HighLow(b1, t1).high
      <4>1. t1 \in Nat /\ d1 \in 0 .. 30 /\ d1 + t1 <= 30 /\ d1 + t1 = e
        BY <1>4
      <4>2. Counts(b1, bag, side, d1) /\ Length(b1) # 0
        BY <2>3, <3>1
      <4>3. EndsTaken(bag, side, HighLow(b1, t1), d1 + t1)
        BY <4>1, <4>2, EndsShifted
      <4> QED
        BY <4>1, <4>3 DEF EndsTaken
    <3>3. PICK f2 \in Present(all, side), l2 \in Present(all, side) :
            Shr(f2.index, e) = HighLow(b2, t2).low /\ Shr(l2.index, e) = HighLow(b2, t2).high
      <4>1. t2 \in Nat /\ d2 \in 0 .. 30 /\ d2 + t2 <= 30 /\ d2 + t2 = e
        BY <1>4
      <4>2. Counts(b2, bag2, side, d2) /\ Length(b2) # 0
        BY <2>3, <3>1
      <4>3. EndsTaken(bag2, side, HighLow(b2, t2), d2 + t2)
        BY <4>1, <4>2, EndsShifted
      <4> QED
        BY <4>1, <4>3 DEF EndsTaken
    <3>4. \A v \in Present(all, side) : Shr(v.index, e) \in Int
      BY IndexOfValue DEF Index, Present
    <3>5. PICK top \in {l1, l2} :
            Shr(top.index, e) = Max({HighLow(b1, t1).high, HighLow(b2, t2).high})
      BY <3>2, <3>3, <3>4, MaxOfTwo
    <3>6. PICK bottom \in {f1, f2} :
            Shr(bottom.index, e) = Min({HighLow(b1, t1).low, HighLow(b2, t2).low})
      BY <3>2, <3>3, <3>4, MinOfTwo
    <3>7. n = ChangeScale(Shr(top.index, e), Shr(bottom.index, e))
      BY <2>2, <3>5, <3>6
    <3> QED
      BY <2>7, <3>7, HalvedApart
  <2> QED
    BY <2>1, <2>6, <2>7
<1>6. MinScale(h, o) = Min({s0 - ChangeOf("positive"), s0 - ChangeOf("negative")})
  BY <1>2, <1>4 DEF MinScale
<1>7. PICK p \in 0 .. 30 - e, n \in 0 .. 30 - e :
        /\ p = ChangeOf("positive") /\ n = ChangeOf("negative")
        /\ p # 0 => Apart(all, e + p - 1)
        /\ n # 0 => Apart(all, e + n - 1)
  <2> HIDE DEF ChangeOf
  <2> QED
    BY <1>5 DEF Sides
<1> HIDE DEF ChangeOf
<1>8. PICK by \in {p, n} : MinScale(h, o) = s0 - by
  <2>1. s0 - p \in Int /\ s0 - n \in Int
    BY <1>3
  <2>2. Min({s0 - p, s0 - n}) \in {s0 - p, s0 - n}
    BY <2>1, MinOfTwo
  <2> QED
    BY <1>6, <1>7, <2>2
<1>9. by \in Int /\ (by # 0 => Apart(all, e + by - 1))
  BY <1>7, <1>8
<1>10. MaxScale - MinScale(h, o) - 1 = e + by - 1
  <2>1. e = m - s0 /\ s0 \in Int /\ by \in Int
    BY <1>3, <1>4, <1>9
  <2>2. m - (s0 - by) - 1 = e + by - 1
    BY ONLY <2>1, m \in 0 .. 30
  <2> QED
    BY <1>2, <1>8, <2>2
<1> QED
  BY <1>3, <1>8, <1>9, <1>10

\* The values of two histograms together.
LEMMA PresentInSum ==
  ASSUME NEW bag \in Bags, NEW bag2 \in Bags
  PROVE  /\ \A side \in Sides : /\ Present(bag, side) \subseteq Present(Plus(bag, bag2), side)
                                /\ Present(bag2, side) \subseteq Present(Plus(bag, bag2), side)
         /\ OnlyZeros(Plus(bag, bag2)) <=> OnlyZeros(bag) /\ OnlyZeros(bag2)
<1>1. ASSUME NEW v \in Values
      PROVE  /\ bag[v] \in Nat /\ bag2[v] \in Nat /\ Plus(bag, bag2)[v] = bag[v] + bag2[v]
  BY DEF Bags, Plus
<1>2. ASSUME NEW v \in Values
      PROVE  /\ bag[v] > 0 \/ bag2[v] > 0 => Plus(bag, bag2)[v] > 0
             /\ Plus(bag, bag2)[v] = 0 <=> bag[v] = 0 /\ bag2[v] = 0
  BY <1>1
<1>3. \A side \in Sides : OfSide(side) \subseteq Values
  BY ValuesFacts
<1>4. OnlyZeros(Plus(bag, bag2)) <=> OnlyZeros(bag) /\ OnlyZeros(bag2)
  BY <1>2 DEF OnlyZeros
<1> QED
  BY <1>2, <1>3, <1>4 DEF Present

LEMMA OnlyZerosAbsent ==
  ASSUME NEW bag \in Bags
  PROVE  OnlyZeros(bag) <=> \A side \in Sides : Present(bag, side) = {}
<1>1. \A v \in Values : bag[v] \in Nat
  BY DEF Bags
<1>2. \A v \in Values : bag[v] = 0 <=> ~(bag[v] > 0)
  BY <1>1
<1>3. Values \ {Zero} = OfSide("positive") \cup OfSide("negative")
  BY ValuesFacts
<1> QED
  BY <1>2, <1>3 DEF OnlyZeros, Present, Sides

\* What a merge does to the scale.
LEMMA MergeScale ==
  ASSUME NEW h, h \in Histograms, NEW o, NEW sum,
         sum = [h EXCEPT !.count = h.count + o.count, !.zeroCount = h.zeroCount + o.zeroCount],
         NEW change, change = Scale(sum) - MinScale(sum, o), change \in Int
  PROVE  Merge(o, h).scale = h.scale - change
<1>1. sum.scale = h.scale /\ h.scale \in Int
  BY DEF Histograms
<1>2. PICK scaled : scaled = Downscale(sum, change)
  OBVIOUS
<1>3. scaled.scale = h.scale - change
  <2>1. CASE change = 0
    BY <1>1, <1>2, <2>1 DEF Downscale
  <2>2. CASE change # 0
    <3>1. scaled = [sum EXCEPT !.scale = sum.scale - change,
                               !.positive = DownscaleBuckets(sum.positive, change),
                               !.negative = DownscaleBuckets(sum.negative, change)]
      BY <1>2, <2>2 DEF Downscale
    <3>2. "scale" \in DOMAIN sum
      BY DEF Histograms
    <3> QED
      BY <1>1, <3>1, <3>2
  <2> QED
    BY <2>1, <2>2
<1>4. PICK positive, negative :
        Merge(o, h) = [scaled EXCEPT !.positive = positive, !.negative = negative]
  BY <1>2 DEF Merge
<1> QED
  BY <1>3, <1>4

LEMMA MergeIsPrecise ==
  ASSUME NEW bag \in Bags, NEW h, Kept(h, bag), Unscaled(h, bag),
         NEW bag2 \in Bags, NEW o, Kept(o, bag2), Unscaled(o, bag2)
  PROVE  /\ Unscaled(Merge(o, h), Plus(bag, bag2))
         /\ /\ Precise(h, bag) /\ Precise(o, bag2)
            /\ \A side \in Sides : Present(bag, side) = {} <=> Present(bag2, side) = {}
            => Precise(Merge(o, h), Plus(bag, bag2))
<1>1. /\ h \in Histograms /\ Sided(h, bag) /\ Sided(o, bag2)
      /\ h.count = Total(bag, Values) /\ h.zeroCount = bag[Zero]
      /\ o.count = Total(bag2, Values) /\ o.zeroCount = bag2[Zero]
  BY DEF Kept, Sided
<1>2. /\ Total(bag, Values) \in Nat /\ bag[Zero] \in Nat /\ bag[Zero] <= Total(bag, Values)
      /\ Total(bag, Values) = bag[Zero] <=> OnlyZeros(bag)
      /\ Total(bag2, Values) \in Nat /\ bag2[Zero] \in Nat /\ bag2[Zero] <= Total(bag2, Values)
      /\ Total(bag2, Values) = bag2[Zero] <=> OnlyZeros(bag2)
  BY OnlyZerosCounted
<1>3. PICK count \in Nat, zeroCount \in Nat :
        /\ count = h.count + o.count /\ zeroCount = h.zeroCount + o.zeroCount
        /\ count = zeroCount <=> OnlyZeros(bag) /\ OnlyZeros(bag2)
        /\ o.count = o.zeroCount <=> OnlyZeros(bag2)
  BY <1>1, <1>2
<1>4. PICK sum : sum = WithCounts(h, count, zeroCount)
  OBVIOUS
<1>5. Sided(sum, bag) /\ sum.count = count /\ sum.zeroCount = zeroCount /\ sum.scale = h.scale
  <2>1. sum.scale = h.scale
    BY <1>1, <1>4 DEF WithCounts, Histograms
  <2> QED
    BY <1>1, <1>4, <2>1, CountsReplaced
<1>6. sum = [h EXCEPT !.count = h.count + o.count, !.zeroCount = h.zeroCount + o.zeroCount]
  BY <1>3, <1>4 DEF WithCounts
<1>7. PICK r, scale, all : r = Merge(o, h) /\ scale = MinScale(sum, o) /\ all = Plus(bag, bag2)
  OBVIOUS
<1>8. h.scale \in Int /\ o.scale \in Int /\ MaxScale \in Int
  BY <1>1, HistogramAssumption DEF Sided, Histograms
<1>9. /\ \A side \in Sides : /\ Present(bag, side) \subseteq Present(all, side)
                             /\ Present(bag2, side) \subseteq Present(all, side)
      /\ OnlyZeros(all) <=> OnlyZeros(bag) /\ OnlyZeros(bag2)
      /\ all \in Bags
  BY <1>7, PresentInSum, TotalsAdd
<1>10. ASSUME OnlyZeros(bag), OnlyZeros(bag2) PROVE r.scale = MaxScale
  <2>1. Scale(sum) = 0 /\ Scale(o) = 0
    BY <1>3, <1>5, <1>10 DEF Scale
  <2>2. ASSUME NEW side \in Sides
        PROVE  Length(Buckets(sum, side)) = 0 /\ Length(Buckets(o, side)) = 0
    <3>1. (Length(Buckets(sum, side)) = 0 <=> Present(bag, side) = {})
      BY <1>5, NonePresent DEF Sided
    <3>2. (Length(Buckets(o, side)) = 0 <=> Present(bag2, side) = {})
      BY <1>1, NonePresent DEF Sided
    <3> QED
      BY <1>10, <3>1, <3>2, OnlyZerosAbsent
  <2>3. MinScale(sum, o) = 0
    <3>1. ChangeScale(-1, 0) = 0
      <4>1. Shr(-1, 0) \in {-1, 0} /\ Shr(0, 0) \in {-1, 0}
        BY ShrZero
      <4>2. Halvings(-1, 0) \in 0 .. 0
        BY <4>1, HalvingsFacts
      <4> QED
        BY <4>2 DEF ChangeScale
    <3>2. Min({0, 0}) = 0 /\ Max({-1, -1}) = -1
      BY MinOfTwo, MaxOfTwo
    <3>3. \A side \in Sides : HighLow(Buckets(sum, side), 0) = [low |-> 0, high |-> -1]
                              /\ HighLow(Buckets(o, side), 0) = [low |-> 0, high |-> -1]
      BY <2>2 DEF HighLow
    <3>4. 0 - 0 = 0
      OBVIOUS
    <3> DEFINE SideScale(side) ==
                 0 - ChangeScale(Max({HighLow(Buckets(sum, side), 0).high, HighLow(Buckets(o, side), 0).high}),
                                 Min({HighLow(Buckets(sum, side), 0).low, HighLow(Buckets(o, side), 0).low}))
    <3>5. ASSUME NEW side \in Sides PROVE SideScale(side) = 0
      <4>1. /\ HighLow(Buckets(sum, side), 0).high = -1 /\ HighLow(Buckets(o, side), 0).high = -1
            /\ HighLow(Buckets(sum, side), 0).low = 0 /\ HighLow(Buckets(o, side), 0).low = 0
        BY <3>3
      <4> QED
        BY <3>1, <3>2, <3>4, <4>1
    <3>6. MinScale(sum, o) = Min({SideScale("positive"), SideScale("negative")})
      <4>1. /\ Min({Scale(sum), Scale(o)}) = 0
            /\ Scale(sum) - Min({Scale(sum), Scale(o)}) = 0
            /\ Scale(o) - Min({Scale(sum), Scale(o)}) = 0
        BY <2>1, <3>2, <3>4
      <4> QED
        BY <4>1 DEF MinScale
    <3> HIDE DEF SideScale
    <3> QED
      BY <3>2, <3>5, <3>6 DEF Sides
  <2>4. r.scale = h.scale - 0
    <3>1. PICK change \in Int : change = 0 /\ change = Scale(sum) - MinScale(sum, o)
      BY <2>1, <2>3
    <3> QED
      BY ZenonT(40), <1>1, <1>6, <1>7, <3>1, MergeScale
  <2> QED
    BY <1>8, <1>10, <2>4 DEF Unscaled
<1>11. ASSUME ~OnlyZeros(bag), ~OnlyZeros(bag2), Precise(h, bag), Precise(o, bag2),
              \A side \in Sides : Present(bag, side) = {} <=> Present(bag2, side) = {}
       PROVE  Precise(r, all)
  <2>1. sum.count # sum.zeroCount /\ o.count # o.zeroCount
    BY <1>3, <1>5, <1>11
  <2>2. PICK s0 : s0 = Min({h.scale, o.scale})
    OBVIOUS
  <2>3. s0 \in Int /\ (s0 = h.scale \/ s0 = o.scale)
    BY <1>8, <2>2, MinOfTwo
  <2>4. scale \in Int /\ (scale = s0 \/ Apart(all, MaxScale - scale - 1))
    <3>1. \/ MinScale(sum, o) = s0
          \/ MinScale(sum, o) \in Int /\ Apart(all, MaxScale - MinScale(sum, o) - 1)
      BY ZenonT(40), <1>1, <1>5, <1>9, <1>11, <2>1, <2>2, MinScaleFacts
    <3> QED
      BY <1>7, <2>3, <3>1
  <2>5. Scale(sum) = h.scale
    BY <1>5, <2>1 DEF Scale
  <2>6. r.scale = scale
    <3>1. PICK change \in Int : change = h.scale - scale
      BY <1>8, <2>4
    <3>2. r.scale = h.scale - change
      BY <1>1, <1>6, <1>7, <2>5, <3>1, MergeScale
    <3> QED
      BY <1>8, <2>4, <3>1, <3>2
  <2>7. CASE scale = h.scale
    BY <1>9, <1>11, <2>6, <2>7, ApartWithMore DEF Precise, Places
  <2>8. CASE scale = o.scale
    BY <1>9, <1>11, <2>6, <2>8, ApartWithMore DEF Precise, Places
  <2>9. CASE Apart(all, MaxScale - scale - 1)
    BY <2>6, <2>9 DEF Precise, Places
  <2> QED
    BY <2>3, <2>4, <2>7, <2>8, <2>9
<1>12. ASSUME \A side \in Sides : Present(bag, side) = {} <=> Present(bag2, side) = {}
       PROVE  OnlyZeros(bag) <=> OnlyZeros(bag2)
  BY <1>12, OnlyZerosAbsent
<1> QED
  BY <1>7, <1>9, <1>10, <1>11, <1>12 DEF Unscaled, Precise

-------------------------------------------------------------------------------
EmptyUnscaled ==
  \A a \in Accumulations : Followed(a) => Unscaled(hist[a], recorded[a])

LEMMA PreciseIs ==
  ASSUME HistogramsKept, NEW a \in Accumulations, Followed(a)
  PROVE  IsPrecise(a) <=> Precise(hist[a], recorded[a])
<1>1. PICK h, bag : h = hist[a] /\ bag = recorded[a]
  OBVIOUS
<1>2. /\ bag \in Bags /\ Kept(h, bag) /\ h.scale \in Int /\ Places(h) \in 0 .. 30
  BY <1>1 DEF HistogramsKept, Kept, Sided, Histograms
<1>3. CASE OnlyZeros(bag)
  BY <1>1, <1>3 DEF IsPrecise, Precise
<1>4. CASE ~OnlyZeros(bag)
  <2>1. Scale(h) = h.scale
    BY <1>2, <1>4, OnlyZerosCounted DEF Kept, Scale
  <2>2. CASE h.scale = MaxScale
    BY <1>1, <2>1, <2>2 DEF IsPrecise, Precise
  <2>3. CASE h.scale # MaxScale
    <3>1. PICK m \in 0 .. 30 : m = MaxScale
      BY HistogramAssumption
    <3>2. PICK d \in 0 .. 30 : d = Places(h) - 1 /\ d = MaxScale - (h.scale + 1)
      <4>1. m - h.scale \in 0 .. 30 /\ h.scale # m
        BY <1>2, <2>3, <3>1 DEF Places
      <4>2. (m - h.scale) - 1 \in 0 .. 30 /\ (m - h.scale) - 1 = m - (h.scale + 1)
        BY <1>2, <4>1
      <4> QED
        BY <3>1, <4>2 DEF Places
    <3>3. ~FitsAt(bag, h.scale + 1) <=> Apart(bag, d)
      BY <3>2, FitsUnlessApart
    <3> QED
      BY <1>1, <1>4, <2>1, <2>3, <3>2, <3>3 DEF IsPrecise, Precise
  <2> QED
    BY <2>2, <2>3
<1> QED
  BY <1>3, <1>4

\* Recording a value and merging keep the scale of empty histograms; a difference
\* that is followed is never empty (LeftBy).
LEMMA EmptyUnscaledInductive ==
  ASSUME HistogramsKept, EmptyUnscaled, [Next]_vars
  PROVE  EmptyUnscaled'
<1>1. \A a \in Accumulations :
        /\ recorded[a] \in Bags
        /\ Followed(a) => Kept(hist[a], recorded[a]) /\ Unscaled(hist[a], recorded[a])
  BY DEF HistogramsKept, EmptyUnscaled
<1>2. /\ hist = [c \in Accumulations |-> hist[c]]
      /\ recorded \in [Accumulations -> Bags] /\ left \in [Accumulations -> Left]
  BY DEF HistogramsKept
<1>3. ASSUME NEW a \in Accumulations, NEW h, NEW bag, Unscaled(h, bag),
             hist' = [hist EXCEPT ![a] = h], recorded' = [recorded EXCEPT ![a] = bag],
             \A c \in Accumulations \ {a} : left'[c] = left[c]
      PROVE  EmptyUnscaled'
  <2>1. hist'[a] = h /\ recorded'[a] = bag
    BY <1>2, <1>3
  <2>2. \A c \in Accumulations \ {a} : hist'[c] = hist[c] /\ recorded'[c] = recorded[c]
    BY <1>2, <1>3
  <2> QED
    BY <1>1, <1>3, <2>1, <2>2 DEF EmptyUnscaled, Followed
<1>4. ASSUME NEW a \in Accumulations, Create(a) PROVE EmptyUnscaled'
  <2>1. Unscaled(NewHistogram, NoValues)
    BY DEF Unscaled, NewHistogram
  <2>2. \A c \in Accumulations \ {a} : left'[c] = left[c]
    BY <1>2, <1>4 DEF Create
  <2> QED
    BY <1>3, <1>4, <2>1, <2>2 DEF Create
<1>5. ASSUME NEW a \in Accumulations, NEW v \in Values, RecordValue(a, v) PROVE EmptyUnscaled'
  <2>1. PICK h, bag : h = Record(hist[a], v) /\ bag = OneMore(recorded[a], v)
    OBVIOUS
  <2>2. Unscaled(h, bag)
    BY <1>1, <1>5, <2>1, RecordIsPrecise DEF RecordValue
  <2>3. /\ hist' = [hist EXCEPT ![a] = h] /\ recorded' = [recorded EXCEPT ![a] = bag]
        /\ left' = left
    BY <1>5, <2>1 DEF RecordValue, OneMore
  <2> QED
    BY <1>3, <2>2, <2>3
<1>6. ASSUME NEW a \in Accumulations, NEW previous \in Accumulations, MergeInto(a, previous)
      PROVE  EmptyUnscaled'
  <2>1. PICK h, bag : h = Merge(hist[previous], hist[a]) /\ bag = Plus(recorded[a], recorded[previous])
    OBVIOUS
  <2>2. Unscaled(h, bag)
    BY <1>1, <1>6, <2>1, MergeIsPrecise DEF MergeInto
  <2>3. /\ hist' = [hist EXCEPT ![a] = h] /\ recorded' = [recorded EXCEPT ![a] = bag]
        /\ left' = left
    BY <1>6, <2>1 DEF MergeInto
  <2> QED
    BY <1>3, <2>2, <2>3
<1>7. ASSUME NEW a \in Accumulations, NEW previous \in Accumulations, DiffFrom(a, previous)
      PROVE  EmptyUnscaled'
  <2>1. PICK rest : rest = LeftBy(recorded[previous], recorded[a])
    OBVIOUS
  <2>2. /\ left'[a] = rest
        /\ \A c \in Accumulations \ {a} :
             left'[c] = left[c] /\ hist'[c] = hist[c] /\ recorded'[c] = recorded[c]
    BY <1>2, <1>7, <2>1 DEF DiffFrom
  <2>3. rest = "values" => Unscaled(hist'[a], recorded'[a])
    <3>1. rest = "values" => ~OnlyZeros(Minus(recorded[a], recorded[previous]))
      BY <2>1 DEF LeftBy
    <3>2. rest = "values" => recorded'[a] = Minus(recorded[a], recorded[previous])
      BY <1>2, <1>7, <2>2 DEF DiffFrom
    <3> QED
      BY <3>1, <3>2 DEF Unscaled
  <2> QED
    BY <1>1, <2>2, <2>3 DEF EmptyUnscaled, Followed
<1>8. CASE UNCHANGED vars
  BY <1>8 DEF vars, EmptyUnscaled, Followed
<1> QED
  BY <1>4, <1>5, <1>6, <1>7, <1>8 DEF Next

\* Recording costs no more precision than the values require, nor does merging
\* two histograms that have values on the same sides
\* (ExponentialHistogram.ts:413, 446): a halving is done only if two values, or two
\* ends of buckets where values are, were apart before.
THEOREM HistogramKeepsPrecision ==
  Spec => PrecisionIsKept
<1> DEFINE Changes(a) ==
             /\ IsPrecise(a)
             /\ \/ \E v \in Values : RecordValue(a, v)
                \/ \E previous \in Accumulations \ {a} :
                     IsPrecise(previous) /\ Alike(a, previous) /\ MergeInto(a, previous)
<1> DEFINE Agree ==
             \A a \in Accumulations :
               Followed(a) => (IsPrecise(a) <=> Precise(hist[a], recorded[a]))
<1>a. HistogramsKept => Agree
  BY PreciseIs
<1>0. HistogramsKept' => Agree'
  <2> HIDE DEF Agree
  <2> QED
    BY <1>a, PTL
<1>1. Init => EmptyUnscaled
  BY DEF Init, EmptyUnscaled, Unscaled, NewHistogram
<1>2. ASSUME HistogramsKept, HistogramsKept', EmptyUnscaled, NEW a \in Accumulations, Changes(a)
      PROVE  IsPrecise(a)'
  <2>1. \A c \in Accumulations :
          /\ recorded[c] \in Bags
          /\ Followed(c) => Kept(hist[c], recorded[c]) /\ Unscaled(hist[c], recorded[c])
    BY <1>2 DEF HistogramsKept, EmptyUnscaled
  <2>2. hist = [c \in Accumulations |-> hist[c]] /\ recorded \in [Accumulations -> Bags]
    BY <1>2 DEF HistogramsKept
  <2>3. Followed(a) /\ Followed(a)'
    BY <1>2 DEF RecordValue, MergeInto, Followed
  <2>4. IsPrecise(a)' <=> Precise(hist'[a], recorded'[a])
    BY <1>0, <1>2, <2>3
  <2>5. Precise(hist[a], recorded[a])
    BY <1>2, <2>3, PreciseIs
  <2>6. ASSUME NEW v \in Values, RecordValue(a, v) PROVE Precise(hist'[a], recorded'[a])
    <3>1. hist'[a] = Record(hist[a], v) /\ recorded'[a] = OneMore(recorded[a], v)
      BY <2>2, <2>6 DEF RecordValue, OneMore
    <3> QED
      BY <2>1, <2>5, <2>3, <3>1, RecordIsPrecise
  <2>7. ASSUME NEW previous \in Accumulations \ {a},
               IsPrecise(previous), Alike(a, previous), MergeInto(a, previous)
        PROVE  Precise(hist'[a], recorded'[a])
    <3>1. /\ hist'[a] = Merge(hist[previous], hist[a])
          /\ recorded'[a] = Plus(recorded[a], recorded[previous])
      BY <2>2, <2>7 DEF MergeInto
    <3>2. Precise(hist[previous], recorded[previous]) /\ Followed(previous)
      BY <1>2, <2>7, PreciseIs DEF MergeInto
    <3>3. \A side \in Sides :
            Present(recorded[a], side) = {} <=> Present(recorded[previous], side) = {}
      BY <2>7 DEF Alike, Present
    <3> QED
      BY <2>1, <2>5, <2>7, <2>3, <3>1, <3>2, <3>3, MergeIsPrecise
  <2> QED
    BY <1>2, <2>4, <2>6, <2>7
<1>3. HistogramsKept /\ HistogramsKept' /\ EmptyUnscaled /\ [Next]_vars
        => [\A a \in Accumulations : Changes(a) => IsPrecise(a)']_vars
  BY <1>2
<1>4. HistogramsKept /\ EmptyUnscaled /\ [Next]_vars => EmptyUnscaled'
  BY EmptyUnscaledInductive
<1> HIDE DEF Changes
<1>5. Spec => [][\A a \in Accumulations : Changes(a) => IsPrecise(a)']_vars
  BY <1>1, <1>3, <1>4, HistogramInductive, PTL DEF Spec
<1> QED
  BY <1>5 DEF PrecisionIsKept, Changes
===============================================================================
