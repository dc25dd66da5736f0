------------------------------ MODULE FoldProofs ------------------------------
(* What the folds of the community modules compute: SumFunctionOnSet over a
   finite set, and FlattenSeq and ToSet of a sequence that grows.  The function
   each fold is defined by is shown to exist, by induction over the naturals as
   a least counterexample. *)
EXTENDS Integers, Sequences, FiniteSets, SequencesExt, FiniteSetsExt,
        SequenceTheorems, FiniteSetTheorems, WellFoundedInduction, TLAPS

LessThan == {p \in Nat \X Nat : p[1] < p[2]}

LEMMA NatHasLeast ==
  ASSUME NEW S, S \subseteq Nat, S # {}
  PROVE  \E x \in S : \A y \in S : x <= y
<1>1. OpToRel(<, Nat) = LessThan
  BY DEF OpToRel, LessThan
<1>2. IsWellFoundedOn(LessThan, Nat)
  BY <1>1, NatLessThanWellFounded
<1>3. PICK x \in S : \A y \in S : ~(<<y, x>> \in LessThan)
  BY <1>2, WFMin
<1> SUFFICES ASSUME NEW y \in S PROVE x <= y
  OBVIOUS
<1>4. ~(<<y, x>> \in LessThan)
  BY <1>3
<1>5. x \in Nat /\ y \in Nat
  OBVIOUS
<1> QED
  BY <1>4, <1>5, SMT DEF LessThan

\* A set with 0 and every successor of a member holds all naturals.
LEMMA NatsBySuccessor ==
  ASSUME NEW S, 0 \in S, \A n \in Nat : n \in S => n + 1 \in S
  PROVE  Nat \subseteq S
<1> SUFFICES ASSUME Nat \ S # {} PROVE FALSE
  OBVIOUS
<1>1. PICK x \in Nat \ S : \A y \in Nat \ S : x <= y
  BY NatHasLeast
<1>2. x # 0 /\ x - 1 \in Nat
  BY <1>1
<1>3. x - 1 \in S
  BY <1>1, <1>2
<1>4. (x - 1) + 1 = x
  BY <1>2
<1> QED
  BY <1>1, <1>2, <1>3, <1>4

-------------------------------------------------------------------------------
\* Sums over finite sets

\* What holds of the empty set and of every set with one more element holds of
\* every subset of a finite set.
LEMMA SetsByAddition ==
  ASSUME NEW S, IsFiniteSet(S), NEW P, {} \in P,
         \A s \in SUBSET S : s \in P => \A x \in S \ s : s \cup {x} \in P
  PROVE  SUBSET S \subseteq P
<1> DEFINE Sized == {n \in Nat : \A s \in SUBSET S : Cardinality(s) = n => s \in P}
<1>1. \A s \in SUBSET S : IsFiniteSet(s) /\ Cardinality(s) \in Nat
  BY FS_Subset, FS_CardinalityType
<1>2. 0 \in Sized
  BY <1>1, FS_EmptySet
<1>3. ASSUME NEW n \in Nat, n \in Sized PROVE n + 1 \in Sized
  <2> SUFFICES ASSUME NEW s \in SUBSET S, Cardinality(s) = n + 1 PROVE s \in P
    BY <1>3
  <2>1. PICK x : x \in s
    BY <1>1, FS_EmptySet
  <2>2. s \ {x} \in SUBSET S /\ Cardinality(s \ {x}) = n
    BY SMTT(30), <1>1, <2>1, FS_RemoveElement
  <2>3. s \ {x} \in P
    BY <1>3, <2>2
  <2>4. s = (s \ {x}) \cup {x} /\ x \in S \ (s \ {x})
    BY <2>1
  <2> QED
    BY <2>2, <2>3, <2>4
<1> HIDE DEF Sized
<1>4. Nat \subseteq Sized
  BY <1>2, <1>3, NatsBySuccessor
<1> QED
  BY <1>1, <1>4 DEF Sized

\* The function by which SumFunctionOnSet is defined.
Sums(g, f, S) ==
  g = [s \in SUBSET S |->
         IF s = {} THEN 0
         ELSE f[CHOOSE x \in s : TRUE] + g[s \ {CHOOSE x \in s : TRUE}]]

\* There is one.
LEMMA SumsExist ==
  ASSUME NEW f, NEW S, IsFiniteSet(S)
  PROVE  \E g : Sums(g, f, S)
<1> DEFINE Small(n) == {s \in SUBSET S : Cardinality(s) <= n}
           Next(g, s) == IF s = {} THEN 0
                         ELSE f[CHOOSE x \in s : TRUE] + g[s \ {CHOOSE x \in s : TRUE}]
           Reaches(n) == \E g : \A s \in Small(n) : g[s] = Next(g, s)
           Reached == {n \in Nat : Reaches(n)}
<1>1. \A s \in SUBSET S : IsFiniteSet(s) /\ Cardinality(s) \in Nat
  BY FS_Subset, FS_CardinalityType
<1>2. \A s \in SUBSET S : \A n \in Nat :
        s # {} /\ s \in Small(n + 1) => s \ {CHOOSE x \in s : TRUE} \in Small(n)
  <2> SUFFICES ASSUME NEW s \in SUBSET S, NEW n \in Nat, s # {}, s \in Small(n + 1)
               PROVE  s \ {CHOOSE x \in s : TRUE} \in Small(n)
    OBVIOUS
  <2>1. PICK x : x = (CHOOSE y \in s : TRUE) /\ x \in s
    OBVIOUS
  <2>2. Cardinality(s \ {x}) = Cardinality(s) - 1
    BY <1>1, <2>1, FS_RemoveElement
  <2> QED
    BY <1>1, <2>1, <2>2
<1>3. 0 \in Reached
  <2>1. \A s \in Small(0) : s = {}
    BY <1>1, FS_EmptySet
  <2>2. LET g == [s \in {{}} |-> 0] IN \A s \in Small(0) : g[s] = Next(g, s)
    BY <2>1
  <2>3. Reaches(0)
    BY <2>2
  <2> QED
    BY <2>3
<1>4. ASSUME NEW n \in Nat, n \in Reached PROVE n + 1 \in Reached
  <2>1. PICK g : \A s \in Small(n) : g[s] = Next(g, s)
    BY <1>4
  <2> DEFINE h == [s \in SUBSET S |-> IF s \in Small(n) THEN g[s] ELSE Next(g, s)]
  <2>2. ASSUME NEW s \in Small(n + 1) PROVE h[s] = Next(h, s)
    <3>1. h[s] = Next(g, s)
      BY <2>1
    <3>2. CASE s = {}
      BY <3>1, <3>2
    <3>3. CASE s # {}
      <4>1. PICK x : x = (CHOOSE y \in s : TRUE) /\ x \in s
        BY <3>3
      <4>2. s \ {x} \in Small(n)
        BY <1>2, <3>3, <4>1
      <4>3. h[s \ {x}] = g[s \ {x}]
        BY <4>2
      <4> QED
        BY <3>1, <3>3, <4>1, <4>3
    <3> QED
      BY <3>2, <3>3
  <2> HIDE DEF h
  <2>3. Reaches(n + 1)
    BY <2>2
  <2> HIDE DEF Reaches
  <2> QED
    BY <2>3
<1> HIDE DEF Reached
<1>5. Cardinality(S) \in Reached
  BY <1>3, <1>4, NatsBySuccessor, FS_CardinalityType
<1>6. PICK g : \A s \in Small(Cardinality(S)) : g[s] = Next(g, s)
  BY <1>5 DEF Reached
<1>7. SUBSET S \subseteq Small(Cardinality(S))
  BY FS_Subset
<1> DEFINE h == [s \in SUBSET S |-> g[s]]
<1>8. ASSUME NEW s \in SUBSET S PROVE h[s] = Next(h, s)
  <2>1. h[s] = Next(g, s)
    BY <1>6, <1>7
  <2>2. s \ {CHOOSE x \in s : TRUE} \in SUBSET S
    OBVIOUS
  <2> QED
    BY <2>1, <2>2
<1>9. h = [s \in SUBSET S |-> Next(h, s)]
  <2> DEFINE k == [s \in SUBSET S |-> Next(h, s)]
  <2>1. \A s \in SUBSET S : h[s] = k[s]
    BY <1>8
  <2> QED
    BY <2>1
<1> HIDE DEF h
<1> QED
  BY <1>9 DEF Sums

LEMMA SumIsValue ==
  ASSUME NEW f, NEW S, IsFiniteSet(S)
  PROVE  \E g : Sums(g, f, S) /\ SumFunctionOnSet(f, S) = g[S]
<1> DEFINE g == CHOOSE g : Sums(g, f, S)
<1>1. Sums(g, f, S)
  BY SumsExist
<1>2. SumFunctionOnSet(f, S) = g[S]
  BY DEF SumFunctionOnSet, FoldFunctionOnSet, MapThenFoldSet, Sums
<1> QED
  BY <1>1, <1>2

\* Any element may be taken off first.
LEMMA SumsTakeAny ==
  ASSUME NEW f, NEW S, IsFiniteSet(S), \A x \in S : f[x] \in Int,
         NEW g, Sums(g, f, S)
  PROVE  /\ g[{}] = 0
         /\ \A s \in SUBSET S :
              g[s] \in Int /\ \A x \in s : g[s] = f[x] + g[s \ {x}]
<1> DEFINE Good(s) == g[s] \in Int /\ \A x \in s : g[s] = f[x] + g[s \ {x}]
           Sized == {n \in Nat : \A s \in SUBSET S : Cardinality(s) <= n => Good(s)}
<1>1. \A s \in SUBSET S : IsFiniteSet(s) /\ Cardinality(s) \in Nat
  BY FS_Subset, FS_CardinalityType
<1>2. \A s \in SUBSET S : \A x \in s :
        s \ {x} \in SUBSET S /\ Cardinality(s \ {x}) = Cardinality(s) - 1
  BY <1>1, FS_RemoveElement
<1>3. \A s \in SUBSET S :
        g[s] = IF s = {} THEN 0
               ELSE f[CHOOSE x \in s : TRUE] + g[s \ {CHOOSE x \in s : TRUE}]
  BY DEF Sums
<1>4. g[{}] = 0 /\ Good({})
  <2>1. g[{}] = 0
    BY <1>3
  <2>2. \A x \in {} : g[{}] = f[x] + g[{} \ {x}]
    OBVIOUS
  <2> QED
    BY <2>1, <2>2
<1>5. \A s \in SUBSET S : Good(s) => g[s] \in Int /\ \A x \in s : g[s] = f[x] + g[s \ {x}]
  OBVIOUS
<1>6. ASSUME NEW s \in SUBSET S, s # {},
             \A r \in SUBSET S : Cardinality(r) < Cardinality(s) => Good(r)
      PROVE  Good(s)
  <2>1. PICK y \in s : g[s] = f[y] + g[s \ {y}]
    BY ZenonT(40), <1>3, <1>6
  <2>2. \A r \in SUBSET s : r # s => r \in SUBSET S /\ Good(r)
    <3> SUFFICES ASSUME NEW r \in SUBSET s, r # s PROVE Good(r)
      OBVIOUS
    <3>1. Cardinality(r) < Cardinality(s)
      BY <1>1, FS_Subset
    <3> HIDE DEF Good
    <3> QED
      BY <1>6, <3>1
  <2>3. \A x \in s : g[s \ {x}] \in Int /\ f[x] \in Int
    <3> TAKE x \in s
    <3>1. s \ {x} \in SUBSET s /\ s \ {x} # s
      OBVIOUS
    <3> QED
      BY <2>2, <3>1
  <2>4. g[s] \in Int
    <3>1. g[s \ {y}] \in Int /\ f[y] \in Int
      BY <2>3
    <3> QED
      BY <2>1, <3>1
  <2>5. ASSUME NEW x \in s, x # y PROVE g[s] = f[x] + g[s \ {x}]
    <3> DEFINE rest == s \ {x, y}
    <3>1. /\ s \ {y} \in SUBSET s /\ s \ {y} # s /\ x \in s \ {y} /\ (s \ {y}) \ {x} = rest
          /\ s \ {x} \in SUBSET s /\ s \ {x} # s /\ y \in s \ {x} /\ (s \ {x}) \ {y} = rest
          /\ rest \in SUBSET s /\ rest # s
      BY <2>5
    <3> HIDE DEF rest
    <3>2. g[s \ {y}] = f[x] + g[rest]
      BY <2>2, <3>1
    <3>3. g[s \ {x}] = f[y] + g[rest]
      BY <2>2, <3>1
    <3>4. g[rest] \in Int
      BY <2>2, <3>1
    <3>5. f[x] \in Int /\ f[y] \in Int
      BY <2>3
    <3>6. g[s] = f[y] + (f[x] + g[rest])
      BY <2>1, <3>2
    <3> QED
      BY <3>3, <3>4, <3>5, <3>6
  <2> QED
    BY <2>1, <2>4, <2>5
<1> HIDE DEF Good
<1>7. ASSUME NEW n \in Nat, n \in Sized PROVE n + 1 \in Sized
  <2> SUFFICES ASSUME NEW s \in SUBSET S, Cardinality(s) <= n + 1 PROVE Good(s)
    OBVIOUS
  <2>1. \A r \in SUBSET S : Cardinality(r) < Cardinality(s) => Good(r)
    BY <1>1, <1>7
  <2> QED
    BY <1>4, <1>6, <2>1
<1>8. 0 \in Sized
  <2>1. \A s \in SUBSET S : Cardinality(s) <= 0 => s = {}
    BY <1>1, FS_EmptySet
  <2> QED
    BY <1>4, <2>1
<1> HIDE DEF Sized
<1>9. Nat \subseteq Sized
  BY <1>7, <1>8, NatsBySuccessor
<1>10. \A s \in SUBSET S : Good(s)
  BY <1>1, <1>9 DEF Sized
<1>11. \A s \in SUBSET S : g[s] \in Int /\ \A x \in s : g[s] = f[x] + g[s \ {x}]
  BY <1>5, <1>10
<1> QED
  BY <1>4, <1>11

LEMMA SumsTakeOne ==
  ASSUME NEW f, NEW S, IsFiniteSet(S), \A x \in S : f[x] \in Int,
         NEW g, Sums(g, f, S), NEW s \in SUBSET S, NEW z \in s
  PROVE  g[s] = f[z] + g[s \ {z}]
BY SumsTakeAny

\* A sum depends only on the values at the elements of the set.
LEMMA SumsAgree ==
  ASSUME NEW f, NEW S, IsFiniteSet(S), \A x \in S : f[x] \in Int, NEW g, Sums(g, f, S),
         NEW e, NEW T \in SUBSET S, \A x \in T : e[x] = f[x], NEW h, Sums(h, e, T)
  PROVE  h[T] = g[T]
<1>1. IsFiniteSet(T)
  BY FS_Subset
<1>2. /\ g[{}] = 0
      /\ \A s \in SUBSET S : g[s] \in Int /\ \A x \in s : g[s] = f[x] + g[s \ {x}]
  <2>1. g[{}] = 0
    BY SumsTakeAny
  <2>2. ASSUME NEW s \in SUBSET S PROVE g[s] \in Int
    BY SumsTakeAny
  <2>3. ASSUME NEW s \in SUBSET S, NEW x \in s PROVE g[s] = f[x] + g[s \ {x}]
    BY SumsTakeOne
  <2> QED
    BY <2>1, <2>2, <2>3
<1>3. /\ h[{}] = 0
      /\ \A s \in SUBSET T : h[s] \in Int /\ \A x \in s : h[s] = e[x] + h[s \ {x}]
  <2>1. \A x \in T : e[x] \in Int
    OBVIOUS
  <2> QED
    BY <1>1, <2>1, SumsTakeAny
<1> DEFINE P == {s \in SUBSET T : h[s] = g[s]}
<1>4. {} \in P
  BY <1>2, <1>3
<1>5. ASSUME NEW s \in SUBSET T, s \in P, NEW x \in T \ s PROVE s \cup {x} \in P
  <2>1. s \cup {x} \in SUBSET T /\ x \in s \cup {x} /\ (s \cup {x}) \ {x} = s
    BY <1>5
  <2>2. h[s \cup {x}] = e[x] + h[s]
    BY <1>3, <2>1
  <2>3. g[s \cup {x}] = f[x] + g[s]
    BY <1>2, <2>1
  <2>4. e[x] = f[x] /\ h[s] = g[s]
    BY <1>5
  <2> QED
    BY <2>1, <2>2, <2>3, <2>4
<1> HIDE DEF P
<1>6. SUBSET T \subseteq P
  BY <1>1, <1>4, <1>5, SetsByAddition
<1> QED
  BY <1>6 DEF P

LEMMA SumOfEmpty ==
  ASSUME NEW f
  PROVE  SumFunctionOnSet(f, {}) = 0
<1>1. PICK g : Sums(g, f, {}) /\ SumFunctionOnSet(f, {}) = g[{}]
  BY SumIsValue, FS_EmptySet
<1> QED
  BY <1>1 DEF Sums

LEMMA SumIsInt ==
  ASSUME NEW f, NEW S, IsFiniteSet(S), \A x \in S : f[x] \in Int
  PROVE  SumFunctionOnSet(f, S) \in Int
<1>1. PICK g : Sums(g, f, S) /\ SumFunctionOnSet(f, S) = g[S]
  BY SumIsValue
<1> QED
  BY <1>1, SumsTakeAny

LEMMA SumOfEqual ==
  ASSUME NEW f, NEW S, IsFiniteSet(S), \A x \in S : f[x] \in Int,
         NEW e, \A x \in S : e[x] = f[x]
  PROVE  SumFunctionOnSet(e, S) = SumFunctionOnSet(f, S)
<1>1. PICK g : Sums(g, f, S) /\ SumFunctionOnSet(f, S) = g[S]
  BY SumIsValue
<1>2. PICK h : Sums(h, e, S) /\ SumFunctionOnSet(e, S) = h[S]
  BY SumIsValue
<1>3. S \in SUBSET S
  OBVIOUS
<1> QED
  BY <1>1, <1>2, <1>3, SumsAgree

LEMMA SumWithElement ==
  ASSUME NEW f, NEW S, IsFiniteSet(S), NEW z, z \notin S,
         \A x \in S \cup {z} : f[x] \in Int
  PROVE  SumFunctionOnSet(f, S \cup {z}) = f[z] + SumFunctionOnSet(f, S)
<1> DEFINE T == S \cup {z}
<1>1. IsFiniteSet(T)
  BY FS_AddElement
<1>2. PICK g : Sums(g, f, T) /\ SumFunctionOnSet(f, T) = g[T]
  BY <1>1, SumIsValue
<1>3. PICK h : Sums(h, f, S) /\ SumFunctionOnSet(f, S) = h[S]
  BY SumIsValue
<1>4. S \in SUBSET T /\ T \in SUBSET T /\ z \in T /\ T \ {z} = S /\ \A x \in T : f[x] \in Int
  OBVIOUS
<1> HIDE DEF T
<1>5. h[S] = g[S]
  BY <1>1, <1>2, <1>3, <1>4, SumsAgree
<1>6. g[T] = f[z] + g[T \ {z}]
  BY <1>1, <1>2, <1>4, SumsTakeAny
<1> QED
  BY <1>2, <1>3, <1>4, <1>5, <1>6 DEF T

LEMMA SumOfOne ==
  ASSUME NEW f, NEW z, f[z] \in Int
  PROVE  SumFunctionOnSet(f, {z}) = f[z]
<1>1. IsFiniteSet({}) /\ {} \cup {z} = {z} /\ z \notin {}
  BY FS_EmptySet
<1>2. SumFunctionOnSet(f, {} \cup {z}) = f[z] + SumFunctionOnSet(f, {})
  BY <1>1, SumWithElement
<1> QED
  BY <1>1, <1>2, SumOfEmpty

\* A change at one element changes the sum by as much.
LEMMA SumWithChange ==
  ASSUME NEW f, NEW S, IsFiniteSet(S), \A x \in S : f[x] \in Int,
         NEW z \in S, NEW e, e[z] \in Int, \A x \in S \ {z} : e[x] = f[x]
  PROVE  SumFunctionOnSet(e, S) = SumFunctionOnSet(f, S) + e[z] - f[z]
<1> DEFINE R == S \ {z}
<1>1. IsFiniteSet(R) /\ z \notin R /\ R \cup {z} = S
  BY FS_RemoveElement
<1>2. /\ \A x \in R : f[x] \in Int /\ e[x] = f[x] /\ e[x] \in Int
      /\ \A x \in R \cup {z} : f[x] \in Int /\ e[x] \in Int
  OBVIOUS
<1> HIDE DEF R
<1>3. SumFunctionOnSet(e, R) = SumFunctionOnSet(f, R) /\ SumFunctionOnSet(f, R) \in Int
  BY <1>1, <1>2, SumOfEqual, SumIsInt
<1>4. SumFunctionOnSet(f, R \cup {z}) = f[z] + SumFunctionOnSet(f, R)
  BY <1>1, <1>2, SumWithElement
<1>5. SumFunctionOnSet(e, R \cup {z}) = e[z] + SumFunctionOnSet(e, R)
  BY <1>1, <1>2, SumWithElement
<1>6. f[z] \in Int /\ e[z] \in Int
  BY <1>1, <1>2
<1>7. /\ SumFunctionOnSet(f, S) = f[z] + SumFunctionOnSet(f, R)
      /\ SumFunctionOnSet(e, S) = e[z] + SumFunctionOnSet(f, R)
  BY <1>1, <1>3, <1>4, <1>5
<1> QED
  BY <1>3, <1>6, <1>7

\* Elements with value 0 do not count.
LEMMA SumWithZeros ==
  ASSUME NEW f, NEW S, IsFiniteSet(S), \A x \in S : f[x] \in Int,
         NEW T \in SUBSET S, \A x \in S \ T : f[x] = 0
  PROVE  SumFunctionOnSet(f, T) = SumFunctionOnSet(f, S)
<1> DEFINE Agree(s) == SumFunctionOnSet(f, s \cap T) = SumFunctionOnSet(f, s)
           P == {s \in SUBSET S : Agree(s)}
<1>1. {} \in P
  OBVIOUS
<1>2. ASSUME NEW s \in SUBSET S, s \in P, NEW z \in S \ s PROVE s \cup {z} \in P
  <2>1. IsFiniteSet(s) /\ IsFiniteSet(s \cap T) /\ z \notin s /\ z \notin s \cap T
    BY FS_Subset
  <2>2. /\ \A x \in s \cup {z} : f[x] \in Int
        /\ \A x \in (s \cap T) \cup {z} : f[x] \in Int
    OBVIOUS
  <2>3. SumFunctionOnSet(f, s \cup {z}) = f[z] + SumFunctionOnSet(f, s)
    BY <2>1, <2>2, SumWithElement
  <2>4. SumFunctionOnSet(f, (s \cap T) \cup {z}) = f[z] + SumFunctionOnSet(f, s \cap T)
    BY <2>1, <2>2, SumWithElement
  <2>5. SumFunctionOnSet(f, s) \in Int
    BY <2>1, <2>2, SumIsInt
  <2>6. Agree(s)
    BY <1>2
  <2>7. Agree(s \cup {z})
    <3>1. CASE z \in T
      <4>1. (s \cup {z}) \cap T = (s \cap T) \cup {z}
        BY <3>1
      <4> QED
        BY <2>3, <2>4, <2>6, <4>1
    <3>2. CASE z \notin T
      <4>1. (s \cup {z}) \cap T = s \cap T /\ f[z] = 0
        BY <3>2
      <4>2. SumFunctionOnSet(f, s \cup {z}) = SumFunctionOnSet(f, s)
        BY <2>3, <2>5, <4>1
      <4> QED
        BY <2>6, <4>1, <4>2
    <3> QED
      BY <3>1, <3>2
  <2> HIDE DEF Agree
  <2> QED
    BY <2>7
<1> HIDE DEF P
<1>3. SUBSET S \subseteq P
  BY <1>1, <1>2, SetsByAddition
<1>4. S \in P /\ S \cap T = T
  BY <1>3
<1> QED
  BY <1>4 DEF P

\* New elements with value 0 do not count.
LEMMA SumExtended ==
  ASSUME NEW f, NEW S, IsFiniteSet(S), \A x \in S : f[x] \in Int, NEW T \in SUBSET S,
         \A x \in S \ T : f[x] = 0, NEW e, \A x \in T : e[x] = f[x]
  PROVE  SumFunctionOnSet(e, T) = SumFunctionOnSet(f, S)
<1>1. IsFiniteSet(T) /\ \A x \in T : f[x] \in Int
  BY FS_Subset
<1>2. SumFunctionOnSet(e, T) = SumFunctionOnSet(f, T)
  BY <1>1, SumOfEqual
<1> QED
  BY <1>2, SumWithZeros

\* A sum of naturals is a natural.
LEMMA SumIsNat ==
  ASSUME NEW f, NEW S, IsFiniteSet(S), \A x \in S : f[x] \in Nat
  PROVE  SumFunctionOnSet(f, S) \in Nat
<1> DEFINE P == {s \in SUBSET S : SumFunctionOnSet(f, s) \in Nat}
<1>1. {} \in P
  BY SumOfEmpty
<1>2. ASSUME NEW s \in SUBSET S, s \in P, NEW z \in S \ s PROVE s \cup {z} \in P
  <2>1. IsFiniteSet(s) /\ z \notin s /\ \A x \in s \cup {z} : f[x] \in Int
    BY FS_Subset
  <2>2. SumFunctionOnSet(f, s \cup {z}) = f[z] + SumFunctionOnSet(f, s)
    BY <2>1, SumWithElement
  <2>3. f[z] \in Nat /\ SumFunctionOnSet(f, s) \in Nat
    BY <1>2
  <2> QED
    BY <2>2, <2>3
<1> HIDE DEF P
<1>3. SUBSET S \subseteq P
  BY <1>1, <1>2, SetsByAddition
<1>4. S \in P
  BY <1>3
<1> QED
  BY <1>4 DEF P

\* The sum of two functions is the sum of their sums.
LEMMA SumOfSums ==
  ASSUME NEW S, IsFiniteSet(S), NEW f, NEW e, NEW h,
         \A x \in S : f[x] \in Int /\ e[x] \in Int /\ h[x] = f[x] + e[x]
  PROVE  SumFunctionOnSet(h, S) = SumFunctionOnSet(f, S) + SumFunctionOnSet(e, S)
<1> DEFINE Agree(s) == SumFunctionOnSet(h, s) = SumFunctionOnSet(f, s) + SumFunctionOnSet(e, s)
           P == {s \in SUBSET S : Agree(s)}
<1>1. {} \in P
  BY SumOfEmpty
<1>2. ASSUME NEW s \in SUBSET S, s \in P, NEW z \in S \ s PROVE s \cup {z} \in P
  <2>1. IsFiniteSet(s) /\ z \notin s
    BY FS_Subset
  <2>2. \A x \in s \cup {z} : f[x] \in Int /\ e[x] \in Int /\ h[x] \in Int
    OBVIOUS
  <2>3. /\ SumFunctionOnSet(f, s \cup {z}) = f[z] + SumFunctionOnSet(f, s)
        /\ SumFunctionOnSet(e, s \cup {z}) = e[z] + SumFunctionOnSet(e, s)
        /\ SumFunctionOnSet(h, s \cup {z}) = h[z] + SumFunctionOnSet(h, s)
    BY <2>1, <2>2, SumWithElement
  <2>4. SumFunctionOnSet(f, s) \in Int /\ SumFunctionOnSet(e, s) \in Int
    BY <2>1, <2>2, SumIsInt
  <2>5. h[z] = f[z] + e[z] /\ f[z] \in Int /\ e[z] \in Int
    OBVIOUS
  <2>6. Agree(s)
    BY <1>2
  <2>7. Agree(s \cup {z})
    BY <2>3, <2>4, <2>5, <2>6
  <2> QED
    BY <2>7
<1> HIDE DEF P
<1>3. SUBSET S \subseteq P
  BY <1>1, <1>2, SetsByAddition
<1>4. S \in P
  BY <1>3
<1> QED
  BY <1>4 DEF P

\* A sum is that over a part of the set and that over the rest.
LEMMA SumOfTwoParts ==
  ASSUME NEW f, NEW S, IsFiniteSet(S), \A x \in S : f[x] \in Int, NEW T \in SUBSET S
  PROVE  SumFunctionOnSet(f, S) = SumFunctionOnSet(f, T) + SumFunctionOnSet(f, S \ T)
<1> DEFINE e == [x \in S |-> IF x \in T THEN f[x] ELSE 0]
           h == [x \in S |-> IF x \in T THEN 0 ELSE f[x]]
<1>1. \A x \in S : e[x] \in Int /\ h[x] \in Int /\ f[x] \in Int /\ f[x] = e[x] + h[x]
  OBVIOUS
<1>2. SumFunctionOnSet(f, S) = SumFunctionOnSet(e, S) + SumFunctionOnSet(h, S)
  <2> HIDE DEF e, h
  <2> QED
    BY <1>1, SumOfSums
<1>3. SumFunctionOnSet(f, T) = SumFunctionOnSet(e, S)
  <2>1. \A x \in S \ T : e[x] = 0
    OBVIOUS
  <2>2. \A x \in T : f[x] = e[x]
    OBVIOUS
  <2> HIDE DEF e
  <2> QED
    BY <1>1, <2>1, <2>2, SumExtended
<1>4. SumFunctionOnSet(f, S \ T) = SumFunctionOnSet(h, S)
  <2>1. \A x \in S \ (S \ T) : h[x] = 0
    OBVIOUS
  <2>2. \A x \in S \ T : f[x] = h[x]
    OBVIOUS
  <2>3. S \ T \in SUBSET S
    OBVIOUS
  <2> HIDE DEF h
  <2> QED
    BY <1>1, <2>1, <2>2, <2>3, SumExtended
<1> QED
  BY <1>2, <1>3, <1>4

\* A sum of naturals is at least that over a part of the set.
LEMMA SumOfPart ==
  ASSUME NEW f, NEW S, IsFiniteSet(S), \A x \in S : f[x] \in Nat, NEW T \in SUBSET S
  PROVE  SumFunctionOnSet(f, T) <= SumFunctionOnSet(f, S)
<1>1. SumFunctionOnSet(f, S) = SumFunctionOnSet(f, T) + SumFunctionOnSet(f, S \ T)
  BY SumOfTwoParts
<1>2. IsFiniteSet(T) /\ IsFiniteSet(S \ T)
  BY FS_Subset
<1>3. (\A x \in T : f[x] \in Nat) /\ (\A x \in S \ T : f[x] \in Nat)
  OBVIOUS
<1>4. SumFunctionOnSet(f, T) \in Nat /\ SumFunctionOnSet(f, S \ T) \in Nat
  BY <1>2, <1>3, SumIsNat
<1> QED
  BY <1>1, <1>4

LEMMA SumOfElement ==
  ASSUME NEW f, NEW S, IsFiniteSet(S), \A x \in S : f[x] \in Nat, NEW z \in S
  PROVE  f[z] <= SumFunctionOnSet(f, S)
<1>1. {z} \in SUBSET S /\ f[z] \in Int
  OBVIOUS
<1> QED
  BY <1>1, SumOfPart, SumOfOne

\* A sum of naturals is 0 only if each is.
LEMMA SumIsZero ==
  ASSUME NEW f, NEW S, IsFiniteSet(S), \A x \in S : f[x] \in Nat,
         SumFunctionOnSet(f, S) = 0
  PROVE  \A x \in S : f[x] = 0
<1> TAKE x \in S
<1>1. f[x] <= SumFunctionOnSet(f, S) /\ f[x] \in Nat
  BY SumOfElement
<1> QED
  BY <1>1

\* Greater values have a greater sum.
LEMMA SumMonotone ==
  ASSUME NEW f, NEW e, NEW S, IsFiniteSet(S),
         \A x \in S : f[x] \in Int /\ e[x] \in Int /\ f[x] <= e[x]
  PROVE  SumFunctionOnSet(f, S) <= SumFunctionOnSet(e, S)
<1> DEFINE h == [x \in S |-> e[x] - f[x]]
<1>1. \A x \in S : f[x] \in Int /\ h[x] \in Nat /\ h[x] \in Int /\ e[x] = f[x] + h[x]
  OBVIOUS
<1> HIDE DEF h
<1>2. SumFunctionOnSet(e, S) = SumFunctionOnSet(f, S) + SumFunctionOnSet(h, S)
  BY <1>1, SumOfSums
<1>3. SumFunctionOnSet(f, S) \in Int /\ SumFunctionOnSet(h, S) \in Nat
  BY <1>1, SumIsInt, SumIsNat
<1> QED
  BY <1>2, <1>3

\* Renaming the elements of a set of integers does not change the sum.
LEMMA SumShifted ==
  ASSUME NEW S, IsFiniteSet(S), S \subseteq Int, NEW d \in Int, NEW f, NEW e,
         \A x \in S : f[x] \in Int /\ e[d + x] = f[x]
  PROVE  SumFunctionOnSet(e, {d + x : x \in S}) = SumFunctionOnSet(f, S)
<1> DEFINE Moved(s) == {d + x : x \in s}
           P == {s \in SUBSET S : /\ IsFiniteSet(Moved(s))
                                  /\ SumFunctionOnSet(e, Moved(s)) = SumFunctionOnSet(f, s)}
<1>1. {} \in P
  <2>1. Moved({}) = {}
    OBVIOUS
  <2> HIDE DEF Moved
  <2> QED
    BY <2>1, FS_EmptySet, SumOfEmpty
<1>2. ASSUME NEW s \in SUBSET S, s \in P, NEW z \in S \ s PROVE s \cup {z} \in P
  <2>1. Moved(s \cup {z}) = Moved(s) \cup {d + z} /\ d + z \notin Moved(s)
    <3>1. Moved(s \cup {z}) = Moved(s) \cup {d + z}
      OBVIOUS
    <3>2. ASSUME NEW x \in s, d + x = d + z PROVE FALSE
      <4>1. x \in Int /\ z \in Int /\ x # z
        BY <1>2
      <4> QED
        BY <3>2, <4>1
    <3> QED
      BY <3>1, <3>2
  <2>2. \A y \in Moved(s) \cup {d + z} : e[y] \in Int
    BY <1>2
  <2> HIDE DEF Moved
  <2>3. IsFiniteSet(Moved(s)) /\ SumFunctionOnSet(e, Moved(s)) = SumFunctionOnSet(f, s)
    BY <1>2
  <2>4. SumFunctionOnSet(e, Moved(s) \cup {d + z}) = e[d + z] + SumFunctionOnSet(e, Moved(s))
    BY <2>1, <2>2, <2>3, SumWithElement
  <2>5. SumFunctionOnSet(f, s \cup {z}) = f[z] + SumFunctionOnSet(f, s)
    <3>1. IsFiniteSet(s) /\ z \notin s /\ \A x \in s \cup {z} : f[x] \in Int
      BY FS_Subset
    <3> QED
      BY <3>1, SumWithElement
  <2>6. e[d + z] = f[z]
    OBVIOUS
  <2>7. IsFiniteSet(Moved(s) \cup {d + z})
    BY <2>3, FS_AddElement
  <2> QED
    BY <2>1, <2>3, <2>4, <2>5, <2>6, <2>7
<1> HIDE DEF P
<1>3. S \in P
  BY <1>1, <1>2, SetsByAddition
<1> QED
  BY <1>3 DEF P

\* A sum is the sum of the sums over the parts of the set.
LEMMA SumOfParts ==
  ASSUME NEW f, NEW S, IsFiniteSet(S), \A x \in S : f[x] \in Int,
         NEW I, IsFiniteSet(I), NEW p, \A x \in S : p[x] \in I
  PROVE  SumFunctionOnSet([i \in I |-> SumFunctionOnSet(f, {x \in S : p[x] = i})], I)
           = SumFunctionOnSet(f, S)
<1> DEFINE Part(s, i) == {x \in s : p[x] = i}
           Sum(s) == [i \in I |-> SumFunctionOnSet(f, Part(s, i))]
           P == {s \in SUBSET S : SumFunctionOnSet(Sum(s), I) = SumFunctionOnSet(f, s)}
<1>1. {} \in P
  <2>1. \A i \in I : Sum({})[i] = 0
    <3>1. \A i : Part({}, i) = {}
      OBVIOUS
    <3> HIDE DEF Part
    <3> QED
      BY <3>1, SumOfEmpty
  <2> DEFINE g == Sum({})
  <2> HIDE DEF Sum
  <2>2. {} \in SUBSET I /\ \A i \in I \ {} : g[i] = 0
    BY <2>1
  <2>3. \A i \in I : g[i] \in Int
    BY <2>1
  <2>4. SumFunctionOnSet(g, {}) = SumFunctionOnSet(g, I)
    <3> HIDE DEF g
    <3> QED
      BY <2>2, <2>3, SumWithZeros
  <2> QED
    BY <2>4, SumOfEmpty
<1>2. ASSUME NEW s \in SUBSET S, s \in P, NEW z \in S \ s PROVE s \cup {z} \in P
  <2> DEFINE t == s \cup {z}
  <2>1. /\ Part(t, p[z]) = Part(s, p[z]) \cup {z} /\ z \notin Part(s, p[z])
        /\ \A i \in I \ {p[z]} : Part(t, i) = Part(s, i)
    OBVIOUS
  <2>2. \A i \in I : IsFiniteSet(Part(s, i)) /\ \A x \in Part(s, i) : f[x] \in Int
    BY FS_Subset
  <2>3. \A x \in Part(s, p[z]) \cup {z} : f[x] \in Int
    OBVIOUS
  <2>4. p[z] \in I /\ f[z] \in Int /\ t \in SUBSET S
    OBVIOUS
  <2> HIDE DEF Part, t
  <2>5. SumFunctionOnSet(f, Part(t, p[z])) = f[z] + SumFunctionOnSet(f, Part(s, p[z]))
    BY <2>1, <2>2, <2>3, <2>4, SumWithElement
  <2>6. \A i \in I : Sum(s)[i] \in Int
    BY <2>2, SumIsInt
  <2>7. Sum(t)[p[z]] = f[z] + Sum(s)[p[z]] /\ \A i \in I \ {p[z]} : Sum(t)[i] = Sum(s)[i]
    BY <2>1, <2>4, <2>5
  <2> DEFINE g == Sum(s)
             h == Sum(t)
  <2> HIDE DEF Sum
  <2>8. h[p[z]] \in Int /\ g[p[z]] \in Int
    BY <2>4, <2>6, <2>7
  <2>9. SumFunctionOnSet(h, I) = SumFunctionOnSet(g, I) + h[p[z]] - g[p[z]]
    <3>1. (\A i \in I : g[i] \in Int) /\ (\A i \in I \ {p[z]} : h[i] = g[i])
      BY <2>6, <2>7
    <3> HIDE DEF g, h
    <3> QED
      BY <2>4, <2>8, <3>1, SumWithChange
  <2>10. SumFunctionOnSet(g, I) = SumFunctionOnSet(f, s)
    BY <1>2
  <2>11. SumFunctionOnSet(f, t) = f[z] + SumFunctionOnSet(f, s)
    <3>1. IsFiniteSet(s) /\ z \notin s /\ \A x \in s \cup {z} : f[x] \in Int
      BY FS_Subset
    <3> QED
      BY <3>1, SumWithElement DEF t
  <2>12. SumFunctionOnSet(f, s) \in Int
    <3>1. IsFiniteSet(s) /\ \A x \in s : f[x] \in Int
      BY FS_Subset
    <3> QED
      BY <3>1, SumIsInt
  <2>13. SumFunctionOnSet(h, I) = SumFunctionOnSet(f, t)
    <3>1. h[p[z]] = f[z] + g[p[z]]
      BY <2>7
    <3> HIDE DEF g, h
    <3> QED
      BY <2>4, <2>8, <2>9, <2>10, <2>11, <2>12, <3>1
  <2> QED
    BY <2>4, <2>13 DEF t
<1> HIDE DEF P
<1>3. S \in P
  BY <1>1, <1>2, SetsByAddition
<1> QED
  BY <1>3 DEF P

LEMMA FiniteImage ==
  ASSUME NEW f, NEW S, IsFiniteSet(S)
  PROVE  IsFiniteSet({f[x] : x \in S})
<1> DEFINE Image(s) == {f[x] : x \in s}
           P == {s \in SUBSET S : IsFiniteSet(Image(s))}
<1>1. {} \in P
  <2>1. Image({}) = {}
    OBVIOUS
  <2> QED
    BY <2>1, FS_EmptySet
<1>2. ASSUME NEW s \in SUBSET S, s \in P, NEW x \in S \ s PROVE s \cup {x} \in P
  <2>1. Image(s \cup {x}) = Image(s) \cup {f[x]}
    OBVIOUS
  <2>2. IsFiniteSet(Image(s))
    BY <1>2
  <2> HIDE DEF Image
  <2>3. IsFiniteSet(Image(s) \cup {f[x]})
    BY <2>2, FS_AddElement
  <2> QED
    BY <2>1, <2>3
<1> HIDE DEF P
<1>3. S \in P
  BY <1>1, <1>2, SetsByAddition
<1> QED
  BY <1>3 DEF P

-------------------------------------------------------------------------------
\* Flattening

\* The function by which FlattenSeq is defined.
Flattens(g, ss) ==
  g = [i \in 1..Len(ss) |-> IF i = 1 THEN ss[i] ELSE g[i - 1] \o ss[i]]

\* There is one.
LEMMA FlattenExists ==
  ASSUME NEW T, NEW ss \in Seq(Seq(T))
  PROVE  \E g : Flattens(g, ss)
<1> DEFINE Reaches(n) == \E g : g = [i \in 1..n |-> IF i = 1 THEN ss[i]
                                                   ELSE g[i - 1] \o ss[i]]
           Covered == {n \in Nat : n <= Len(ss) => Reaches(n)}
<1>1. 0 \in Covered
  <2>1. LET g == [i \in {} |-> <<>>]
        IN g = [i \in 1..0 |-> IF i = 1 THEN ss[i] ELSE g[i - 1] \o ss[i]]
    OBVIOUS
  <2>2. Reaches(0)
    BY <2>1
  <2> HIDE DEF Reaches
  <2> QED
    BY <2>2
<1>2. ASSUME NEW n \in Nat, n \in Covered PROVE n + 1 \in Covered
  <2> SUFFICES ASSUME n + 1 <= Len(ss) PROVE Reaches(n + 1)
    <3> HIDE DEF Reaches
    <3> QED
      OBVIOUS
  <2>1. Reaches(n)
    <3> HIDE DEF Reaches
    <3> QED
      BY <1>2, EmptySeq, LenProperties
  <2>2. PICK g : g = [i \in 1..n |-> IF i = 1 THEN ss[i] ELSE g[i - 1] \o ss[i]]
    BY <2>1
  <2> DEFINE h == [i \in 1..(n + 1) |->
                     IF i <= n THEN g[i]
                     ELSE IF i = 1 THEN ss[i] ELSE g[i - 1] \o ss[i]]
  <2>3. \A i \in 1..(n + 1) : h[i] = IF i = 1 THEN ss[i] ELSE h[i - 1] \o ss[i]
    <3> TAKE i \in 1..(n + 1)
    <3>1. CASE i <= n
      <4>1. i \in 1..n /\ h[i] = g[i]
        BY <3>1
      <4>2. g[i] = IF i = 1 THEN ss[i] ELSE g[i - 1] \o ss[i]
        BY <2>2, <4>1
      <4>3. i # 1 => h[i - 1] = g[i - 1]
        BY <3>1
      <4> QED
        BY <4>1, <4>2, <4>3
    <3>2. CASE i = n + 1
      BY <3>2
    <3> QED
      BY <3>1, <3>2
  <2>4. h = [i \in 1..(n + 1) |-> IF i = 1 THEN ss[i] ELSE h[i - 1] \o ss[i]]
    <3> DEFINE k == [i \in 1..(n + 1) |-> IF i = 1 THEN ss[i] ELSE h[i - 1] \o ss[i]]
    <3>1. \A i \in 1..(n + 1) : h[i] = k[i]
      BY <2>3
    <3> QED
      BY <3>1
  <2> HIDE DEF h
  <2> QED
    BY <2>4
<1> HIDE DEF Covered
<1>3. Nat \subseteq Covered
  BY <1>1, <1>2, NatsBySuccessor
<1>4. Len(ss) \in Covered
  BY <1>3
<1>5. Reaches(Len(ss))
  <2> HIDE DEF Reaches
  <2> QED
    BY <1>4 DEF Covered
<1> QED
  BY <1>5 DEF Flattens

\* FlattenSeq is its last value.
LEMMA FlattenIsLast ==
  ASSUME NEW T, NEW ss \in Seq(Seq(T)), ss # <<>>
  PROVE  \E g : Flattens(g, ss) /\ FlattenSeq(ss) = g[Len(ss)]
<1> DEFINE g == CHOOSE g : Flattens(g, ss)
<1>1. Flattens(g, ss)
  BY FlattenExists
<1>2. Len(ss) # 0
  BY EmptySeq
<1>3. FlattenSeq(ss) = g[Len(ss)]
  BY <1>2 DEF FlattenSeq, Flattens
<1> QED
  BY <1>1, <1>3

LEMMA FlattenAgree ==
  ASSUME NEW T, NEW ss \in Seq(Seq(T)), NEW s \in Seq(T),
         NEW g, Flattens(g, ss), NEW h, Flattens(h, Append(ss, s))
  PROVE  \A i \in 1..Len(ss) : h[i] = g[i]
<1> DEFINE Differ == {i \in 1..Len(ss) : h[i] # g[i]}
<1> SUFFICES ASSUME Differ # {} PROVE FALSE
  OBVIOUS
<1>1. Differ \subseteq Nat
  OBVIOUS
<1>2. PICK i \in Differ : \A j \in Differ : i <= j
  <2> HIDE DEF Differ
  <2> QED
    BY <1>1, NatHasLeast
<1>3. Len(Append(ss, s)) = Len(ss) + 1 /\ Append(ss, s)[i] = ss[i]
  BY AppendProperties
<1>4. g[i] = IF i = 1 THEN ss[i] ELSE g[i - 1] \o ss[i]
  BY DEF Flattens
<1>5. h[i] = IF i = 1 THEN ss[i] ELSE h[i - 1] \o ss[i]
  <2>1. i \in 1..Len(Append(ss, s))
    BY <1>3
  <2>2. h[i] = IF i = 1 THEN Append(ss, s)[i] ELSE h[i - 1] \o Append(ss, s)[i]
    BY <2>1 DEF Flattens
  <2> QED
    BY <1>3, <2>2
<1>6. CASE i = 1
  BY <1>4, <1>5, <1>6
<1>7. CASE i # 1
  <2>1. i - 1 \in 1..Len(ss) /\ ~(i <= i - 1)
    BY <1>7
  <2>2. h[i - 1] = g[i - 1]
    BY <1>2, <2>1
  <2> QED
    BY <1>4, <1>5, <1>7, <2>2
<1> QED
  BY <1>6, <1>7

\* Appending to the sequence appends to what it flattens to.
LEMMA FlattenAppend ==
  ASSUME NEW T, NEW ss \in Seq(Seq(T)), NEW s \in Seq(T)
  PROVE  FlattenSeq(Append(ss, s)) = FlattenSeq(ss) \o s
<1> DEFINE tt == Append(ss, s)
           n == Len(ss)
<1>1. /\ tt \in Seq(Seq(T)) /\ tt # <<>> /\ Len(tt) = n + 1 /\ n \in Nat
      /\ tt[n + 1] = s
  BY AppendProperties
<1> HIDE DEF tt
<1>2. PICK h : Flattens(h, tt) /\ FlattenSeq(tt) = h[n + 1]
  BY <1>1, FlattenIsLast
<1>3. h[n + 1] = IF n + 1 = 1 THEN s ELSE h[n] \o s
  <2>1. n + 1 \in 1..Len(tt) /\ (n + 1) - 1 = n
    BY <1>1
  <2>2. h[n + 1] = IF n + 1 = 1 THEN tt[n + 1] ELSE h[(n + 1) - 1] \o tt[n + 1]
    BY <1>2, <2>1 DEF Flattens
  <2> QED
    BY <1>1, <2>1, <2>2
<1>4. CASE ss = <<>>
  <2>1. n = 0 /\ FlattenSeq(ss) = <<>>
    BY <1>4 DEF FlattenSeq
  <2> QED
    BY <1>2, <1>3, <2>1, ConcatEmptySeq DEF tt
<1>5. CASE ss # <<>>
  <2>1. PICK g : Flattens(g, ss) /\ FlattenSeq(ss) = g[n]
    BY <1>5, FlattenIsLast
  <2>2. n \in 1..n
    BY <1>5, EmptySeq
  <2>3. h[n] = g[n]
    BY <1>2, <2>1, <2>2, FlattenAgree DEF tt
  <2> QED
    BY <1>2, <1>3, <2>1, <2>2, <2>3 DEF tt
<1> QED
  BY <1>4, <1>5

\* What a sequence of sequences flattens to is a sequence.
LEMMA FlattenType ==
  ASSUME NEW T, NEW ss \in Seq(Seq(T))
  PROVE  FlattenSeq(ss) \in Seq(T)
<1>1. CASE ss = <<>>
  BY <1>1, EmptySeq DEF FlattenSeq
<1>2. CASE ss # <<>>
  <2>1. PICK g : Flattens(g, ss) /\ FlattenSeq(ss) = g[Len(ss)]
    BY <1>2, FlattenIsLast
  <2> DEFINE Wrong == {i \in 1..Len(ss) : g[i] \notin Seq(T)}
  <2>2. Wrong = {}
    <3> SUFFICES ASSUME Wrong # {} PROVE FALSE
      OBVIOUS
    <3>1. Wrong \subseteq Nat
      OBVIOUS
    <3>2. PICK i \in Wrong : \A j \in Wrong : i <= j
      <4> HIDE DEF Wrong
      <4> QED
        BY <3>1, NatHasLeast
    <3>3. g[i] = (IF i = 1 THEN ss[i] ELSE g[i - 1] \o ss[i]) /\ ss[i] \in Seq(T)
      BY <2>1, ElementOfSeq DEF Flattens
    <3>4. CASE i = 1
      BY <3>3, <3>4
    <3>5. CASE i # 1
      <4>1. i - 1 \in 1..Len(ss) /\ ~(i <= i - 1)
        BY <3>5
      <4>2. g[i - 1] \in Seq(T)
        BY <3>2, <4>1
      <4> QED
        BY <3>3, <3>5, <4>2, ConcatProperties
    <3> QED
      BY <3>4, <3>5
  <2>3. Len(ss) \in 1..Len(ss)
    BY <1>2, EmptySeq
  <2> QED
    BY <2>1, <2>2, <2>3
<1> QED
  BY <1>1, <1>2

\* It is as long as its parts together.
LEMMA FlattenLength ==
  ASSUME NEW T, NEW ss \in Seq(Seq(T)), NEW f, \A i \in 1..Len(ss) : f[i] = Len(ss[i])
  PROVE  Len(FlattenSeq(ss)) = SumFunctionOnSet(f, 1..Len(ss))
<1> DEFINE m == Len(ss)
           Upto(n) == SumFunctionOnSet(f, 1..n)
<1>1. m \in Nat /\ \A i \in 1..m : ss[i] \in Seq(T) /\ f[i] \in Nat
  BY LenProperties, ElementOfSeq
<1>2. ASSUME NEW n \in Nat, n < m PROVE Upto(n + 1) = f[n + 1] + Upto(n)
  <2>1. /\ 1..(n + 1) = (1..n) \cup {n + 1} /\ n + 1 \notin 1..n
        /\ IsFiniteSet(1..n) /\ \A i \in (1..n) \cup {n + 1} : f[i] \in Int
    <3>1. 1..(n + 1) = (1..n) \cup {n + 1} /\ n + 1 \notin 1..n
      OBVIOUS
    <3>2. IsFiniteSet(1..n)
      BY FS_Interval
    <3>3. \A i \in (1..n) \cup {n + 1} : f[i] \in Int
      <4> TAKE i \in (1..n) \cup {n + 1}
      <4>1. i \in 1..m
        BY <1>1, <1>2
      <4> QED
        BY <1>1, <4>1
    <3> QED
      BY <3>1, <3>2, <3>3
  <2> QED
    BY <2>1, SumWithElement
<1>3. Upto(0) = 0
  <2>1. 1..0 = {}
    OBVIOUS
  <2> QED
    BY <2>1, SumOfEmpty
<1>4. CASE ss = <<>>
  <2>1. FlattenSeq(ss) = <<>> /\ m = 0
    BY <1>4 DEF FlattenSeq
  <2> QED
    BY <1>3, <2>1
<1>5. CASE ss # <<>>
  <2>1. PICK g : Flattens(g, ss) /\ FlattenSeq(ss) = g[m]
    BY <1>5, FlattenIsLast
  <2> DEFINE Fits(n) == g[n] \in Seq(T) /\ Len(g[n]) = Upto(n)
             Fitting == {n \in Nat : n >= 1 /\ n <= m => Fits(n)}
  <2>2. ASSUME NEW n \in Nat, n \in Fitting, n + 1 <= m PROVE Fits(n + 1)
    <3>1. g[n + 1] = (IF n = 0 THEN ss[n + 1] ELSE g[n] \o ss[n + 1])
      <4>1. n + 1 \in 1..m /\ (n + 1 = 1 <=> n = 0) /\ (n + 1) - 1 = n
        BY <1>1, <2>2
      <4>2. g[n + 1] = (IF n + 1 = 1 THEN ss[n + 1] ELSE g[(n + 1) - 1] \o ss[n + 1])
        BY <2>1, <4>1 DEF Flattens
      <4> QED
        BY <4>1, <4>2
    <3>2. ss[n + 1] \in Seq(T) /\ Len(ss[n + 1]) = f[n + 1] /\ f[n + 1] \in Nat
      BY <1>1, <2>2
    <3>3. Upto(n + 1) = f[n + 1] + Upto(n)
      BY <1>1, <1>2, <2>2
    <3>4. CASE n = 0
      BY <1>3, <3>1, <3>2, <3>3, <3>4
    <3>5. CASE n # 0
      <4>1. Fits(n)
        BY <1>1, <2>2, <3>5
      <4>2. /\ g[n] \o ss[n + 1] \in Seq(T)
            /\ Len(g[n] \o ss[n + 1]) = Len(g[n]) + Len(ss[n + 1])
        BY <3>2, <4>1, ConcatProperties
      <4>3. Len(g[n]) \in Nat
        BY <4>1, LenProperties
      <4>4. g[n + 1] = g[n] \o ss[n + 1]
        BY <3>1, <3>5
      <4>5. Len(g[n]) = Upto(n)
        BY <4>1
      <4>6. Len(g[n + 1]) = Upto(n + 1)
        <5>1. Len(g[n + 1]) = Len(g[n]) + Len(ss[n + 1])
          BY <4>2, <4>4
        <5>2. Upto(n + 1) = Len(ss[n + 1]) + Len(g[n])
          BY <3>2, <3>3, <4>5
        <5>3. Len(ss[n + 1]) \in Nat
          BY <3>2, LenProperties
        <5>4. \A i, j \in Nat : i + j = j + i
          OBVIOUS
        <5> HIDE DEF Upto
        <5> QED
          BY ONLY <4>3, <5>1, <5>2, <5>3, <5>4, Zenon
      <4> QED
        BY <4>2, <4>4, <4>6
    <3> QED
      BY <3>4, <3>5
  <2> HIDE DEF Fits
  <2>3. 0 \in Fitting /\ \A n \in Nat : n \in Fitting => n + 1 \in Fitting
    BY <2>2
  <2> HIDE DEF Fitting
  <2>4. m \in Fitting
    BY <1>1, <2>3, NatsBySuccessor
  <2>5. m >= 1
    BY <1>1, <1>5, EmptySeq
  <2>6. Fits(m)
    BY <1>1, <2>4, <2>5 DEF Fitting
  <2> QED
    BY <2>1, <2>6 DEF Fits
<1> QED
  BY <1>4, <1>5

LEMMA ConcatOfAppend ==
  ASSUME NEW T, NEW s \in Seq(T), NEW t \in Seq(T), NEW x \in T
  PROVE  s \o Append(t, x) = Append(s \o t, x)
<1>1. <<x>> \in Seq(T) /\ s \o t \in Seq(T)
  BY ConcatProperties
<1>2. Append(t, x) = t \o <<x>> /\ Append(s \o t, x) = (s \o t) \o <<x>>
  BY <1>1, AppendIsConcat
<1>3. (s \o t) \o <<x>> = s \o (t \o <<x>>)
  BY <1>1, ConcatAssociative
<1> QED
  BY <1>2, <1>3

\* The elements of a sequence, of one more and of a part of it.
LEMMA ToSetFacts ==
  ASSUME NEW T, NEW q \in Seq(T)
  PROVE  /\ ToSet(q) = {q[i] : i \in 1..Len(q)}
         /\ ToSet(q) \subseteq T
         /\ \A x \in T : ToSet(Append(q, x)) = ToSet(q) \cup {x}
         /\ \A m, n \in Nat : m >= 1 /\ n <= Len(q) =>
              /\ ToSet(SubSeq(q, m, n)) \subseteq ToSet(q)
              /\ \A x \in T : SubSeq(Append(q, x), m, n) = SubSeq(q, m, n)
<1>1. DOMAIN q = 1..Len(q) /\ Len(q) \in Nat
  BY LenProperties
<1>2. ToSet(q) = {q[i] : i \in 1..Len(q)}
  BY <1>1 DEF ToSet
<1>3. ToSet(q) \subseteq T
  BY <1>2, ElementOfSeq
<1>4. ASSUME NEW x \in T PROVE ToSet(Append(q, x)) = ToSet(q) \cup {x}
  <2>1. /\ Append(q, x) \in Seq(T) /\ Len(Append(q, x)) = Len(q) + 1
        /\ \A i \in 1..Len(q) : Append(q, x)[i] = q[i]
        /\ Append(q, x)[Len(q) + 1] = x
    BY AppendProperties
  <2>2. DOMAIN Append(q, x) = 1..Len(q) + 1
    BY <2>1, LenProperties
  <2> QED
    BY <1>1, <1>2, <2>1, <2>2 DEF ToSet
<1>5. ASSUME NEW m \in Nat, NEW n \in Nat, m >= 1, n <= Len(q)
      PROVE  ToSet(SubSeq(q, m, n)) \subseteq ToSet(q)
  <2>1. \A i \in m..n : q[i] \in ToSet(q)
    BY <1>1, <1>2, <1>5
  <2>2. SubSeq(q, m, n) \in Seq(ToSet(q))
    BY <1>5, <2>1, SubSeqProperties
  <2>3. \A i \in DOMAIN SubSeq(q, m, n) : SubSeq(q, m, n)[i] \in ToSet(q)
    BY <2>2
  <2> QED
    BY <2>3 DEF ToSet
<1>6. ASSUME NEW m \in Nat, NEW n \in Nat, m >= 1, n <= Len(q), NEW x \in T
      PROVE  SubSeq(Append(q, x), m, n) = SubSeq(q, m, n)
  <2> DEFINE a == Append(q, x)
  <2>1. \A i \in 1..Len(q) : Append(q, x)[i] = q[i]
    BY AppendProperties
  <2>2. \A i \in m..n : Append(q, x)[i] = q[i] /\ q[i] \in T /\ Append(q, x)[i] \in T
    BY <1>1, <1>5, <1>6, <2>1, ElementOfSeq
  <2>3. /\ SubSeq(q, m, n) \in Seq(T)
        /\ Len(SubSeq(q, m, n)) = IF m <= n THEN n - m + 1 ELSE 0
        /\ \A i \in 1..n - m + 1 : SubSeq(q, m, n)[i] = q[m + i - 1]
    BY <2>2, SubSeqProperties
  <2>4. /\ SubSeq(a, m, n) \in Seq(T)
        /\ Len(SubSeq(a, m, n)) = IF m <= n THEN n - m + 1 ELSE 0
        /\ \A i \in 1..n - m + 1 : SubSeq(a, m, n)[i] = a[m + i - 1]
    <3>1. \A i \in m..n : a[i] \in T
      BY <2>2
    <3>2. a \in Seq(T)
      BY AppendProperties
    <3> HIDE DEF a
    <3> QED
      BY <3>1, <3>2, SubSeqProperties
  <2>5. \A i \in 1..n - m + 1 : m + i - 1 \in m..n
    BY <1>6
  <2>6. \A i \in 1..n - m + 1 : SubSeq(Append(q, x), m, n)[i] = SubSeq(q, m, n)[i]
    BY <2>2, <2>3, <2>4, <2>5
  <2>7. \A i \in 1..Len(SubSeq(q, m, n)) : i \in 1..n - m + 1
    BY <1>6, <2>3
  <2> QED
    BY <2>3, <2>4, <2>6, <2>7, SeqEqual
<1> QED
  BY <1>2, <1>3, <1>4, <1>5, <1>6
================================================================================
