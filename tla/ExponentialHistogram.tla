------------------------- MODULE ExponentialHistogram -------------------------
(***************************************************************************)
(* The exponential histogram of sdk-metrics: accumulations that take       *)
(* values, are merged and are diffed (aggregator/ExponentialHistogram.ts), *)
(* and the ring of bucket counts they are made of                          *)
(* (aggregator/exponential-histogram/Buckets.ts).                          *)
(*                                                                         *)
(* The bucket of a value at scale s is the bucket at the next larger scale *)
(* shifted right by one, so a value stands here for its bucket at the      *)
(* largest scale: [side, index], or Zero.  Sum, minimum, maximum and       *)
(* start time, which no bucket depends on, are left out.  At scales of 0   *)
(* and less the code computes the bucket from the exponent of the value    *)
(* (ExponentMapping), not from its logarithm: where rounding makes the two *)
(* disagree next to a power of two, the index here is the shifted one.     *)
(***************************************************************************)
EXTENDS Integers, FiniteSets, FiniteSetsExt

CONSTANTS
  Accumulations,  \* the histograms there are
  Positives,      \* indexes, at the largest scale, of the positive values
  Negatives,      \* the same for the absolute values of the negative ones
  MaxSize,        \* _maxSize: buckets on either side
  MaxScale,       \* MAX_SCALE, 20 in the program
  MaxCount        \* bound on the values in one histogram

Pow2[n \in Nat] == IF n = 0 THEN 1 ELSE 2 * Pow2[n - 1]

\* x >> n: JavaScript takes the last five bits of n.
Shr(x, n) == x \div Pow2[n % 32]

\* An index has 30 bits and a sign, and there are only so many.
ASSUME HistogramAssumption ==
  /\ IsFiniteSet(Positives) /\ IsFiniteSet(Negatives)
  /\ \A index \in Positives \cup Negatives : index \in Int /\ Shr(index, 30) \in {-1, 0}
  /\ MaxSize \in Nat /\ MaxSize >= 2
  /\ MaxScale \in 0 .. 30

VARIABLES
  hist,      \* the histograms
  recorded,  \* the values each has taken: a history variable
  left       \* what the last diff left of each: a history variable

vars == <<hist, recorded, left>>

\* A difference keeps values other than zeros, has only zeros left or nothing,
\* or is one of measurements of which the earlier is no part of the later.
Left == {"values", "zeros", "unrelated"}

Zero == [side |-> "zero", index |-> 0]
Values == {Zero} \cup [side : {"positive"}, index : Positives]
                 \cup [side : {"negative"}, index : Negatives]
Sides == {"positive", "negative"}

-------------------------------------------------------------------------------
(* Buckets.  backing[i - base] counts the values with index i; the indexes     *)
(* below base are at the end of the ring.                                      *)

NewBuckets == [base |-> 0, start |-> 0, end |-> 0, backing |-> [i \in {0} |-> 0]]

Capacity(b) == Cardinality(DOMAIN b.backing)
Bias(b) == b.base - b.start

\* at(position)
At(b, position) ==
  b.backing[(IF position < Bias(b) THEN position + Capacity(b) ELSE position)
              - Bias(b)]

Length(b) ==
  IF b.end = b.start /\ At(b, 0) = 0 THEN 0 ELSE b.end - b.start + 1

Positions(b) == 0 .. Length(b) - 1

\* _counts in the range [from, limit) turned round.
ReverseRange(counts, from, limit) ==
  [i \in DOMAIN counts |->
    IF i \in from .. limit - 1 THEN counts[from + limit - 1 - i] ELSE counts[i]]

\* Mutant: a ring whose lowest index is at its end is not turned.
RotateNegativeOnly(b) ==
  LET n == Capacity(b)
      turned == ReverseRange(b.backing, 0, n)
  IN IF Bias(b) >= 0 THEN [b EXCEPT !.base = b.start]
     ELSE [b EXCEPT !.base = b.start, !.backing = ReverseRange(turned, 0, n + Bias(b))]

\* Afterwards the lowest index is at the start of the ring.
Rotate(b) ==
  LET n == Capacity(b)
      turned == ReverseRange(b.backing, 0, n)
      backing == IF Bias(b) > 0
                 THEN ReverseRange(ReverseRange(turned, 0, Bias(b)), Bias(b), n)
                 ELSE ReverseRange(turned, 0, n + Bias(b))
  IN IF Bias(b) = 0 THEN b ELSE [b EXCEPT !.base = b.start, !.backing = backing]

\* downscale(by): the buckets that fall together are added up.
DownscaleBuckets(b, by) ==
  LET ring == Rotate(b).backing
      size == b.end - b.start + 1
      start == Shr(b.start, by)
      From(j) == {i \in 0 .. size - 1 : Shr(b.start + i, by) - start = j}
  IN [base |-> start, start |-> start, end |-> Shr(b.end, by),
      backing |-> [j \in DOMAIN ring |->
        IF j < size THEN SumFunctionOnSet(ring, From(j)) ELSE ring[j]]]

\* nextGreaterSquare(v): the least power of two that is not less.
PowerOfTwo(v) == Min({Pow2[i] : i \in {i \in 0 .. v : Pow2[i] >= v}})

\* _grow(): the ring is cut open between its last and its first index.
Grow(b, needed) ==
  LET newSize == Min({PowerOfTwo(needed), MaxSize})
      oldLimit == Capacity(b) - Bias(b)
      newLimit == newSize - Bias(b)
  IN [b EXCEPT !.backing = [i \in 0 .. newSize - 1 |->
        IF i < oldLimit THEN b.backing[i]
        ELSE IF i >= newLimit THEN b.backing[i - newLimit + oldLimit] ELSE 0]]

GrowTo(b, span) == IF span >= Capacity(b) THEN Grow(b, span + 1) ELSE b

\* The buckets made to reach to index.
Reaching(b, index) ==
  CASE Length(b) = 0 ->
         [b EXCEPT !.base = index, !.start = index, !.end = index]
    [] Length(b) # 0 /\ index < b.start ->
         [GrowTo(b, b.end - index) EXCEPT !.start = index]
    [] Length(b) # 0 /\ index > b.end ->
         [GrowTo(b, index - b.start) EXCEPT !.end = index]
    [] OTHER -> b

\* Where the ring keeps index.
Slot(b, index) ==
  IF index < b.base THEN index - b.base + Capacity(b) ELSE index - b.base

\* _incrementIndexBy()
IncrementIndexBy(b, index, increment) ==
  LET wide == Reaching(b, index)
  IN IF increment = 0 THEN b
     ELSE [wide EXCEPT !.backing[Slot(wide, index)] = @ + increment]

\* decrementBucket(): a count is not taken below zero; what is not in the ring
\* is put there as a zero.
Decrement(b, index, decrement) ==
  LET slot == Slot(b, index)
      n == Capacity(b)
  IN IF slot \in DOMAIN b.backing
     THEN [b EXCEPT !.backing[slot] = IF @ >= decrement THEN @ - decrement ELSE 0]
     ELSE [b EXCEPT !.backing = [i \in 0 .. Max({slot, n - 1}) |->
             IF i < n THEN b.backing[i] ELSE 0]]

\* trim(): the zeros at both ends are cut off.
Trim(b) ==
  LET used == {i \in Positions(b) : At(b, i) # 0}
  IN IF Length(b) = 0 THEN Rotate(b)
     ELSE IF used = {} THEN [b EXCEPT !.base = 0, !.start = 0, !.end = 0]
     ELSE Rotate([b EXCEPT !.start = b.start + Min(used),
                           !.end = b.start + Max(used)])

-------------------------------------------------------------------------------
(* ExponentialHistogramAccumulation.                                           *)

NewHistogram == [count |-> 0, zeroCount |-> 0, scale |-> MaxScale,
                 positive |-> NewBuckets, negative |-> NewBuckets]

\* get scale()
Scale(h) == IF h.count = h.zeroCount THEN 0 ELSE h.scale

\* How often high and low are halved to fit; indexes have at most 30 bits.
Halvings(high, low) ==
  LET Fits(n) == Shr(high, n) - Shr(low, n) < MaxSize
  IN CHOOSE n \in 0 .. 30 : Fits(n) /\ \A m \in 0 .. n - 1 : ~Fits(m)

\* Mutant: they are halved until there is room to spare.
ChangeScaleToSpare(high, low) ==
  LET n == Halvings(high, low)
  IN IF n > 0 /\ Shr(high, n) - Shr(low, n) = MaxSize - 1 THEN n + 1 ELSE n

\* _changeScale()
ChangeScale(high, low) == Halvings(high, low)

\* _downscale()
Downscale(h, change) ==
  IF change = 0 THEN h
  ELSE [h EXCEPT !.scale = @ - change,
                 !.positive = DownscaleBuckets(@, change),
                 !.negative = DownscaleBuckets(@, change)]

Buckets(h, side) == IF side = "negative" THEN h.negative ELSE h.positive
WithBuckets(h, side, b) ==
  IF side = "negative" THEN [h EXCEPT !.negative = b] ELSE [h EXCEPT !.positive = b]

\* mapToIndex()
MapToIndex(h, v) == Shr(v.index, MaxScale - h.scale)

\* What the scale has to change for the buckets to take index; _changeScale()
\* finds 0 when they reach there already.
Change(b, index) ==
  IF Length(b) = 0 THEN 0
  ELSE ChangeScale(Max({b.end, index}), Min({b.start, index}))

\* _updateBuckets()
UpdateBuckets(h, v) ==
  LET side == v.side
      scaled == Downscale(h, Change(Buckets(h, side), MapToIndex(h, v)))
  IN WithBuckets(scaled, side,
       IncrementIndexBy(Buckets(scaled, side), MapToIndex(scaled, v), 1))

\* record()
Record(h, v) ==
  IF v = Zero THEN [h EXCEPT !.count = @ + 1, !.zeroCount = @ + 1]
  ELSE UpdateBuckets([h EXCEPT !.count = @ + 1], v)

\* The lowest and the highest index at a smaller scale; [0, -1] of no buckets.
HighLow(b, shift) ==
  IF Length(b) = 0 THEN [low |-> 0, high |-> -1]
  ELSE [low |-> Shr(b.start, shift), high |-> Shr(b.end, shift)]

\* _minScale(): the scale at which two histograms fit into one.
MinScale(h, other) ==
  LET scale == Min({Scale(h), Scale(other)})
      SideScale(side) ==
        LET ours == HighLow(Buckets(h, side), Scale(h) - scale)
            theirs == HighLow(Buckets(other, side), Scale(other) - scale)
        IN scale - ChangeScale(Max({ours.high, theirs.high}),
                               Min({ours.low, theirs.low}))
  IN Min({SideScale("positive"), SideScale("negative")})

\* _mergeBuckets() and _diffBuckets() go through the other's buckets.
MergeBuckets(ours, theirs, shift) ==
  LET step[i \in -1 .. Length(theirs) - 1] ==
        IF i = -1 THEN ours
        ELSE IncrementIndexBy(step[i - 1], Shr(theirs.start + i, shift), At(theirs, i))
  IN step[Length(theirs) - 1]

DiffBuckets(ours, theirs, shift) ==
  LET step[i \in -1 .. Length(theirs) - 1] ==
        IF i = -1 THEN ours
        ELSE Decrement(step[i - 1], Shr(theirs.start + i, shift), At(theirs, i))
  IN Trim(step[Length(theirs) - 1])

\* aggregator.merge(previous, delta)
Merge(previous, delta) ==
  LET sum == [delta EXCEPT !.count = @ + previous.count,
                           !.zeroCount = @ + previous.zeroCount]
      scale == MinScale(sum, previous)
      scaled == Downscale(sum, Scale(sum) - scale)
      Sum(side) == MergeBuckets(Buckets(scaled, side), Buckets(previous, side),
                                Scale(previous) - scale)
  IN [scaled EXCEPT !.positive = Sum("positive"), !.negative = Sum("negative")]

\* aggregator.diff(previous, current)
Diff(previous, current) ==
  LET rest == [current EXCEPT !.count = @ - previous.count,
                              !.zeroCount = @ - previous.zeroCount]
      scale == MinScale(rest, previous)
      scaled == Downscale(rest, Scale(rest) - scale)
      Rest(side) == DiffBuckets(Buckets(scaled, side), Buckets(previous, side),
                                Scale(previous) - scale)
  IN [scaled EXCEPT !.positive = Rest("positive"), !.negative = Rest("negative")]

-------------------------------------------------------------------------------
NoValues == [v \in Values |-> 0]
Plus(bag1, bag2) == [v \in Values |-> bag1[v] + bag2[v]]
Minus(bag1, bag2) == [v \in Values |-> bag1[v] - bag2[v]]
IsWithin(bag1, bag2) == \A v \in Values : bag1[v] <= bag2[v]
OnlyZeros(bag) == \A v \in Values \ {Zero} : bag[v] = 0

\* What diff(previous, current) leaves of the values.
LeftBy(previous, current) ==
  IF ~IsWithin(previous, current) THEN "unrelated"
  ELSE IF OnlyZeros(Minus(current, previous)) THEN "zeros" ELSE "values"

\* createAccumulation()
Create(a) ==
  /\ hist' = [hist EXCEPT ![a] = NewHistogram]
  /\ recorded' = [recorded EXCEPT ![a] = NoValues]
  /\ left' = [left EXCEPT ![a] = "values"]

\* The counts of a difference that has no values left are those of no values;
\* how the program goes on with it is not followed.
Followed(a) == left[a] = "values"

RecordValue(a, v) ==
  /\ Followed(a) /\ hist[a].count < MaxCount
  /\ hist' = [hist EXCEPT ![a] = Record(@, v)]
  /\ recorded' = [recorded EXCEPT ![a][v] = @ + 1]
  /\ UNCHANGED left

MergeInto(a, previous) ==
  /\ Followed(a) /\ Followed(previous)
  /\ hist[a].count + hist[previous].count <= MaxCount
  /\ hist' = [hist EXCEPT ![a] = Merge(hist[previous], @)]
  /\ recorded' = [recorded EXCEPT ![a] = Plus(@, recorded[previous])]
  /\ UNCHANGED left

\* getMapping() throws below its smallest scale, and the clone is lost.
DiffFrom(a, previous) ==
  /\ Followed(a) /\ Followed(previous)
  /\ Diff(hist[previous], hist[a]).scale >= MaxScale - 30
  /\ hist' = [hist EXCEPT ![a] = Diff(hist[previous], @)]
  /\ left' = [left EXCEPT ![a] = LeftBy(recorded[previous], recorded[a])]
  /\ recorded' = [recorded EXCEPT ![a] =
                    IF left'[a] = "values" THEN Minus(@, recorded[previous])
                    ELSE NoValues]

Init ==
  /\ hist = [a \in Accumulations |-> NewHistogram]
  /\ recorded = [a \in Accumulations |-> NoValues]
  /\ left = [a \in Accumulations |-> "values"]

Next ==
  \E a \in Accumulations :
    \/ Create(a)
    \/ \E v \in Values : RecordValue(a, v)
    \/ \E previous \in Accumulations \ {a} :
         MergeInto(a, previous) \/ DiffFrom(a, previous)

Spec == Init /\ [][Next]_vars

-------------------------------------------------------------------------------
(* Properties.                                                                 *)

Total(bag, S) == SumFunctionOnSet(bag, S)
OfSide(side) == {v \in Values : v.side = side}

\* The values whose bucket at a scale is index.
InBucket(side, scale, index) ==
  {v \in OfSide(side) : Shr(v.index, MaxScale - scale) = index}

CountsValues(h, bag, side) ==
  LET b == Buckets(h, side)
      indexes == {b.start + i : i \in Positions(b)}
  IN /\ Length(b) <= MaxSize
     /\ Total(bag, OfSide(side)) =
          SumFunctionOnSet([i \in Positions(b) |-> At(b, i)], Positions(b))
     /\ \A index \in indexes :
          At(b, index - b.start) = Total(bag, InBucket(side, Scale(h), index))

\* However values are recorded, histograms merged and a later measurement
\* diffed from an earlier one that it contains, what is reported counts every
\* value once, in the bucket that is its own at the scale reported, in no more
\* buckets than allowed (ExponentialHistogram.ts:209, 243, 273;
\* Buckets.ts:114, 140).  Excepted are differences that leave no values but
\* zeros, for which EmptyDifferencesHoldNoCounts is violated.
BucketsCountValues ==
  \A a \in Accumulations :
    Followed(a) =>
      /\ hist[a].count = Total(recorded[a], Values)
      /\ hist[a].zeroCount = recorded[a][Zero]
      /\ \A side \in Sides :
           CountsValues(hist[a], recorded[a], side)

\* What the test 'handles all zero bucket case' says of two equal histograms:
\* their difference has no buckets (ExponentialHistogram.test.ts:463).
EmptyDifferencesHoldNoCounts ==
  \A a \in Accumulations :
    left[a] = "zeros" => \A side \in Sides : Length(Buckets(hist[a], side)) = 0

\* The values of a bag fit at a scale.
FitsAt(bag, scale) ==
  \A side \in Sides :
    LET indexes == {Shr(v.index, MaxScale - scale) :
                      v \in {v \in OfSide(side) : bag[v] > 0}}
    IN indexes # {} => Max(indexes) - Min(indexes) < MaxSize

\* The histogram could not have a larger scale.
IsPrecise(a) ==
  \/ OnlyZeros(recorded[a])
  \/ Scale(hist[a]) = MaxScale
  \/ ~FitsAt(recorded[a], Scale(hist[a]) + 1)

\* Two histograms have positive values both or neither, and negative ones.
Alike(a, b) ==
  \A side \in Sides :
    (\E v \in OfSide(side) : recorded[a][v] > 0)
      <=> (\E v \in OfSide(side) : recorded[b][v] > 0)

\* Recording costs no more precision than the values require, nor does merging
\* two histograms that have values on the same sides: the scale is the largest
\* at which they fit (ExponentialHistogram.ts:413, 446).
PrecisionIsKept ==
  [][\A a \in Accumulations :
       /\ IsPrecise(a)
       /\ \/ \E v \in Values : RecordValue(a, v)
          \/ \E previous \in Accumulations \ {a} :
               IsPrecise(previous) /\ Alike(a, previous) /\ MergeInto(a, previous)
       => IsPrecise(a)']_vars
===============================================================================
