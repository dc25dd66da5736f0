------------------------ MODULE MetricStorageProofs ------------------------
(***************************************************************************)
(* Proofs about MetricStorage, for any readers, attribute sets, limits and *)
(* bounds: where the points of every reader start, and that what a reader  *)
(* was told and what its stash still holds add up to what was measured.    *)
(***************************************************************************)
EXTENDS MetricStorage, FoldProofs

----------------------------------------------------------------------------
(* Least and greatest elements.                                             *)

LEMMA MinIsMember ==
  ASSUME NEW S, S \subseteq Nat, S # {}
  PROVE  Min(S) \in S
  BY NatHasLeast DEF Min

LEMMA MaxIsMember ==
  ASSUME NEW n \in Nat, NEW S, S \subseteq 0 .. n, S # {}
  PROVE  Max(S) \in S
<1> DEFINE T == {n - i : i \in S}
<1>1. T \subseteq Nat /\ T # {}
  <2>1. \A i \in S : n - i \in Nat
    OBVIOUS
  <2>2. T \subseteq Nat
    BY <2>1
  <2>3. PICK i \in S : TRUE
    OBVIOUS
  <2> QED
    BY <2>2, <2>3
<1>2. PICK x \in T : \A y \in T : x <= y
  BY <1>1, NatHasLeast
<1>3. PICK m \in S : x = n - m
  BY <1>2
<1>4. \A y \in S : m >= y
  BY <1>2, <1>3
<1> QED
  BY <1>4 DEF Max

----------------------------------------------------------------------------
(* What is known of accumulations and maps in every state.                  *)

\* A record with the fields of an accumulation; nothing is said of its value.
IsAcc(a) ==
  /\ a = [start |-> a.start, first |-> a.first, value |-> a.value,
          reset |-> a.reset]
  /\ a.start \in Int
  /\ a.first \in Int
  /\ a.reset \in BOOLEAN

IsLog == /\ Len(maps) \in Nat /\ Len(maps) >= 1
         /\ maps = [i \in 1 .. Len(maps) |-> maps[i]]

MapsInv ==
  /\ IsLog
  /\ \A i \in 1 .. Len(maps) : \A k \in DOMAIN maps[i] :
       /\ IsAcc(maps[i][k])
       /\ maps[i][k].start <= maps[i][k].first
       /\ maps[i][k].first <= clock
       /\ maps[i][k].reset => k \in wasReset

TypeInv ==
  /\ clock \in Nat
  /\ instrument \in [async : BOOLEAN, monotonic : BOOLEAN]
  /\ temporality \in [Readers -> {"delta", "cumulative"}]
  /\ handles \subseteq Readers
  /\ taken \in [Readers -> Nat]
  /\ history = [c \in Readers |-> history[c]]
  /\ collection \in [Readers -> [time : Int, waiting : SUBSET Callbacks]]
  /\ told = [c \in Readers |-> told[c]]

\* Every object a collector has not taken was measured after its last report.
TimesInv ==
  \A c \in Readers :
    /\ taken[c] < Len(maps)
    /\ history[c].time \in Int /\ -1 <= history[c].time
    /\ history[c].time <= clock
    /\ collection[c].time \in Int /\ -1 <= collection[c].time
    /\ collection[c].time <= clock
    /\ IF collection[c].time = -1 THEN collection[c] = Idle
                                  ELSE history[c].time <= collection[c].time
    /\ \A i \in Stash(c) : \A k \in DOMAIN maps[i] :
         history[c].time <= maps[i][k].first

LEMMA HoldingFacts ==
  ASSUME IsLog, NEW c, taken[c] \in Nat, NEW k
  PROVE  /\ Holding(c, k) \subseteq 1 .. Len(maps)
         /\ Holding(c, k) \subseteq Nat
         /\ Holding(c, k) \subseteq 0 .. Len(maps)
         /\ IsFiniteSet(Holding(c, k))
<1>1. /\ Holding(c, k) \subseteq 1 .. Len(maps)
      /\ Holding(c, k) \subseteq Nat
      /\ Holding(c, k) \subseteq 0 .. Len(maps)
  BY DEF IsLog, Holding, Stash
<1>2. IsFiniteSet(1 .. Len(maps))
  <2>1. 1 \in Int /\ Len(maps) \in Int
    BY DEF IsLog
  <2> QED
    BY <2>1, FS_Interval
<1> QED
  BY <1>1, <1>2, FS_Subset

\* The merged object of a stash takes its start from one of the objects, and
\* is that object only where the stash has no other.
LEMMA MergedFacts ==
  ASSUME MapsInv, NEW c, taken[c] \in Nat, NEW k, Holding(c, k) # {}
  PROVE  \E b \in Holding(c, k) :
           /\ Merged(c, k) = [at |-> Merged(c, k).at, acc |-> Merged(c, k).acc]
           /\ Merged(c, k).at = (IF Holding(c, k) = {b} THEN b ELSE 0)
           /\ IsAcc(Merged(c, k).acc)
           /\ Merged(c, k).acc.start = maps[b][k].start
           /\ Merged(c, k).acc.first = maps[b][k].first
           /\ Merged(c, k).acc.reset => maps[b][k].reset
<1>1. /\ Holding(c, k) \subseteq 1 .. Len(maps)
      /\ Holding(c, k) \subseteq Nat
      /\ Holding(c, k) \subseteq 0 .. Len(maps)
      /\ IsFiniteSet(Holding(c, k))
  BY HoldingFacts DEF MapsInv
<1>2. Base(c, k) \in Holding(c, k)
  <2>1. CASE Resets(c, k) = {}
    BY <2>1, <1>1, MinIsMember DEF Base
  <2>2. CASE Resets(c, k) # {}
    <3>1. Resets(c, k) \subseteq 0 .. Len(maps) /\ Len(maps) \in Nat
      BY <1>1 DEF MapsInv, IsLog, Resets
    <3>2. Max(Resets(c, k)) \in Resets(c, k)
      BY <2>2, <3>1, MaxIsMember
    <3> QED
      BY <2>2, <3>2 DEF Base, Resets
  <2> QED
    BY <2>1, <2>2
<1>3. IsAcc(maps[Base(c, k)][k])
  BY <1>1, <1>2 DEF MapsInv, Holding
<1>4. /\ IsAcc(MergedAcc(c, k))
      /\ MergedAcc(c, k).start = maps[Base(c, k)][k].start
      /\ MergedAcc(c, k).first = maps[Base(c, k)][k].first
      /\ MergedAcc(c, k).reset => maps[Base(c, k)][k].reset
  BY <1>3 DEF IsAcc, MergedAcc
<1>5. Cardinality(Holding(c, k)) = 1 <=> \E x : Holding(c, k) = {x}
  BY <1>1, FS_Singleton
<1>6. Cardinality(Holding(c, k)) = 1 <=> Holding(c, k) = {Base(c, k)}
  BY <1>5, <1>2
<1> QED
  BY <1>2, <1>4, <1>6 DEF Merged

----------------------------------------------------------------------------
(* Sequences.                                                               *)

LEMMA LogLength ==
  ASSUME NEW n \in Nat, NEW s, s = [i \in 1 .. n |-> s[i]]
  PROVE  s \in Seq({s[i] : i \in 1 .. n}) /\ Len(s) = n
  OBVIOUS

LEMMA AppendLog ==
  ASSUME NEW n \in Nat, NEW s, s = [i \in 1 .. n |-> s[i]], NEW x
  PROVE  /\ Len(Append(s, x)) = n + 1
         /\ Append(s, x)
              = [i \in 1 .. n + 1 |-> IF i = n + 1 THEN x ELSE s[i]]
<1>1. s \in Seq({s[i] : i \in 1 .. n} \cup {x}) /\ Len(s) = n
  OBVIOUS
<1> QED
  BY <1>1

----------------------------------------------------------------------------
(* The two ways maps changes.                                               *)

\* A measurement changes one accumulation of the active map.
LEMMA ActiveWithFacts ==
  ASSUME IsLog, NEW key, NEW acc
  PROVE  LET new == ActiveWith(key, acc) IN
         /\ Len(new) = Len(maps)
         /\ new = [i \in 1 .. Len(maps) |-> new[i]]
         /\ \A i \in 1 .. Len(maps) :
              DOMAIN new[i] = DOMAIN maps[i]
                                \cup (IF i = Len(maps) THEN {key} ELSE {})
         /\ \A i \in 1 .. Len(maps) : \A k \in DOMAIN new[i] :
              new[i][k] = IF i = Len(maps) /\ k = key
                          THEN acc ELSE maps[i][k]
<1> DEFINE n == Len(maps)
           new == ActiveWith(key, acc)
<1>1. n \in Nat /\ n >= 1 /\ maps = [i \in 1 .. n |-> maps[i]]
  BY DEF IsLog
<1>2. new = [i \in 1 .. n |-> IF i = n THEN Put(maps[n], key, acc)
                                       ELSE maps[i]]
  BY <1>1 DEF ActiveWith
<1>3. new = [i \in 1 .. n |-> new[i]]
  BY <1>2
<1>4. Len(new) = n
  <2> HIDE DEF new
  <2> QED
    BY <1>1, <1>3, LogLength
<1>5. \A i \in 1 .. n :
        DOMAIN new[i] = DOMAIN maps[i] \cup (IF i = n THEN {key} ELSE {})
  BY <1>2 DEF Put
<1>6. \A i \in 1 .. n : \A k \in DOMAIN new[i] :
        new[i][k] = IF i = n /\ k = key THEN acc ELSE maps[i][k]
  BY <1>1, <1>2 DEF Put
<1> QED
  BY <1>3, <1>4, <1>5, <1>6

\* A collection moves the start of what it calibrates, and begins a new map.
LEMMA CollectedFacts ==
  ASSUME MapsInv, NEW c
  PROVE  LET new == Append(MapsCalibrated(c), Empty) IN
         /\ Len(new) = Len(maps) + 1
         /\ new = [i \in 1 .. Len(maps) + 1 |-> new[i]]
         /\ DOMAIN new[Len(maps) + 1] = {}
         /\ \A i \in 1 .. Len(maps) : DOMAIN new[i] = DOMAIN maps[i]
         /\ \A i \in 1 .. Len(maps) : \A k \in DOMAIN maps[i] :
              new[i][k] = IF k \in Calibrated(c) /\ Holding(c, k) = {i}
                          THEN StartsAt(maps[i][k], history[c].time)
                          ELSE maps[i][k]
<1> DEFINE n == Len(maps)
           old == MapsCalibrated(c)
           new == Append(old, Empty)
           At(i, k) == IF k \in Calibrated(c) /\ Holding(c, k) = {i}
                       THEN StartsAt(maps[i][k], history[c].time)
                       ELSE maps[i][k]
<1>1. n \in Nat /\ DOMAIN maps = 1 .. n
  BY DEF MapsInv, IsLog
<1>2. old = [i \in 1 .. n |-> [k \in DOMAIN maps[i] |-> At(i, k)]]
  BY <1>1 DEF MapsCalibrated
<1> HIDE DEF At
<1>3. /\ old = [i \in 1 .. n |-> old[i]]
      /\ \A i \in 1 .. n : DOMAIN old[i] = DOMAIN maps[i]
      /\ \A i \in 1 .. n : \A k \in DOMAIN maps[i] : old[i][k] = At(i, k)
  BY <1>2
<1> HIDE DEF old
<1>4. /\ Len(new) = n + 1
      /\ new = [i \in 1 .. n + 1 |-> IF i = n + 1 THEN Empty ELSE old[i]]
  BY <1>1, <1>3, AppendLog
<1>5. DOMAIN Empty = {}
  BY DEF Empty
<1> HIDE DEF new
<1>6. /\ new = [i \in 1 .. n + 1 |-> new[i]]
      /\ new[n + 1] = Empty
      /\ \A i \in 1 .. n : new[i] = old[i]
  BY <1>1, <1>4
<1>7. \A i \in 1 .. n : \A k \in DOMAIN maps[i] : new[i][k] = At(i, k)
  BY <1>3, <1>6
<1> QED
  BY <1>3, <1>4, <1>5, <1>6, <1>7 DEF new, old, At

----------------------------------------------------------------------------
(* Measurements.                                                            *)

\* What a measurement may put under a key of the active map.
Measured(key, acc) ==
  /\ IsAcc(acc)
  /\ acc.start <= acc.first
  /\ \/ acc.first = clock
     \/ key \in DOMAIN Active /\ acc.first = Active[key].first
  /\ acc.reset => key \in wasReset'

LEMMA ActiveFacts ==
  ASSUME MapsInv, NEW key \in DOMAIN Active
  PROVE  /\ IsAcc(Active[key])
         /\ Active[key].start <= Active[key].first
         /\ Active[key].first <= clock
         /\ Active[key].reset => key \in wasReset
<1>1. Len(maps) \in 1 .. Len(maps)
  BY DEF MapsInv, IsLog
<1> QED
  BY <1>1 DEF MapsInv, Active

LEMMA RecordMeasures ==
  ASSUME TypeInv, MapsInv, NEW k, NEW v, Record(k, v)
  PROVE  \E key, acc :
           /\ maps' = ActiveWith(key, acc)
           /\ Measured(key, acc)
           /\ acc.start = IF key \in DOMAIN Active THEN Active[key].start
                                                   ELSE clock
<1> DEFINE key == KeyIn(Active, k)
           total == Active[key].value + Counted(v)
           acc == IF key \in DOMAIN Active
                  THEN [Active[key] EXCEPT !.value = total]
                  ELSE Accumulation(clock, v)
<1>1. maps' = ActiveWith(key, acc) /\ wasReset' = wasReset
  BY DEF Record
<1> HIDE DEF key, total
<1>2. CASE key \in DOMAIN Active
  <2>1. /\ IsAcc(Active[key])
        /\ Active[key].start <= Active[key].first
        /\ Active[key].reset => key \in wasReset
    BY <1>2, ActiveFacts
  <2>2. acc = [Active[key] EXCEPT !.value = total]
    BY <1>2
  <2> HIDE DEF acc
  <2>3. /\ IsAcc(acc) /\ acc.start = Active[key].start
        /\ acc.first = Active[key].first /\ acc.reset = Active[key].reset
    BY <2>1, <2>2 DEF IsAcc
  <2>4. Measured(key, acc)
    BY <1>1, <1>2, <2>1, <2>3 DEF Measured
  <2> QED
    BY <1>1, <1>2, <2>3, <2>4
<1>3. CASE key \notin DOMAIN Active
  <2>1. acc = [start |-> clock, first |-> clock, value |-> Counted(v),
               reset |-> FALSE]
    BY <1>3 DEF Accumulation
  <2> HIDE DEF acc
  <2>2. /\ IsAcc(acc) /\ acc.start = clock /\ acc.first = clock
        /\ acc.reset = FALSE
    BY <2>1 DEF IsAcc, TypeInv
  <2>3. Measured(key, acc)
    BY <2>2 DEF Measured, TypeInv
  <2> QED
    BY <1>1, <1>3, <2>2, <2>3
<1> QED
  BY <1>2, <1>3

LEMMA ObserveMeasures ==
  ASSUME TypeInv, MapsInv, TimesInv,
         NEW r \in Readers, NEW callback, NEW k, NEW v,
         Observe(r, callback, k, v)
  PROVE  /\ wasReset \subseteq wasReset'
         /\ \E key, acc : maps' = ActiveWith(key, acc) /\ Measured(key, acc)
<1> DEFINE time == collection[r].time
           key == KeyIn(memo, k)
           observed == Accumulation(time, v)
           seen == key \in DOMAIN memo
           drops == Drops(memo[key], observed)
           delta == IF seen THEN Diff(memo[key], observed) ELSE observed
           acc == IF key \in DOMAIN Active THEN Merge(Active[key], delta)
                                           ELSE delta
<1>1. /\ maps' = ActiveWith(key, acc)
      /\ wasReset' = IF seen /\ drops THEN wasReset \cup {key} ELSE wasReset
  BY DEF Observe, BatchCumulate
<1>2. observed = [start |-> time, first |-> clock, value |-> Counted(v),
                  reset |-> FALSE]
  BY DEF Accumulation
<1>3. time \in Int /\ time <= clock /\ clock \in Int
  BY DEF TimesInv, TypeInv
<1>4. /\ IsAcc(delta) /\ delta.start = time /\ delta.first = clock
      /\ delta.reset => seen /\ drops
  <2> HIDE DEF observed, time, key
  <2>1. CASE ~seen
    BY <1>2, <1>3, <2>1 DEF IsAcc
  <2>2. CASE seen /\ drops
    BY <1>2, <1>3, <2>2 DEF IsAcc, Diff
  <2>3. CASE seen /\ ~drops
    BY <1>2, <1>3, <2>3 DEF IsAcc, Diff
  <2> QED
    BY <2>1, <2>2, <2>3
<1> HIDE DEF observed, time, key, drops, delta, seen
<1>5. wasReset \subseteq wasReset' /\ (delta.reset => key \in wasReset')
  BY <1>1, <1>4
<1>6. Measured(key, acc)
  <2>1. CASE key \notin DOMAIN Active \/ delta.reset
    <3>1. acc = delta
      BY <2>1 DEF Merge
    <3> HIDE DEF acc
    <3> QED
      BY <1>3, <1>4, <1>5, <3>1 DEF Measured
  <2>2. CASE key \in DOMAIN Active /\ ~delta.reset
    <3>1. /\ IsAcc(Active[key]) /\ Active[key].start <= Active[key].first
          /\ Active[key].first <= clock
      BY <2>2, ActiveFacts
    <3>2. acc = [start |-> Active[key].start, first |-> Active[key].first,
                 value |-> Active[key].value + delta.value, reset |-> FALSE]
      BY <2>2 DEF Merge
    <3> HIDE DEF acc
    <3>3. /\ IsAcc(acc) /\ acc.start = Active[key].start
          /\ acc.first = Active[key].first /\ acc.reset = FALSE
      BY <3>1, <3>2 DEF IsAcc
    <3> QED
      BY <2>2, <3>1, <3>3 DEF Measured
  <2> QED
    BY <2>1, <2>2
<1> QED
  BY <1>1, <1>5, <1>6

\* A measurement keeps what is known of the maps.
LEMMA MeasureStep ==
  ASSUME TypeInv, MapsInv, TimesInv,
         NEW key, NEW acc, maps' = ActiveWith(key, acc), Measured(key, acc),
         wasReset \subseteq wasReset',
         clock' = clock, taken' = taken, history' = history,
         \A c \in Readers :
           /\ collection'[c].time = collection[c].time
           /\ collection'[c].time = -1 => collection'[c] = Idle
  PROVE  MapsInv' /\ TimesInv'
<1>1. /\ Len(maps') = Len(maps)
      /\ maps' = [i \in 1 .. Len(maps) |-> maps'[i]]
      /\ \A i \in 1 .. Len(maps) :
           DOMAIN maps'[i] = DOMAIN maps[i]
                               \cup (IF i = Len(maps) THEN {key} ELSE {})
      /\ \A i \in 1 .. Len(maps) : \A k \in DOMAIN maps'[i] :
           maps'[i][k] = IF i = Len(maps) /\ k = key THEN acc ELSE maps[i][k]
  BY ActiveWithFacts DEF MapsInv
<1>2. IsLog'
  BY <1>1 DEF MapsInv, IsLog
<1>3. IsAcc(acc) /\ acc.start <= acc.first /\ acc.first <= clock
  <2>1. CASE acc.first = clock
    BY <2>1 DEF Measured, TypeInv
  <2>2. CASE key \in DOMAIN Active /\ acc.first = Active[key].first
    BY <2>2, ActiveFacts DEF Measured
  <2> QED
    BY <2>1, <2>2 DEF Measured
<1>4. MapsInv'
  <2> SUFFICES ASSUME NEW i \in 1 .. Len(maps), NEW k \in DOMAIN maps'[i]
               PROVE  /\ IsAcc(maps'[i][k])
                      /\ maps'[i][k].start <= maps'[i][k].first
                      /\ maps'[i][k].first <= clock
                      /\ maps'[i][k].reset => k \in wasReset'
    BY <1>1, <1>2 DEF MapsInv, IsAcc
  <2>1. CASE i = Len(maps) /\ k = key
    <3>1. maps'[i][k] = acc
      BY <1>1, <2>1
    <3> QED
      BY <1>3, <2>1, <3>1 DEF Measured
  <2>2. CASE ~(i = Len(maps) /\ k = key)
    <3>1. k \in DOMAIN maps[i] /\ maps'[i][k] = maps[i][k]
      BY <1>1, <2>2
    <3> QED
      BY <3>1 DEF MapsInv
  <2> QED
    BY <2>1, <2>2
<1>5. ASSUME NEW c \in Readers, NEW i \in Stash(c), NEW k \in DOMAIN maps'[i]
      PROVE  history[c].time <= maps'[i][k].first
  <2>1. i \in 1 .. Len(maps) /\ history[c].time <= clock
    BY DEF Stash, TypeInv, TimesInv, MapsInv, IsLog
  <2>2. CASE i = Len(maps) /\ k = key
    <3>1. maps'[i][k] = acc
      BY <1>1, <2>1, <2>2
    <3>2. CASE acc.first = clock
      BY <2>1, <3>1, <3>2
    <3>3. CASE key \in DOMAIN Active /\ acc.first = Active[key].first
      BY <2>2, <3>1, <3>3 DEF TimesInv, Active
    <3> QED
      BY <3>2, <3>3 DEF Measured
  <2>3. CASE ~(i = Len(maps) /\ k = key)
    <3>1. k \in DOMAIN maps[i] /\ maps'[i][k] = maps[i][k]
      BY <1>1, <2>1, <2>3
    <3> QED
      BY <3>1 DEF TimesInv
  <2> QED
    BY <2>2, <2>3
<1>6. \A c \in Readers : Stash(c)' = Stash(c)
  BY <1>1 DEF Stash
<1>7. TimesInv'
  BY <1>1, <1>5, <1>6 DEF TimesInv
<1> QED
  BY <1>4, <1>7

----------------------------------------------------------------------------
(* Collections.                                                             *)

LEMMA StartsAtFacts ==
  ASSUME NEW acc, IsAcc(acc), NEW time \in Int
  PROVE  /\ IsAcc(StartsAt(acc, time)) /\ StartsAt(acc, time).start = time
         /\ StartsAt(acc, time).first = acc.first
         /\ StartsAt(acc, time).reset = acc.reset
         /\ StartsAt(acc, time).value = acc.value
  BY DEF IsAcc, StartsAt

\* The maps after c's collection, by their objects.
LEMMA CollectedObjects ==
  ASSUME TypeInv, MapsInv, TimesInv, NEW c \in Readers,
         maps' = Append(MapsCalibrated(c), Empty)
  PROVE  /\ Len(maps') = Len(maps) + 1
         /\ maps' = [i \in 1 .. Len(maps') |-> maps'[i]]
         /\ DOMAIN maps'[Len(maps) + 1] = {}
         /\ \A i \in 1 .. Len(maps) : DOMAIN maps'[i] = DOMAIN maps[i]
         /\ \A i \in 1 .. Len(maps) : \A k \in DOMAIN maps[i] :
              /\ IsAcc(maps'[i][k])
              /\ maps'[i][k].first = maps[i][k].first
              /\ maps'[i][k].reset = maps[i][k].reset
              /\ maps'[i][k].start <= maps'[i][k].first
              /\ maps'[i][k].start
                   = IF k \in Calibrated(c) /\ Holding(c, k) = {i}
                     THEN history[c].time ELSE maps[i][k].start
<1>1. /\ Len(maps') = Len(maps) + 1
      /\ maps' = [i \in 1 .. Len(maps) + 1 |-> maps'[i]]
      /\ DOMAIN maps'[Len(maps) + 1] = {}
      /\ \A i \in 1 .. Len(maps) : DOMAIN maps'[i] = DOMAIN maps[i]
      /\ \A i \in 1 .. Len(maps) : \A k \in DOMAIN maps[i] :
           maps'[i][k] = IF k \in Calibrated(c) /\ Holding(c, k) = {i}
                         THEN StartsAt(maps[i][k], history[c].time)
                         ELSE maps[i][k]
  BY CollectedFacts
<1>2. ASSUME NEW i \in 1 .. Len(maps), NEW k \in DOMAIN maps[i]
      PROVE  /\ IsAcc(maps'[i][k])
             /\ maps'[i][k].first = maps[i][k].first
             /\ maps'[i][k].reset = maps[i][k].reset
             /\ maps'[i][k].start <= maps'[i][k].first
             /\ maps'[i][k].start
                  = IF k \in Calibrated(c) /\ Holding(c, k) = {i}
                    THEN history[c].time ELSE maps[i][k].start
  <2>1. IsAcc(maps[i][k]) /\ maps[i][k].start <= maps[i][k].first
    BY DEF MapsInv
  <2>2. CASE k \in Calibrated(c) /\ Holding(c, k) = {i}
    <3>1. maps'[i][k] = StartsAt(maps[i][k], history[c].time)
      BY <1>1, <2>2
    <3>2. history[c].time \in Int /\ history[c].time <= maps[i][k].first
      BY <2>2 DEF Holding, TimesInv
    <3> DEFINE moved == StartsAt(maps[i][k], history[c].time)
    <3>3. /\ IsAcc(moved) /\ moved.start = history[c].time
          /\ moved.first = maps[i][k].first
          /\ moved.reset = maps[i][k].reset
      BY <2>1, <3>2, StartsAtFacts
    <3> HIDE DEF moved
    <3>4. maps'[i][k] = moved
      BY <3>1 DEF moved
    <3> QED
      BY <2>2, <3>2, <3>3, <3>4
  <2>3. CASE ~(k \in Calibrated(c) /\ Holding(c, k) = {i})
    <3>1. maps'[i][k] = maps[i][k]
      BY <1>1, <2>3
    <3> QED
      BY <2>1, <2>3, <3>1
  <2> QED
    BY <2>2, <2>3
<1> QED
  BY <1>1, <1>2

LEMMA CollectStep ==
  ASSUME TypeInv, MapsInv, TimesInv,
         NEW c \in Readers, c \in handles, CollectEnds(c)
  PROVE  MapsInv' /\ TimesInv'
<1>1. /\ maps' = Append(MapsCalibrated(c), Empty)
      /\ taken' = [taken EXCEPT ![c] = Len(maps)]
      /\ history' = [history EXCEPT ![c] =
           [time |-> collection[c].time, points |-> Points(c)]]
      /\ collection' = [collection EXCEPT ![c] = Idle]
      /\ collection[c] # Idle
      /\ clock' = clock /\ wasReset' = wasReset
  BY DEF CollectEnds, BuildMetrics, ghosts
<1>2. /\ Len(maps') = Len(maps) + 1
      /\ maps' = [i \in 1 .. Len(maps') |-> maps'[i]]
      /\ DOMAIN maps'[Len(maps) + 1] = {}
      /\ \A i \in 1 .. Len(maps) : DOMAIN maps'[i] = DOMAIN maps[i]
      /\ \A i \in 1 .. Len(maps) : \A k \in DOMAIN maps[i] :
           /\ IsAcc(maps'[i][k])
           /\ maps'[i][k].first = maps[i][k].first
           /\ maps'[i][k].reset = maps[i][k].reset
           /\ maps'[i][k].start <= maps'[i][k].first
  BY <1>1, CollectedObjects
<1>3. Len(maps) \in Nat /\ Len(maps) >= 1
  BY DEF MapsInv, IsLog
<1>4. IsLog'
  BY <1>2, <1>3 DEF IsLog
<1>5. MapsInv'
  <2>1. ASSUME NEW i \in 1 .. Len(maps'), NEW k \in DOMAIN maps'[i]
        PROVE  /\ IsAcc(maps'[i][k])
               /\ maps'[i][k].start <= maps'[i][k].first
               /\ maps'[i][k].first <= clock'
               /\ maps'[i][k].reset => k \in wasReset'
    <3>1. i \in 1 .. Len(maps) /\ k \in DOMAIN maps[i]
      BY <1>2, <1>3, <2>1
    <3>2. clock' = clock /\ wasReset' = wasReset
      BY <1>1
    <3> QED
      BY <1>2, <3>1, <3>2 DEF MapsInv
  <2> QED
    BY <1>4, <2>1 DEF MapsInv, IsAcc
<1>6. \A d \in Readers : /\ taken'[d] = IF d = c THEN Len(maps) ELSE taken[d]
                         /\ history'[d].time = IF d = c THEN collection[c].time
                                               ELSE history[d].time
                         /\ collection'[d] = IF d = c THEN Idle
                                             ELSE collection[d]
  BY <1>1 DEF TypeInv
<1>7. ASSUME NEW d \in Readers, NEW i \in taken'[d] + 1 .. Len(maps'),
             NEW k \in DOMAIN maps'[i]
      PROVE  history'[d].time <= maps'[i][k].first
  <2>1. d # c /\ i \in Stash(d) /\ i \in 1 .. Len(maps)
    BY <1>2, <1>3, <1>6, <1>7 DEF Stash, TypeInv
  <2> QED
    BY <1>2, <1>6, <2>1 DEF TimesInv
<1>8. \A d \in Readers : Stash(d)' = taken'[d] + 1 .. Len(maps')
  BY DEF Stash
<1>9. ASSUME NEW d \in Readers
      PROVE  /\ taken'[d] < Len(maps')
             /\ history'[d].time \in Int /\ -1 <= history'[d].time
             /\ history'[d].time <= clock'
             /\ collection'[d].time \in Int /\ -1 <= collection'[d].time
             /\ collection'[d].time <= clock'
             /\ IF collection'[d].time = -1 THEN collection'[d] = Idle
                ELSE history'[d].time <= collection'[d].time
  <2>1. CASE d = c
    BY <1>1, <1>2, <1>3, <1>6, <2>1 DEF TimesInv, TypeInv, Idle
  <2>2. CASE d # c
    BY <1>1, <1>2, <1>3, <1>6, <2>2 DEF TimesInv, TypeInv
  <2> QED
    BY <2>1, <2>2
<1>10. TimesInv'
  <2>1. Idle' = Idle
    BY DEF Idle
  <2> QED
    BY <1>7, <1>8, <1>9, <2>1 DEF TimesInv
<1> QED
  BY <1>5, <1>10

----------------------------------------------------------------------------
(* Every step.                                                              *)

StartsInv == TypeInv /\ MapsInv /\ TimesInv

LEMMA WaitingEdit ==
  ASSUME NEW S, NEW rec \in [time : Int, waiting : S], NEW w
  PROVE  [rec EXCEPT !.waiting = w] = [time |-> rec.time, waiting |-> w]
  OBVIOUS

LEMMA CallbackSettles ==
  ASSUME TypeInv, TimesInv, NEW r \in Readers, NEW callback,
         callback \in collection[r].waiting,
         collection' = [collection EXCEPT ![r].waiting = @ \ {callback}]
  PROVE  /\ collection' \in [Readers -> [time : Int, waiting : SUBSET Callbacks]]
         /\ \A c \in Readers :
              /\ collection'[c].time = collection[c].time
              /\ collection'[c].time = -1 => collection'[c] = Idle
<1>1. collection \in [Readers -> [time : Int, waiting : SUBSET Callbacks]]
  BY DEF TypeInv
<1> DEFINE left == collection[r].waiting \ {callback}
           mine == [collection[r] EXCEPT !.waiting = left]
<1>2. collection' = [collection EXCEPT ![r] = mine]
  BY <1>1
<1>3. mine = [time |-> collection[r].time, waiting |-> left]
  BY <1>1, WaitingEdit
<1>4. collection[r].time # -1
  <2>1. collection[r] # Idle
    BY DEF Idle
  <2> QED
    BY <2>1 DEF TimesInv
<1> HIDE DEF mine
<1>5. /\ mine \in [time : Int, waiting : SUBSET Callbacks]
      /\ mine.time = collection[r].time
  BY <1>1, <1>3
<1>6. collection' \in [Readers -> [time : Int, waiting : SUBSET Callbacks]]
  BY <1>1, <1>2, <1>5
<1>7. ASSUME NEW c \in Readers
      PROVE  /\ collection'[c].time = collection[c].time
             /\ collection'[c].time = -1 => collection'[c] = Idle
  <2>1. CASE c = r
    BY <1>1, <1>2, <1>4, <1>5, <2>1
  <2>2. CASE c # r
    <3>1. collection'[c] = collection[c]
      BY <1>1, <1>2, <2>2
    <3> QED
      BY <3>1 DEF TimesInv
  <2> QED
    BY <2>1, <2>2
<1> QED
  BY <1>6, <1>7

\* A step that leaves the maps alone and lets no collection go back in time.
LEMMA QuietStep ==
  ASSUME StartsInv,
         maps' = maps, taken' = taken, history' = history,
         wasReset' = wasReset, clock' \in Int, clock <= clock',
         \A c \in Readers :
           /\ collection'[c].time \in Int /\ -1 <= collection'[c].time
           /\ collection'[c].time <= clock'
           /\ IF collection'[c].time = -1 THEN collection'[c] = Idle
              ELSE history[c].time <= collection'[c].time
  PROVE  MapsInv' /\ TimesInv'
<1>1. clock \in Int
  BY DEF StartsInv, TypeInv
<1>2. IsLog'
  BY DEF StartsInv, MapsInv, IsLog
<1>3. ASSUME NEW i \in 1 .. Len(maps), NEW k \in DOMAIN maps[i]
      PROVE  maps[i][k].first <= clock'
  <2>1. maps[i][k].first \in Int /\ maps[i][k].first <= clock
    BY DEF StartsInv, MapsInv, IsAcc
  <2> QED
    BY <1>1, <2>1
<1>4. MapsInv'
  BY <1>2, <1>3 DEF StartsInv, MapsInv, IsAcc
<1>5. \A c \in Readers : history[c].time <= clock'
  <2> TAKE c \in Readers
  <2>1. history[c].time \in Int /\ history[c].time <= clock
    BY DEF StartsInv, TimesInv
  <2> QED
    BY <1>1, <2>1
<1>6. \A c \in Readers : Stash(c)' = Stash(c)
  BY DEF Stash
<1>7. TimesInv'
  BY <1>5, <1>6 DEF StartsInv, TimesInv, Idle
<1> QED
  BY <1>4, <1>7

LEMMA StartsInit == Init => StartsInv
<1> SUFFICES ASSUME Init PROVE StartsInv
  OBVIOUS
<1>1. TypeInv
  BY DEF Init, TypeInv, Idle
<1>2. Len(maps) = 1 /\ maps = [i \in 1 .. 1 |-> maps[i]] /\ maps[1] = Empty
  BY DEF Init
<1>3. \A i \in 1 .. Len(maps) : DOMAIN maps[i] = {}
  BY <1>2 DEF Empty
<1>4. MapsInv
  BY <1>2, <1>3 DEF MapsInv, IsLog
<1>5. ASSUME NEW c \in Readers
      PROVE  /\ taken[c] = 0 /\ history[c].time = -1
             /\ collection[c] = Idle /\ collection[c].time = -1
  BY DEF Init, NoHistory, Idle
<1>6. \A c \in Readers : Stash(c) \subseteq 1 .. Len(maps)
  BY <1>2, <1>5 DEF Stash
<1>7. TimesInv
  BY <1>2, <1>3, <1>5, <1>6 DEF TimesInv, Init
<1> QED
  BY <1>1, <1>4, <1>7 DEF StartsInv

LEMMA StartsNext == StartsInv /\ [Next]_vars => StartsInv'
<1> SUFFICES ASSUME StartsInv, [Next]_vars
             PROVE  StartsInv'
  OBVIOUS
<1> USE DEF setup, ghosts
<1>0. /\ TypeInv /\ MapsInv /\ TimesInv /\ clock \in Int
      /\ \A c \in Readers :
           collection[c].time = -1 => collection[c] = Idle
  BY DEF StartsInv, TypeInv, TimesInv
<1>1. ASSUME NEW k \in Attributes, NEW v \in Values, Record(k, v)
      PROVE  StartsInv'
  <2>1. PICK key, acc : maps' = ActiveWith(key, acc) /\ Measured(key, acc)
    BY <1>0, <1>1, RecordMeasures
  <2>2. /\ clock' = clock /\ taken' = taken /\ history' = history
        /\ collection' = collection /\ wasReset' = wasReset
    BY <1>1 DEF Record
  <2>3. MapsInv' /\ TimesInv'
    BY <1>0, <2>1, <2>2, MeasureStep
  <2>4. TypeInv'
    BY <1>0, <1>1 DEF Record, TypeInv
  <2> QED
    BY <2>3, <2>4 DEF StartsInv
<1>2. ASSUME NEW r \in Readers, CollectBegins(r)
      PROVE  StartsInv'
  <2> DEFINE begun == [time |-> clock,
                       waiting |-> IF instrument.async THEN Callbacks ELSE {}]
  <2>1. /\ collection' = [collection EXCEPT ![r] = begun]
        /\ clock' = clock /\ maps' = maps /\ taken' = taken
        /\ history' = history /\ wasReset' = wasReset
    BY <1>2 DEF CollectBegins
  <2>2. begun \in [time : Int, waiting : SUBSET Callbacks] /\ begun.time = clock
    BY <1>0
  <2> HIDE DEF begun
  <2>3. \A c \in Readers :
          collection'[c] = IF c = r THEN begun ELSE collection[c]
    BY <1>0, <2>1 DEF TypeInv
  <2>4. ASSUME NEW c \in Readers
        PROVE  /\ collection'[c].time \in Int /\ -1 <= collection'[c].time
               /\ collection'[c].time <= clock'
               /\ IF collection'[c].time = -1 THEN collection'[c] = Idle
                  ELSE history[c].time <= collection'[c].time
    <3>1. CASE c = r
      BY <1>0, <2>1, <2>2, <2>3, <3>1 DEF TypeInv, TimesInv
    <3>2. CASE c # r
      BY <1>0, <2>1, <2>3, <3>2 DEF TimesInv
    <3> QED
      BY <3>1, <3>2
  <2>5. MapsInv' /\ TimesInv'
    BY <1>0, <2>1, <2>4, QuietStep
  <2>6. TypeInv'
    BY <1>0, <1>2, <2>1, <2>2 DEF CollectBegins, TypeInv
  <2> QED
    BY <2>5, <2>6 DEF StartsInv
<1>3. ASSUME NEW r \in Readers, NEW callback \in Callbacks,
             ObserveFails(r, callback)
      PROVE  StartsInv'
  <2>1. /\ callback \in collection[r].waiting
        /\ collection' = [collection EXCEPT ![r].waiting = @ \ {callback}]
        /\ clock' = clock /\ maps' = maps /\ taken' = taken
        /\ history' = history /\ wasReset' = wasReset
    BY <1>3 DEF ObserveFails
  <2>2. /\ collection' \in [Readers -> [time : Int, waiting : SUBSET Callbacks]]
        /\ \A c \in Readers :
             /\ collection'[c].time = collection[c].time
             /\ collection'[c].time = -1 => collection'[c] = Idle
    BY <1>0, <2>1, CallbackSettles
  <2>3. MapsInv' /\ TimesInv'
    BY <1>0, <2>1, <2>2, QuietStep DEF TimesInv
  <2>4. TypeInv'
    BY <1>0, <1>3, <2>2 DEF ObserveFails, TypeInv
  <2> QED
    BY <2>3, <2>4 DEF StartsInv
<1>4. ASSUME NEW r \in Readers, NEW callback \in Callbacks,
             NEW k \in Attributes, NEW v \in Values,
             Observe(r, callback, k, v)
      PROVE  StartsInv'
  <2>1. /\ callback \in collection[r].waiting
        /\ collection' = [collection EXCEPT ![r].waiting = @ \ {callback}]
        /\ clock' = clock /\ taken' = taken /\ history' = history
    BY <1>4 DEF Observe
  <2>2. /\ collection' \in [Readers -> [time : Int, waiting : SUBSET Callbacks]]
        /\ \A c \in Readers :
             /\ collection'[c].time = collection[c].time
             /\ collection'[c].time = -1 => collection'[c] = Idle
    BY <1>0, <2>1, CallbackSettles
  <2>3. /\ wasReset \subseteq wasReset'
        /\ \E key, acc : maps' = ActiveWith(key, acc) /\ Measured(key, acc)
    BY <1>0, <1>4, ObserveMeasures
  <2>4. PICK key, acc : maps' = ActiveWith(key, acc) /\ Measured(key, acc)
    BY <2>3
  <2>5. MapsInv' /\ TimesInv'
    BY <1>0, <2>1, <2>2, <2>3, <2>4, MeasureStep
  <2>6. TypeInv'
    BY <1>0, <1>4, <2>2 DEF Observe, TypeInv
  <2> QED
    BY <2>5, <2>6 DEF StartsInv
<1>5. ASSUME NEW r \in Readers, CollectEnds(r), r \in handles
      PROVE  StartsInv'
  <2>1. MapsInv' /\ TimesInv'
    BY <1>0, <1>5, CollectStep
  <2>2. /\ taken' = [taken EXCEPT ![r] = Len(maps)]
        /\ history' = [history EXCEPT ![r] =
             [time |-> collection[r].time, points |-> Points(r)]]
        /\ told' = [told EXCEPT ![r] =
             ToldAfter(r, collection[r].time, Points(r))]
        /\ collection' = [collection EXCEPT ![r] = Idle]
    BY <1>5 DEF CollectEnds, BuildMetrics
  <2>3. Idle \in [time : Int, waiting : SUBSET Callbacks]
    BY DEF Idle
  <2>4. Len(maps) \in Nat
    BY <1>0 DEF MapsInv, IsLog
  <2>5. /\ taken' \in [Readers -> Nat]
        /\ collection' \in [Readers -> [time : Int, waiting : SUBSET Callbacks]]
    BY <1>0, <2>2, <2>3, <2>4 DEF TypeInv
  <2>6. history' = [c \in Readers |-> history'[c]]
    BY <1>0, <2>2 DEF TypeInv
  <2>7. told' = [c \in Readers |-> told'[c]]
    BY <1>0, <2>2 DEF TypeInv
  <2>8. /\ clock' = clock /\ instrument' = instrument
        /\ temporality' = temporality /\ handles' = handles
    BY <1>5 DEF CollectEnds
  <2>9. TypeInv'
    BY <1>0, <2>5, <2>6, <2>7, <2>8 DEF TypeInv
  <2> QED
    BY <2>1, <2>9 DEF StartsInv
<1>6. ASSUME NEW r \in Readers, CollectEnds(r), r \notin handles
      PROVE  StartsInv'
  <2>1. /\ collection' = [collection EXCEPT ![r] = Idle]
        /\ clock' = clock /\ maps' = maps /\ taken' = taken
        /\ history' = history /\ wasReset' = wasReset
    BY <1>6 DEF CollectEnds
  <2>2. Idle \in [time : Int, waiting : SUBSET Callbacks] /\ Idle.time = -1
    BY DEF Idle
  <2>3. \A c \in Readers :
          collection'[c] = IF c = r THEN Idle ELSE collection[c]
    BY <1>0, <2>1 DEF TypeInv
  <2>4. ASSUME NEW c \in Readers
        PROVE  /\ collection'[c].time \in Int /\ -1 <= collection'[c].time
               /\ collection'[c].time <= clock'
               /\ IF collection'[c].time = -1 THEN collection'[c] = Idle
                  ELSE history[c].time <= collection'[c].time
    <3>1. CASE c = r
      BY <1>0, <2>1, <2>2, <2>3, <3>1 DEF TypeInv
    <3>2. CASE c # r
      BY <1>0, <2>1, <2>3, <3>2 DEF TimesInv
    <3> QED
      BY <3>1, <3>2
  <2>5. MapsInv' /\ TimesInv'
    BY <1>0, <2>1, <2>4, QuietStep
  <2>6. TypeInv'
    BY <1>0, <1>6, <2>1, <2>2 DEF CollectEnds, TypeInv
  <2> QED
    BY <2>5, <2>6 DEF StartsInv
<1>7. CASE Tick
  <2>1. /\ clock' = clock + 1 /\ maps' = maps /\ taken' = taken
        /\ history' = history /\ collection' = collection
        /\ wasReset' = wasReset
    BY <1>7 DEF Tick
  <2>2. clock' \in Int /\ clock <= clock'
    BY <1>0, <2>1
  <2>3. \A c \in Readers : collection[c].time <= clock'
    BY <1>0, <2>1 DEF TimesInv
  <2>4. MapsInv' /\ TimesInv'
    BY <1>0, <2>1, <2>2, <2>3, QuietStep DEF TimesInv
  <2>5. TypeInv'
    BY <1>0, <1>7 DEF Tick, TypeInv
  <2> QED
    BY <2>4, <2>5 DEF StartsInv
<1>8. CASE UNCHANGED vars
  <2>1. /\ clock' = clock /\ maps' = maps /\ taken' = taken
        /\ history' = history /\ collection' = collection
        /\ wasReset' = wasReset
    BY <1>8 DEF vars
  <2>2. MapsInv' /\ TimesInv'
    BY <1>0, <2>1, QuietStep DEF TimesInv
  <2>3. TypeInv'
    BY <1>0, <1>8 DEF vars, TypeInv
  <2> QED
    BY <2>2, <2>3 DEF StartsInv
<1> QED
  BY <1>1, <1>2, <1>3, <1>4, <1>5, <1>6, <1>7, <1>8 DEF Next

\* Objects keep their times in order: a point starts before it was first
\* measured, and what a collector has not taken was measured after the
\* collector's last report (TemporalMetricProcessor.ts:172).
THEOREM MetricStartsInductive == Spec => []StartsInv
<1>1. Init => StartsInv
  BY StartsInit
<1>2. StartsInv /\ [Next]_vars => StartsInv'
  BY StartsNext
<1> QED
  BY <1>1, <1>2, PTL DEF Spec

\* However collectors share and calibrate the accumulations of a delta, no
\* point starts later than its first measurement
\* (TemporalMetricProcessor.ts:200).
THEOREM MetricStartsBeforeMeasurements == Spec => []StartsBeforeMeasurements
<1>1. StartsInv => StartsBeforeMeasurements
  BY DEF StartsInv, MapsInv, IsLog, StartsBeforeMeasurements
<1> QED
  BY <1>1, MetricStartsInductive, PTL

----------------------------------------------------------------------------
(* The start of a cumulative stream.                                        *)

\* The first map that has an attribute set.
IsFirstWith(i, k) ==
  /\ i \in 1 .. Len(maps) /\ k \in DOMAIN maps[i]
  /\ \A j \in 1 .. Len(maps) : j < i => k \notin DOMAIN maps[j]

\* A collector that knows an attribute set took a map that has it.  A
\* cumulative one knows all it has taken, and refers to a shared object only
\* where it was the first with that attribute set.
StreamInv(c) ==
  /\ history[c].time = -1 => taken[c] = 0 /\ Known(c) = {}
  /\ \A k \in Known(c) :
       \E i \in 1 .. Len(maps) : i <= taken[c] /\ k \in DOMAIN maps[i]
  /\ temporality[c] = "cumulative" =>
       /\ \A i \in 1 .. Len(maps) :
            i <= taken[c] => DOMAIN maps[i] \subseteq Known(c)
       /\ \A k \in Known(c) :
            LET at == history[c].points[k].at IN
            at # 0 => IsFirstWith(at, k) /\ at <= taken[c]

KeysInv == \A i \in 1 .. Len(maps) : DOMAIN maps[i] \subseteq Keys

StreamsInv ==
  /\ KeysInv
  /\ \A c \in Readers : StreamInv(c)

StableStarts ==
  \A c \in Readers : temporality[c] = "cumulative" =>
    \A k \in Known(c) \ wasReset' :
      /\ k \in Known(c)'
      /\ Held(history[c].points[k], k)'.start
           = Held(history[c].points[k], k).start

\* A step that changes the active map and its keys at most.
LEMMA OpenStep ==
  ASSUME StartsInv, StreamsInv, IsLog', Len(maps') = Len(maps), KeysInv',
         \A i \in 1 .. Len(maps) : i # Len(maps) => maps'[i] = maps[i],
         DOMAIN maps[Len(maps)] \subseteq DOMAIN maps'[Len(maps)],
         taken' = taken, history' = history, temporality' = temporality
  PROVE  StreamsInv' /\ StableStarts
<1>1. ASSUME NEW c \in Readers
      PROVE  taken[c] \in Nat /\ taken[c] < Len(maps) /\ Len(maps) \in Nat
  BY DEF StartsInv, TypeInv, TimesInv, MapsInv, IsLog
<1>2. ASSUME NEW c \in Readers, NEW i \in 1 .. Len(maps), i <= taken[c]
      PROVE  maps'[i] = maps[i]
  BY <1>1, <1>2
<1>3. ASSUME NEW c \in Readers
      PROVE  StreamInv(c)'
  <2>1. StreamInv(c)
    BY DEF StreamsInv
  <2>2. ASSUME NEW k, NEW i \in 1 .. Len(maps), i <= taken[c],
               IsFirstWith(i, k)
        PROVE  IsFirstWith(i, k)'
    <3>1. \A j \in 1 .. Len(maps) : j <= i => maps'[j] = maps[j]
      BY <1>1, <1>2, <2>2
    <3> QED
      BY <2>2, <3>1 DEF IsFirstWith
  <2>3. ASSUME NEW k \in Known(c), temporality[c] = "cumulative",
               history[c].points[k].at # 0
        PROVE  /\ IsFirstWith(history[c].points[k].at, k)'
               /\ history[c].points[k].at <= taken[c]
    <3>1. /\ IsFirstWith(history[c].points[k].at, k)
          /\ history[c].points[k].at <= taken[c]
      BY <2>1, <2>3 DEF StreamInv
    <3>2. history[c].points[k].at \in 1 .. Len(maps)
      BY <3>1 DEF IsFirstWith
    <3> QED
      BY <2>2, <3>1, <3>2
  <2>4. Known(c)' = Known(c)
    BY DEF Known
  <2>5. \A i \in 1 .. Len(maps) : i <= taken[c] => maps'[i] = maps[i]
    BY <1>2
  <2> QED
    BY <2>1, <2>3, <2>4, <2>5 DEF StreamInv
<1>4. ASSUME NEW c \in Readers, temporality[c] = "cumulative",
             NEW k \in Known(c)
      PROVE  /\ k \in Known(c)'
             /\ Held(history[c].points[k], k)'.start
                  = Held(history[c].points[k], k).start
  <2>1. CASE history[c].points[k].at = 0
    BY <2>1 DEF Known, Held
  <2>2. CASE history[c].points[k].at # 0
    <3>1. /\ history[c].points[k].at \in 1 .. Len(maps)
          /\ history[c].points[k].at <= taken[c]
      BY <1>4, <2>2 DEF StreamsInv, StreamInv, IsFirstWith
    <3>2. maps'[history[c].points[k].at] = maps[history[c].points[k].at]
      BY <1>2, <3>1
    <3> QED
      BY <2>2, <3>2 DEF Known, Held
  <2> QED
    BY <2>1, <2>2
<1> QED
  BY <1>3, <1>4 DEF StreamsInv, StableStarts

\* The points of a cumulative collector: of what it did not know, of what it
\* knows better, and of what it has nothing new to tell.
LEMMA CumulativePoints ==
  ASSUME NEW d \in Readers, StreamInv(d), temporality[d] = "cumulative"
  PROVE  /\ DOMAIN Points(d) = Unreported(d) \cup Known(d)
         /\ \A k \in DOMAIN Points(d) :
              /\ k \notin Known(d) => k \in Unreported(d) /\ Points(d)[k] = Merged(d, k)
              /\ k \in Known(d) =>
                   /\ HasReported(d)
                   /\ Points(d)[k] =
                        IF k \notin Unreported(d) THEN history[d].points[k]
                        ELSE [at |-> 0, acc |-> Merge(
                               Held(history[d].points[k], k), Merged(d, k).acc)]
<1>1. Known(d) # {} => HasReported(d)
  BY DEF StreamInv, HasReported
<1>2. DOMAIN Points(d) = Unreported(d) \cup Known(d)
  BY <1>1 DEF Points
<1>3. \A k : NewPoint(d, k) = Merged(d, k)
  BY DEF NewPoint, Calibrated
<1>4. CASE HasReported(d)
  <2>1. \A k \in DOMAIN Points(d) : Points(d)[k] = CumulativePoint(d, k)
    BY <1>2, <1>4 DEF Points
  <2> QED
    BY <1>2, <1>3, <1>4, <2>1 DEF CumulativePoint
<1>5. CASE ~HasReported(d)
  <2>1. \A k \in DOMAIN Points(d) : Points(d)[k] = NewPoint(d, k)
    BY <1>2, <1>5 DEF Points
  <2> QED
    BY <1>1, <1>2, <1>3, <1>5, <2>1
<1> QED
  BY <1>2, <1>4, <1>5

\* A collection: what it knew it still knows, and it starts where it did.
LEMMA CollectStreams ==
  ASSUME StartsInv, StreamsInv,
         NEW d \in Readers, d \in handles, CollectEnds(d)
  PROVE  StreamsInv' /\ StableStarts
<1> DEFINE n == Len(maps)
           StaysFirst(i, k) ==
             /\ i \in 1 .. n + 1 /\ k \in DOMAIN maps'[i]
             /\ \A j \in 1 .. n + 1 : j < i => k \notin DOMAIN maps'[j]
<1>0. /\ TypeInv /\ MapsInv /\ TimesInv
      /\ n \in Nat /\ n >= 1
      /\ \A c \in Readers : taken[c] \in Nat /\ taken[c] < n
  BY DEF StartsInv, TypeInv, MapsInv, IsLog, TimesInv
<1>1. /\ maps' = Append(MapsCalibrated(d), Empty)
      /\ taken' = [taken EXCEPT ![d] = Len(maps)]
      /\ history' = [history EXCEPT ![d] =
           [time |-> collection[d].time, points |-> Points(d)]]
      /\ collection[d] # Idle
      /\ temporality' = temporality /\ wasReset' = wasReset
  BY DEF CollectEnds, BuildMetrics, setup, ghosts
<1>2. /\ Len(maps') = n + 1
      /\ DOMAIN maps'[n + 1] = {}
      /\ \A i \in 1 .. n : DOMAIN maps'[i] = DOMAIN maps[i]
      /\ \A i \in 1 .. n : \A k \in DOMAIN maps[i] :
           maps'[i][k].start = IF k \in Calibrated(d) /\ Holding(d, k) = {i}
                               THEN history[d].time ELSE maps[i][k].start
  BY <1>0, <1>1, CollectedObjects
<1>3. \A c \in Readers :
        /\ taken'[c] = IF c = d THEN n ELSE taken[c]
        /\ c # d => history'[c] = history[c]
  BY <1>0, <1>1 DEF TypeInv
<1>4. history'[d].time # -1 /\ history'[d].points = Points(d)
  <2>1. history'[d] = [time |-> collection[d].time, points |-> Points(d)]
    BY <1>1 DEF TypeInv, StartsInv
  <2>2. collection[d].time # -1
    BY <1>0, <1>1 DEF TimesInv
  <2> QED
    BY <2>1, <2>2
<1>5. KeysInv'
  BY <1>0, <1>2 DEF StreamsInv, KeysInv
<1>6. ASSUME NEW i, NEW k, IsFirstWith(i, k)
      PROVE  StaysFirst(i, k)
  BY <1>0, <1>2, <1>6 DEF IsFirstWith
<1> HIDE DEF StaysFirst
<1>7. StreamInv(d)
  BY DEF StreamsInv
<1>8. DOMAIN Points(d) = IF HasReported(d) /\ temporality[d] = "cumulative"
                         THEN Unreported(d) \cup Known(d) ELSE Unreported(d)
  BY DEF Points
<1>9. \A k \in Unreported(d) :
        \E i \in 1 .. n : i > taken[d] /\ k \in DOMAIN maps[i]
  BY <1>0 DEF Unreported, Holding, Stash
<1>10. \A i \in 1 .. n : i > taken[d] => DOMAIN maps[i] \subseteq Unreported(d)
  BY <1>0 DEF Unreported, Holding, Stash, StreamsInv, KeysInv
<1>11. ASSUME NEW c \in Readers, c # d
       PROVE  StreamInv(c)'
  <2>1. StreamInv(c)
    BY DEF StreamsInv
  <2>2. taken'[c] = taken[c] /\ history'[c] = history[c]
    BY <1>3, <1>11
  <2>3. Known(c)' = Known(c)
    BY <2>2 DEF Known
  <2>4. \A k \in Known(c) :
          \E i \in 1 .. n + 1 : i <= taken[c] /\ k \in DOMAIN maps'[i]
    BY <1>0, <1>2, <2>1 DEF StreamInv
  <2>5. temporality[c] = "cumulative" =>
          \A i \in 1 .. n + 1 : i <= taken[c] => DOMAIN maps'[i] \subseteq Known(c)
    BY <1>0, <1>2, <2>1 DEF StreamInv
  <2>6. ASSUME NEW k \in Known(c), temporality[c] = "cumulative",
               history[c].points[k].at # 0
        PROVE  /\ StaysFirst(history[c].points[k].at, k)
               /\ history[c].points[k].at <= taken[c]
    <3>1. /\ IsFirstWith(history[c].points[k].at, k)
          /\ history[c].points[k].at <= taken[c]
      BY <2>1, <2>6 DEF StreamInv
    <3> QED
      BY <1>6, <3>1
  <2> QED
    BY SMTT(30), <1>1, <1>2, <2>1, <2>2, <2>3, <2>4, <2>5, <2>6
    DEF StreamInv, IsFirstWith, StaysFirst
<1>12. Known(d)' = DOMAIN Points(d)
  BY <1>4 DEF Known
<1>13. \A k \in DOMAIN Points(d) :
         \E i \in 1 .. n + 1 : i <= n /\ k \in DOMAIN maps'[i]
  BY <1>0, <1>2, <1>7, <1>8, <1>9 DEF StreamInv
<1>14. ASSUME temporality[d] = "cumulative", NEW i \in 1 .. n,
              NEW k \in DOMAIN maps[i]
       PROVE  k \in DOMAIN Points(d)
  <2>1. CASE i > taken[d]
    BY <1>8, <1>10, <2>1, <1>14
  <2>2. CASE i <= taken[d]
    <3>1. taken[d] # 0
      BY <2>2
    <3> QED
      BY <1>7, <1>8, <1>14, <2>2, <3>1 DEF StreamInv, HasReported
  <2> QED
    BY <1>0, <2>1, <2>2
<1>15. ASSUME temporality[d] = "cumulative", NEW k \in DOMAIN Points(d)
       PROVE  /\ k \notin Known(d) => k \in Unreported(d) /\ Points(d)[k] = Merged(d, k)
              /\ k \in Known(d) =>
                   /\ HasReported(d)
                   /\ Points(d)[k] =
                        IF k \notin Unreported(d) THEN history[d].points[k]
                        ELSE [at |-> 0, acc |-> Merge(
                               Held(history[d].points[k], k), Merged(d, k).acc)]
  BY <1>7, <1>15, CumulativePoints
<1>16. ASSUME temporality[d] = "cumulative", NEW k \in DOMAIN Points(d),
              Points(d)[k].at # 0
       PROVE  StaysFirst(Points(d)[k].at, k) /\ Points(d)[k].at <= n
  <2>1. CASE k \in Known(d)
    <3>1. k \notin Unreported(d) /\ Points(d)[k] = history[d].points[k]
      BY <1>15, <1>16, <2>1
    <3>2. /\ IsFirstWith(history[d].points[k].at, k)
          /\ history[d].points[k].at <= taken[d]
      BY <1>7, <1>16, <2>1, <3>1 DEF StreamInv
    <3>3. history[d].points[k].at \in 1 .. n
      BY <3>2 DEF IsFirstWith
    <3> QED
      BY <1>6, <3>1, <3>2, <3>3
  <2>2. CASE k \notin Known(d)
    <3>1. Points(d)[k] = Merged(d, k) /\ Holding(d, k) # {}
      BY <1>15, <1>16, <2>2 DEF Unreported
    <3>2. PICK b \in Holding(d, k) :
            Merged(d, k).at = IF Holding(d, k) = {b} THEN b ELSE 0
      BY <1>0, <3>1, MergedFacts
    <3>3. Merged(d, k).at = b /\ Holding(d, k) = {b}
      BY <1>16, <3>1, <3>2
    <3>4. b \in 1 .. n /\ k \in DOMAIN maps[b]
      BY <1>0, <3>3 DEF Holding, Stash
    <3>5. ASSUME NEW j \in 1 .. n, j < b
          PROVE  k \notin DOMAIN maps[j]
      <4>1. CASE j <= taken[d]
        BY <1>7, <1>16, <2>2, <4>1 DEF StreamInv
      <4>2. CASE j > taken[d]
        <5>1. j \in Stash(d) /\ j # b
          BY <1>0, <3>4, <3>5, <4>2 DEF Stash
        <5> QED
          BY <3>3, <5>1 DEF Holding
      <4> QED
        BY <1>0, <4>1, <4>2
    <3>6. IsFirstWith(b, k)
      BY <3>4, <3>5 DEF IsFirstWith
    <3> QED
      BY <1>0, <1>6, <3>1, <3>3, <3>4, <3>6
  <2> QED
    BY <2>1, <2>2
<1>17. StreamInv(d)'
  <2>1. taken'[d] = n /\ history'[d].points = Points(d)
    BY <1>3, <1>4
  <2> QED
    BY <1>0, <1>1, <1>2, <1>4, <1>12, <1>13, <1>14, <1>16, <2>1
    DEF StreamInv, IsFirstWith, StaysFirst
<1>18. StreamsInv'
  BY <1>5, <1>11, <1>17 DEF StreamsInv
<1>19. ASSUME NEW c \in Readers, temporality[c] = "cumulative",
              NEW k \in Known(c), history[c].points[k].at # 0
       PROVE  maps'[history[c].points[k].at][k].start
                = maps[history[c].points[k].at][k].start
  <2> DEFINE at == history[c].points[k].at
  <2>1. at \in 1 .. n /\ k \in DOMAIN maps[at] /\ IsFirstWith(at, k)
    BY <1>19 DEF StreamsInv, StreamInv, IsFirstWith
  <2> HIDE DEF at
  <2>2. ~(k \in Calibrated(d) /\ Holding(d, k) = {at})
    <3> SUFFICES ASSUME k \in Calibrated(d), Holding(d, k) = {at}
                 PROVE  FALSE
      OBVIOUS
    <3>1. k \in Known(d)
      BY DEF Calibrated
    <3>2. PICK j \in 1 .. n : j <= taken[d] /\ k \in DOMAIN maps[j]
      BY <1>7, <3>1 DEF StreamInv
    <3>3. at > taken[d]
      BY <1>0, <2>1 DEF Holding, Stash
    <3>4. j < at
      BY <1>0, <2>1, <3>2, <3>3
    <3> QED
      BY <2>1, <3>2, <3>4 DEF IsFirstWith
  <2> QED
    BY <1>2, <2>1, <2>2 DEF at
<1>20. ASSUME NEW c \in Readers, temporality[c] = "cumulative",
              NEW k \in Known(c)
       PROVE  Held(history[c].points[k], k).start
                = IF history[c].points[k].at = 0
                  THEN history[c].points[k].acc.start
                  ELSE maps'[history[c].points[k].at][k].start
  BY <1>19, <1>20 DEF Held
<1>21. ASSUME NEW c \in Readers, temporality[c] = "cumulative",
              NEW k \in Known(c) \ wasReset'
       PROVE  /\ k \in Known(c)'
              /\ Held(history[c].points[k], k)'.start
                   = Held(history[c].points[k], k).start
  <2>1. CASE c # d
    <3>1. history'[c] = history[c]
      BY <1>3, <2>1
    <3> QED
      BY <1>20, <1>21, <3>1 DEF Known, Held
  <2>2. CASE c = d /\ k \notin Unreported(d)
    <3>1. k \in DOMAIN Points(d)
      BY <1>7, <1>8, <1>21, <2>2 DEF StreamInv, HasReported
    <3>2. history'[d].points[k] = history[d].points[k]
      BY <1>4, <1>15, <1>21, <2>2, <3>1
    <3> QED
      BY <1>12, <1>20, <1>21, <2>2, <3>1, <3>2 DEF Held
  <2>3. CASE c = d /\ k \in Unreported(d)
    <3> DEFINE merged == Merged(d, k).acc
               held == Held(history[d].points[k], k)
    <3>1. k \in DOMAIN Points(d)
      BY <1>8, <2>3
    <3>2. history'[d].points[k] = [at |-> 0, acc |-> Merge(held, merged)]
      BY <1>4, <1>15, <1>21, <2>3, <3>1
    <3>3. ~merged.reset
      <4>1. Holding(d, k) # {}
        BY <2>3 DEF Unreported
      <4>2. PICK b \in Holding(d, k) : merged.reset => maps[b][k].reset
        BY <1>0, <4>1, MergedFacts
      <4>3. b \in 1 .. n /\ k \in DOMAIN maps[b] /\ k \notin wasReset
        BY <1>0, <1>1, <1>21 DEF Holding, Stash
      <4> QED
        BY <1>0, <4>2, <4>3 DEF MapsInv
    <3> HIDE DEF merged, held
    <3>4. Merge(held, merged).start = held.start
      BY <3>3 DEF Merge
    <3>5. Held(history[d].points[k], k)' = Merge(held, merged)
      BY <3>2 DEF Held
    <3> QED
      BY <1>12, <2>3, <3>1, <3>4, <3>5 DEF held
  <2> QED
    BY <2>1, <2>2, <2>3
<1> QED
  BY <1>18, <1>21 DEF StableStarts

LEMMA MeasureStreams ==
  ASSUME StartsInv, StreamsInv,
         NEW key \in Keys, NEW acc, maps' = ActiveWith(key, acc),
         taken' = taken, history' = history, temporality' = temporality
  PROVE  StreamsInv' /\ StableStarts
<1>1. IsLog
  BY DEF StartsInv, MapsInv
<1>2. /\ Len(maps') = Len(maps)
      /\ maps' = [i \in 1 .. Len(maps) |-> maps'[i]]
      /\ \A i \in 1 .. Len(maps) :
           DOMAIN maps'[i] = DOMAIN maps[i]
                               \cup (IF i = Len(maps) THEN {key} ELSE {})
  BY <1>1, ActiveWithFacts
<1>3. IsLog' /\ Len(maps) \in 1 .. Len(maps)
  BY <1>1, <1>2 DEF IsLog
<1>4. KeysInv'
  BY <1>2 DEF StreamsInv, KeysInv
<1>5. \A i \in 1 .. Len(maps) : i # Len(maps) => maps'[i] = maps[i]
  BY <1>1 DEF ActiveWith, IsLog
<1>6. DOMAIN maps[Len(maps)] \subseteq DOMAIN maps'[Len(maps)]
  BY <1>2, <1>3
<1> QED
  BY <1>2, <1>3, <1>4, <1>5, <1>6, OpenStep

LEMMA StreamsInit == Init => StreamsInv
<1> SUFFICES ASSUME Init PROVE StreamsInv
  OBVIOUS
<1>1. Len(maps) = 1 /\ maps[1] = Empty /\ DOMAIN Empty = {}
  BY DEF Init, Empty
<1>2. \A i \in 1 .. Len(maps) : DOMAIN maps[i] = {}
  BY <1>1
<1>3. KeysInv
  BY <1>2 DEF KeysInv
<1>4. \A c \in Readers : taken[c] = 0 /\ Known(c) = {}
  BY <1>1 DEF Init, Known, NoHistory
<1> QED
  BY <1>1, <1>2, <1>3, <1>4 DEF StreamsInv, StreamInv

LEMMA StreamsNext ==
  StartsInv /\ StreamsInv /\ [Next]_vars => StreamsInv' /\ StableStarts
<1> SUFFICES ASSUME StartsInv, StreamsInv, [Next]_vars
             PROVE  StreamsInv' /\ StableStarts
  OBVIOUS
<1>1. \A map, k : k \in Attributes => KeyIn(map, k) \in Keys
  BY DEF KeyIn, Keys
<1>2. ASSUME NEW k \in Attributes, NEW v \in Values, Record(k, v)
      PROVE  StreamsInv' /\ StableStarts
  <2>1. /\ \E acc : maps' = ActiveWith(KeyIn(Active, k), acc)
        /\ taken' = taken /\ history' = history /\ temporality' = temporality
    BY <1>2 DEF Record, setup
  <2> QED
    BY <1>1, <2>1, MeasureStreams
<1>3. ASSUME NEW r, NEW callback, NEW k \in Attributes, NEW v \in Values,
             Observe(r, callback, k, v)
      PROVE  StreamsInv' /\ StableStarts
  <2>1. /\ \E acc : maps' = ActiveWith(KeyIn(memo, k), acc)
        /\ taken' = taken /\ history' = history /\ temporality' = temporality
    BY <1>3 DEF Observe, BatchCumulate, setup
  <2> QED
    BY <1>1, <2>1, MeasureStreams
<1>4. ASSUME NEW d \in Readers, d \in handles, CollectEnds(d)
      PROVE  StreamsInv' /\ StableStarts
  BY <1>4, CollectStreams
<1>5. ASSUME maps' = maps, taken' = taken, history' = history,
             temporality' = temporality
      PROVE  StreamsInv' /\ StableStarts
  <2>1. IsLog' /\ KeysInv'
    BY <1>5 DEF StartsInv, MapsInv, IsLog, StreamsInv, KeysInv
  <2> QED
    BY <1>5, <2>1, OpenStep
<1>6. CASE \E r \in Readers : CollectBegins(r)
  BY <1>5, <1>6 DEF CollectBegins, setup
<1>7. CASE \E r \in Readers, callback \in Callbacks : ObserveFails(r, callback)
  BY <1>5, <1>7 DEF ObserveFails, setup
<1>8. CASE \E r \in Readers : CollectEnds(r) /\ r \notin handles
  BY <1>5, <1>8 DEF CollectEnds, setup
<1>9. CASE Tick
  BY <1>5, <1>9 DEF Tick, setup
<1>10. CASE UNCHANGED vars
  BY <1>5, <1>10 DEF vars, setup
<1> QED
  BY <1>2, <1>3, <1>4, <1>6, <1>7, <1>8, <1>9, <1>10 DEF Next

\* A cumulative stream starts where it did until the attribute set is seen to
\* drop: another collector that calibrates an object already reported it
\* before that object was made, and a cumulative collector refers only to the
\* first object of an attribute set (TemporalMetricProcessor.ts:103).
THEOREM MetricCumulativeStartIsStable == Spec => CumulativeStartIsStable
<1>1. Init => StartsInv /\ StreamsInv
  BY StartsInit, StreamsInit
<1>2. StartsInv /\ StreamsInv /\ [Next]_vars => StartsInv' /\ StreamsInv'
  BY StartsNext, StreamsNext
<1>3. StartsInv /\ StreamsInv /\ [Next]_vars => [StableStarts]_vars
  BY StreamsNext
<1>4. [][StableStarts]_vars => CumulativeStartIsStable
  BY PTL DEF StableStarts, CumulativeStartIsStable
<1> QED
  BY <1>1, <1>2, <1>3, <1>4, PTL DEF Spec

----------------------------------------------------------------------------
(* The intervals of a lone delta collector.                                 *)

IsLone(c) ==
  /\ ~instrument.async
  /\ {d \in handles : temporality[d] = "delta"} = {c}

\* What the lone delta collector has not taken starts after its last report.
LoneInv ==
  \A c \in handles : IsLone(c) =>
    /\ \A i \in 1 .. Len(maps) : \A k \in DOMAIN maps[i] :
         i > taken[c] => maps[i][k].start >= history[c].time
    /\ \A k \in DOMAIN told[c] :
         told[c][k].end \in Int /\ told[c][k].end <= history[c].time

LonePoints == \A c \in handles : IsLone(c) /\ Reports(c) => NewPointFollows(c)

LEMMA LoneRecord ==
  ASSUME StartsInv, LoneInv, NEW k, NEW v, Record(k, v)
  PROVE  LoneInv'
<1>1. TypeInv /\ MapsInv /\ TimesInv /\ IsLog
  BY DEF StartsInv, MapsInv
<1>2. PICK key, acc : /\ maps' = ActiveWith(key, acc)
                      /\ acc.start = IF key \in DOMAIN Active
                                     THEN Active[key].start ELSE clock
  BY <1>1, RecordMeasures
<1>3. /\ Len(maps') = Len(maps)
      /\ \A i \in 1 .. Len(maps) :
           DOMAIN maps'[i] = DOMAIN maps[i]
                               \cup (IF i = Len(maps) THEN {key} ELSE {})
      /\ \A i \in 1 .. Len(maps) : \A x \in DOMAIN maps'[i] :
           maps'[i][x] = IF i = Len(maps) /\ x = key THEN acc ELSE maps[i][x]
  BY <1>1, <1>2, ActiveWithFacts
<1>4. /\ taken' = taken /\ history' = history /\ told' = told
      /\ instrument' = instrument /\ temporality' = temporality
      /\ handles' = handles
  BY DEF Record, setup
<1>5. ASSUME NEW c \in handles, IsLone(c),
             NEW i \in 1 .. Len(maps), NEW x \in DOMAIN maps'[i], i > taken[c]
      PROVE  maps'[i][x].start >= history[c].time
  <2>1. history[c].time \in Int /\ history[c].time <= clock /\ clock \in Int
    BY <1>1 DEF TypeInv, TimesInv
  <2>2. CASE i = Len(maps) /\ x = key
    <3>1. maps'[i][x] = acc
      BY <1>3, <2>2
    <3> QED
      BY <1>2, <1>5, <2>1, <2>2, <3>1 DEF LoneInv, Active
  <2>3. CASE ~(i = Len(maps) /\ x = key)
    <3>1. maps'[i][x] = maps[i][x] /\ x \in DOMAIN maps[i]
      BY <1>3, <2>3
    <3> QED
      BY <1>5, <3>1 DEF LoneInv
  <2> QED
    BY <2>2, <2>3
<1> QED
  BY <1>3, <1>4, <1>5 DEF LoneInv, IsLone

\* Another collector is cumulative and calibrates nothing.
LEMMA LoneOtherCollects ==
  ASSUME StartsInv, LoneInv, NEW d \in handles, CollectEnds(d),
         NEW c \in handles, c # d, IsLone(c)
  PROVE  /\ \A i \in 1 .. Len(maps') : \A k \in DOMAIN maps'[i] :
              i > taken'[c] => maps'[i][k].start >= history'[c].time
         /\ \A k \in DOMAIN told'[c] : /\ told'[c][k].end \in Int
                                    /\ told'[c][k].end <= history'[c].time
<1>1. /\ TypeInv /\ MapsInv /\ TimesInv /\ c \in Readers /\ d \in Readers
      /\ Len(maps) \in Nat
  BY DEF StartsInv, TypeInv, MapsInv, IsLog
<1>2. /\ maps' = Append(MapsCalibrated(d), Empty)
      /\ taken'[c] = taken[c] /\ history'[c] = history[c] /\ told'[c] = told[c]
  BY <1>1 DEF CollectEnds, BuildMetrics, TypeInv
<1>3. Calibrated(d) = {}
  BY DEF IsLone, Calibrated
<1>4. /\ Len(maps') = Len(maps) + 1
      /\ DOMAIN maps'[Len(maps) + 1] = {}
      /\ \A i \in 1 .. Len(maps) : DOMAIN maps'[i] = DOMAIN maps[i]
      /\ \A i \in 1 .. Len(maps) : \A k \in DOMAIN maps[i] :
           maps'[i][k].start = IF k \in Calibrated(d) /\ Holding(d, k) = {i}
                               THEN history[d].time ELSE maps[i][k].start
  BY <1>1, <1>2, CollectedObjects
<1>5. /\ \A i \in 1 .. Len(maps) : \A k \in DOMAIN maps[i] :
           i > taken[c] => maps[i][k].start >= history[c].time
      /\ \A k \in DOMAIN told[c] : /\ told[c][k].end \in Int
                                   /\ told[c][k].end <= history[c].time
  BY DEF LoneInv
<1>6. ASSUME NEW i \in 1 .. Len(maps'), NEW k \in DOMAIN maps'[i], i > taken[c]
      PROVE  maps'[i][k].start >= history[c].time
  <2>1. i \in 1 .. Len(maps) /\ k \in DOMAIN maps[i]
    BY <1>1, <1>4, <1>6
  <2> QED
    BY <1>3, <1>4, <1>5, <1>6, <2>1
<1> QED
  BY <1>2, <1>5, <1>6

\* The lone collector's own points start at or after its last report.
LEMMA LoneCollects ==
  ASSUME StartsInv, LoneInv, NEW c \in handles, CollectEnds(c), IsLone(c)
  PROVE  /\ NewPointFollows(c)
         /\ \A i \in 1 .. Len(maps') : \A k \in DOMAIN maps'[i] :
              i > taken'[c] => maps'[i][k].start >= history'[c].time
         /\ \A k \in DOMAIN told'[c] : /\ told'[c][k].end \in Int
                                    /\ told'[c][k].end <= history'[c].time
<1>1. /\ TypeInv /\ MapsInv /\ TimesInv /\ c \in Readers
      /\ Len(maps) \in Nat /\ Len(maps) >= 1 /\ taken[c] \in Nat
  BY DEF StartsInv, TypeInv, MapsInv, IsLog
<1> DEFINE time == collection[c].time
<1>2. /\ maps' = Append(MapsCalibrated(c), Empty)
      /\ taken'[c] = Len(maps)
      /\ history'[c] = [time |-> time, points |-> Points(c)]
      /\ told'[c] = ToldAfter(c, time, Points(c))
      /\ collection[c] # Idle
  BY <1>1 DEF CollectEnds, BuildMetrics, TypeInv
<1>3. /\ Len(maps') = Len(maps) + 1
      /\ DOMAIN maps'[Len(maps) + 1] = {}
  BY <1>1, <1>2, CollectedObjects
<1>4. /\ history[c].time \in Int /\ time \in Int
      /\ history[c].time <= time
  BY <1>1, <1>2 DEF TimesInv
<1>5. /\ history'[c].time = time /\ Known(c)' = DOMAIN Points(c)
  BY <1>2 DEF Known
<1>6. /\ Points(c) = [k \in Unreported(c) |-> NewPoint(c, k)]
      /\ DOMAIN Points(c) = Unreported(c)
  BY DEF IsLone, Points
<1>7. /\ \A i \in 1 .. Len(maps) : \A k \in DOMAIN maps[i] :
           i > taken[c] => maps[i][k].start >= history[c].time
      /\ \A k \in DOMAIN told[c] : /\ told[c][k].end \in Int
                                   /\ told[c][k].end <= history[c].time
  BY DEF LoneInv
<1> HIDE DEF time
<1>8. DOMAIN told'[c] = DOMAIN told[c] \cup DOMAIN Points(c)
  BY <1>2 DEF ToldAfter
<1>9. ASSUME NEW k \in DOMAIN told[c], k \notin DOMAIN Points(c)
      PROVE  told'[c][k] = told[c][k]
  BY <1>2, <1>9 DEF ToldAfter
<1>10. ASSUME NEW k \in DOMAIN Points(c)
       PROVE  /\ told'[c][k].start = Points(c)[k].acc.start
              /\ told'[c][k].end = time
  BY <1>2, <1>10 DEF ToldAfter
<1>11. ASSUME NEW k \in Unreported(c)
       PROVE  /\ NewPoint(c, k).acc.start \in Int
              /\ NewPoint(c, k).acc.start >= history[c].time
  <2>1. Holding(c, k) # {}
    BY <1>11 DEF Unreported
  <2>2. PICK b \in Holding(c, k) :
          /\ Merged(c, k) = [at |-> Merged(c, k).at, acc |-> Merged(c, k).acc]
          /\ IsAcc(Merged(c, k).acc)
          /\ Merged(c, k).acc.start = maps[b][k].start
    BY <1>1, <2>1, MergedFacts
  <2>3. CASE k \in Calibrated(c)
    <3> DEFINE acc == Merged(c, k).acc
               moved == StartsAt(acc, history[c].time)
    <3>1. moved.start = history[c].time
      BY <1>4, <2>2, StartsAtFacts
    <3> HIDE DEF moved
    <3>2. NewPoint(c, k) = [Merged(c, k) EXCEPT !.acc = moved]
      BY <2>3 DEF NewPoint, moved
    <3>3. NewPoint(c, k).acc = moved
      BY <2>2, <3>2, Zenon
    <3> QED
      BY <1>4, <3>1, <3>3
  <2>4. CASE k \notin Calibrated(c)
    <3>1. b \in 1 .. Len(maps) /\ b > taken[c] /\ k \in DOMAIN maps[b]
      BY <1>1 DEF Holding, Stash
    <3>2. NewPoint(c, k) = Merged(c, k)
      BY <2>4 DEF NewPoint
    <3> QED
      BY <1>7, <2>2, <3>1, <3>2 DEF IsAcc
  <2> QED
    BY <2>3, <2>4
<1>12. NewPointFollows(c)
  <2>1. ASSUME NEW k \in Known(c)', k \in DOMAIN told[c]
        PROVE  told'[c][k].start >= told[c][k].end
    <3>1. k \in Unreported(c) /\ k \in DOMAIN Points(c)
      BY <1>5, <1>6, <2>1
    <3>2. told'[c][k].start = NewPoint(c, k).acc.start
      BY <1>6, <1>10, <3>1
    <3>3. told[c][k].end \in Int /\ told[c][k].end <= history[c].time
      BY <1>7, <2>1
    <3> QED
      BY <1>4, <1>11, <3>1, <3>2, <3>3
  <2> QED
    BY <2>1 DEF NewPointFollows
<1>13. \A k \in DOMAIN told'[c] :
         told'[c][k].end \in Int /\ told'[c][k].end <= time
  <2> TAKE k \in DOMAIN told'[c]
  <2>1. CASE k \in DOMAIN Points(c)
    BY <1>4, <1>10, <2>1
  <2>2. CASE k \notin DOMAIN Points(c)
    <3>1. k \in DOMAIN told[c] /\ told'[c][k] = told[c][k]
      BY <1>8, <1>9, <2>2
    <3> QED
      BY <1>4, <1>7, <3>1
  <2> QED
    BY <2>1, <2>2
<1>14. \A i \in 1 .. Len(maps') : i > taken'[c] => DOMAIN maps'[i] = {}
  BY <1>1, <1>2, <1>3
<1> QED
  BY <1>5, <1>12, <1>13, <1>14

LEMMA SetupStays == [Next]_vars => UNCHANGED setup
<1> USE DEF setup
<1> QED
  BY DEF Next, Record, CollectBegins, Observe, ObserveFails, CollectEnds, Tick,
         vars

\* Only the callbacks of observable instruments are waited for.
CallbacksInv ==
  \A r \in Readers : collection[r].waiting # {} => instrument.async

LEMMA CallbacksNext == StartsInv /\ CallbacksInv /\ [Next]_vars => CallbacksInv'
<1> SUFFICES ASSUME StartsInv, CallbacksInv, [Next]_vars, ~instrument.async,
                    NEW r \in Readers
             PROVE  collection'[r].waiting = {} /\ instrument' = instrument
  <2>1. [Next]_vars => instrument' = instrument
    BY SetupStays DEF setup
  <2> QED
    BY <2>1 DEF CallbacksInv
<1>1. /\ collection \in [Readers -> [time : Int, waiting : SUBSET Callbacks]]
      /\ \A c \in Readers : collection[c].waiting = {}
  BY DEF StartsInv, TypeInv, CallbacksInv
<1>2. CASE UNCHANGED <<collection, instrument>>
  BY <1>1, <1>2
<1>3. ASSUME NEW c \in Readers, CollectBegins(c)
      PROVE  collection'[r].waiting = {} /\ instrument' = instrument
  <2>1. /\ collection' = [collection EXCEPT ![c] = [time |-> clock, waiting |-> {}]]
        /\ instrument' = instrument
    BY <1>3 DEF CollectBegins, setup
  <2> QED
    BY <1>1, <2>1
<1>4. ASSUME NEW c \in Readers, CollectEnds(c)
      PROVE  collection'[r].waiting = {} /\ instrument' = instrument
  <2>1. /\ collection' = [collection EXCEPT ![c] = Idle]
        /\ instrument' = instrument
    BY <1>4 DEF CollectEnds, setup
  <2> QED
    BY <1>1, <2>1 DEF Idle
<1> QED
  BY <1>1, <1>2, <1>3, <1>4
  DEF Next, Record, Observe, ObserveFails, Tick, vars, setup

LEMMA LoneNext ==
  StartsInv /\ CallbacksInv /\ LoneInv /\ [Next]_vars => LoneInv' /\ LonePoints
<1> SUFFICES ASSUME StartsInv, CallbacksInv, LoneInv, [Next]_vars
             PROVE  LoneInv' /\ LonePoints
  OBVIOUS
<1> USE DEF setup, Reports
<1>1. UNCHANGED setup
  BY SetupStays
<1>2. \A c : IsLone(c)' <=> IsLone(c)
  BY <1>1 DEF IsLone
<1>3. LonePoints
  BY LoneCollects DEF LonePoints
<1>4. ASSUME NEW d \in handles, CollectEnds(d)
      PROVE  LoneInv'
  <2>1. ASSUME NEW c \in handles, IsLone(c)
        PROVE  /\ \A i \in 1 .. Len(maps') : \A k \in DOMAIN maps'[i] :
                    i > taken'[c] => maps'[i][k].start >= history'[c].time
               /\ \A k \in DOMAIN told'[c] : /\ told'[c][k].end \in Int
                                             /\ told'[c][k].end <= history'[c].time
    <3>1. CASE c = d
      BY <1>4, <2>1, <3>1, LoneCollects
    <3>2. CASE c # d
      BY <1>4, <2>1, <3>2, LoneOtherCollects
    <3> QED
      BY <3>1, <3>2
  <2> QED
    BY <1>1, <1>2, <2>1 DEF LoneInv
<1>5. ASSUME maps' = maps, taken' = taken, history' = history, told' = told
      PROVE  LoneInv'
  BY <1>1, <1>2, <1>5 DEF LoneInv
<1>6. CASE \E k \in Attributes, v \in Values : Record(k, v)
  BY <1>3, <1>6, LoneRecord
<1>7. CASE \E r \in Readers, callback \in Callbacks, k \in Attributes, v \in Values :
             Observe(r, callback, k, v)
  <2>1. instrument.async
    BY <1>7 DEF Observe, CallbacksInv
  <2> QED
    BY <1>2, <1>3, <2>1 DEF LoneInv, IsLone
<1>8. CASE \E r \in Readers : CollectBegins(r)
  BY <1>3, <1>5, <1>8 DEF CollectBegins
<1>9. CASE \E r \in Readers, callback \in Callbacks : ObserveFails(r, callback)
  BY <1>3, <1>5, <1>9 DEF ObserveFails
<1>10. CASE \E r \in Readers : CollectEnds(r) /\ r \notin handles
  BY <1>3, <1>5, <1>10 DEF CollectEnds
<1>11. CASE Tick
  BY <1>3, <1>5, <1>11 DEF Tick
<1>12. CASE UNCHANGED vars
  BY <1>3, <1>5, <1>12 DEF vars
<1>13. LoneInv'
  BY <1>4, <1>6, <1>7, <1>8, <1>9, <1>10, <1>11, <1>12 DEF Next
<1> QED
  BY <1>3, <1>13

\* The points a lone delta collector of a synchronous instrument reports of an
\* attribute set do not overlap: what it has not taken was first measured, and
\* starts, after its last report (TemporalMetricProcessor.ts:98).
THEOREM MetricLoneDeltaIntervalsAreDisjoint ==
  Spec => LoneDeltaIntervalsAreDisjoint
<1>1. Init => StartsInv /\ CallbacksInv /\ LoneInv
  <2>1. Init => CallbacksInv
    BY DEF Init, CallbacksInv, Idle
  <2>2. Init => LoneInv
    <3> SUFFICES ASSUME Init PROVE LoneInv
      OBVIOUS
    <3>1. Len(maps) = 1 /\ DOMAIN maps[1] = {}
      BY DEF Init, Empty
    <3>2. \A i \in 1 .. Len(maps) : DOMAIN maps[i] = {}
      BY <3>1
    <3>3. \A c \in Readers : DOMAIN told[c] = {}
      BY DEF Init, Empty
    <3>4. handles \subseteq Readers
      BY DEF Init
    <3> QED
      BY <3>2, <3>3, <3>4 DEF LoneInv
  <2> QED
    BY <2>1, <2>2, StartsInit
<1>2. StartsInv /\ CallbacksInv /\ LoneInv /\ [Next]_vars
        => StartsInv' /\ CallbacksInv' /\ LoneInv'
  BY StartsNext, CallbacksNext, LoneNext
<1>3. StartsInv /\ CallbacksInv /\ LoneInv /\ [Next]_vars => [LonePoints]_vars
  BY LoneNext
<1>4. [][LonePoints]_vars => LoneDeltaIntervalsAreDisjoint
  <2>1. [LonePoints]_vars
          => [\A c \in handles :
               /\ ~instrument.async
               /\ {d \in handles : temporality[d] = "delta"} = {c}
               /\ Reports(c)
               => NewPointFollows(c)]_vars
    BY DEF LonePoints, IsLone
  <2> QED
    BY <2>1, PTL DEF LoneDeltaIntervalsAreDisjoint
<1> QED
  BY <1>1, <1>2, <1>3, <1>4, PTL DEF Spec

----------------------------------------------------------------------------
(* What a collector was told and what its stash holds.                      *)

\* The value map i has of an attribute set, the values of a stash and their
\* sum.
Part(i, k) == IF k \in DOMAIN maps[i] THEN maps[i][k].value ELSE 0
Parts(c, k) == [i \in Stash(c) |-> Part(i, k)]
InStash(c, k) == SumFunctionOnSet(Parts(c, k), Stash(c))
ToldValue(c, k) == IF k \in DOMAIN told[c] THEN told[c][k].value ELSE 0
Kept(c, k) == ToldValue(c, k) + InStash(c, k)
KeptBy(c) == [k \in Keys |-> Kept(c, k)]
Observed(k) == IF k \in DOMAIN memo THEN memo[k] ELSE 0

\* Whatever is counted, observed or told is an integer.
ValuesInv ==
  /\ \A i \in 1 .. Len(maps) : \A k \in DOMAIN maps[i] :
       maps[i][k].value \in Int
  /\ DOMAIN memo \subseteq Keys
  /\ \A k \in DOMAIN memo : memo[k] \in Int
  /\ recorded \in [Attributes -> Int]

ToldInv ==
  \A c \in Readers :
    /\ DOMAIN told[c] \subseteq Keys /\ Known(c) \subseteq Keys
    /\ \A k \in DOMAIN told[c] : told[c][k].value \in Int
    /\ \A k \in Known(c) : history[c].points[k].acc.value \in Int

\* A cumulative collector was told what the points of its history hold.
HistoryInv ==
  \A c \in Readers : temporality[c] = "cumulative" =>
    /\ Known(c) = DOMAIN told[c]
    /\ \A k \in Known(c) \ wasReset :
         /\ history[c].points[k].acc.value = told[c][k].value
         /\ Held(history[c].points[k], k).value = told[c][k].value

\* What a collector was told and what its stash holds are together what was
\* measured.
SumInv ==
  \A c \in Readers :
    IF instrument.async
    THEN \A k \in Keys \ wasReset :
           /\ Kept(c, k) = Observed(k)
           /\ k \in DOMAIN memo => k \in DOMAIN told[c] \/ Holding(c, k) # {}
    ELSE /\ wasReset = {}
         /\ SumFunctionOnSet(KeptBy(c), Keys) = Total(recorded)

LEMMA StashFacts ==
  ASSUME StartsInv, NEW c \in Readers
  PROVE  /\ IsFiniteSet(Stash(c))
         /\ Stash(c) \subseteq 1 .. Len(maps)
         /\ Stash(c) \subseteq Nat
         /\ Len(maps) \in Stash(c)
<1>1. /\ taken[c] \in Nat /\ taken[c] < Len(maps)
      /\ Len(maps) \in Nat
  BY DEF StartsInv, TypeInv, TimesInv, MapsInv, IsLog
<1>2. IsFiniteSet(Stash(c))
  <2>1. taken[c] + 1 \in Int /\ Len(maps) \in Int
    BY <1>1
  <2> QED
    BY <2>1, FS_Interval DEF Stash
<1> QED
  BY <1>1, <1>2 DEF Stash

LEMMA KeysFinite == IsFiniteSet(Keys)
<1>1. IsFiniteSet(Attributes)
  BY StorageAssumption
<1> QED
  BY <1>1, FS_AddElement DEF Keys

LEMMA PartsAreInt ==
  ASSUME StartsInv, ValuesInv, NEW c \in Readers, NEW k
  PROVE  /\ \A i \in Stash(c) : Parts(c, k)[i] = Part(i, k) /\ Part(i, k) \in Int
         /\ InStash(c, k) \in Int
<1>1. \A i \in Stash(c) : Parts(c, k)[i] = Part(i, k) /\ Part(i, k) \in Int
  BY StashFacts DEF ValuesInv, Parts, Part
<1> QED
  BY <1>1, StashFacts, SumIsInt DEF InStash

\* A sum over the maps of a stash that have the attribute set is the sum over
\* the stash.
LEMMA StashSum ==
  ASSUME StartsInv, ValuesInv, NEW c \in Readers, NEW k,
         NEW e, \A i \in Holding(c, k) : e[i] = maps[i][k].value
  PROVE  SumFunctionOnSet(e, Holding(c, k)) = InStash(c, k)
<1>1. Holding(c, k) \in SUBSET Stash(c)
  BY DEF Holding
<1>2. \A i \in Stash(c) \ Holding(c, k) : Parts(c, k)[i] = 0
  BY DEF Parts, Part, Holding
<1>3. \A i \in Holding(c, k) : e[i] = Parts(c, k)[i]
  BY DEF Parts, Part, Holding
<1>4. \A i \in Stash(c) : Parts(c, k)[i] \in Int
  BY PartsAreInt
<1> QED
  BY <1>1, <1>2, <1>3, <1>4, StashFacts, SumExtended DEF InStash

LEMMA NothingHeld ==
  ASSUME StartsInv, ValuesInv, NEW c \in Readers, NEW k, Holding(c, k) = {}
  PROVE  InStash(c, k) = 0
<1> DEFINE e == [i \in {} |-> 0]
<1>1. SumFunctionOnSet(e, Holding(c, k)) = InStash(c, k)
  BY StashSum
<1> QED
  BY <1>1, SumOfEmpty

LEMMA OneHeld ==
  ASSUME StartsInv, ValuesInv, NEW c \in Readers, NEW k,
         NEW b, Holding(c, k) = {b}
  PROVE  InStash(c, k) = maps[b][k].value
<1> DEFINE e == [i \in {b} |-> maps[i][k].value]
<1>1. e[b] = maps[b][k].value
  OBVIOUS
<1>2. b \in 1 .. Len(maps) /\ k \in DOMAIN maps[b]
  BY StashFacts DEF Holding
<1>3. e[b] \in Int
  BY <1>1, <1>2 DEF ValuesInv
<1>4. \A i \in Holding(c, k) : e[i] = maps[i][k].value
  OBVIOUS
<1> HIDE DEF e
<1>5. SumFunctionOnSet(e, Holding(c, k)) = InStash(c, k)
  BY <1>4, StashSum
<1> QED
  BY <1>1, <1>3, <1>5, SumOfOne

\* Where no reset was seen, the merged accumulation counts the whole stash.
LEMMA MergedValue ==
  ASSUME StartsInv, ValuesInv, NEW c \in Readers, NEW k, Holding(c, k) # {}
  PROVE  /\ Merged(c, k).acc.value \in Int
         /\ k \notin wasReset =>
              /\ Merged(c, k).acc.value = InStash(c, k)
              /\ Merged(c, k).acc.reset = FALSE
<1> DEFINE e == [i \in Holding(c, k) |-> maps[i][k].value]
           since == {i \in Holding(c, k) : i >= Base(c, k)}
<1>1. /\ Merged(c, k).acc.value = SumFunctionOnSet(e, since)
      /\ Merged(c, k).acc.reset
           = (maps[Base(c, k)][k].reset /\ Base(c, k) = Max(Holding(c, k)))
  BY DEF Merged, MergedAcc, StashTotal
<1>2. /\ Holding(c, k) \subseteq Stash(c) /\ Holding(c, k) \subseteq Nat
      /\ Holding(c, k) \subseteq 1 .. Len(maps)
      /\ since \subseteq Holding(c, k)
  BY StashFacts DEF Holding
<1>3. IsFiniteSet(Holding(c, k)) /\ IsFiniteSet(since)
  BY <1>2, StashFacts, FS_Subset
<1>4. \A i \in Holding(c, k) : e[i] = maps[i][k].value /\ e[i] \in Int
  BY <1>2 DEF ValuesInv, Holding
<1>5. SumFunctionOnSet(e, Holding(c, k)) = InStash(c, k)
  <2> HIDE DEF e
  <2> QED
    BY <1>4, StashSum
<1>6. SumFunctionOnSet(e, since) \in Int
  <2> HIDE DEF e, since
  <2> QED
    BY <1>2, <1>3, <1>4, SumIsInt
<1>7. ASSUME k \notin wasReset
      PROVE  since = Holding(c, k) /\ Merged(c, k).acc.reset = FALSE
  <2>1. \A i \in Holding(c, k) : ~maps[i][k].reset
    BY <1>2, <1>7 DEF Holding, StartsInv, MapsInv
  <2>2. Resets(c, k) = {} /\ Base(c, k) = Min(Holding(c, k))
    BY <2>1 DEF Resets, Base
  <2>3. PICK m \in Holding(c, k) : \A i \in Holding(c, k) : m <= i
    BY <1>2, NatHasLeast
  <2>4. Min(Holding(c, k)) \in Holding(c, k)
        /\ \A i \in Holding(c, k) : Min(Holding(c, k)) <= i
    BY <2>3 DEF Min
  <2>5. since = Holding(c, k)
    BY <1>2, <2>2, <2>4
  <2>6. ~maps[Base(c, k)][k].reset
    BY <2>1, <2>2, <2>4
  <2> QED
    BY <1>1, <2>5, <2>6
<1> QED
  BY <1>1, <1>5, <1>6, <1>7

----------------------------------------------------------------------------
(* What a measurement adds.                                                 *)

SumsInv == ValuesInv /\ ToldInv /\ HistoryInv /\ SumInv

\* The objects a cumulative collector's history refers to were taken.
LEMMA HeldIsTaken ==
  ASSUME StartsInv, StreamsInv, NEW c \in Readers,
         temporality[c] = "cumulative", NEW k \in Known(c),
         history[c].points[k].at # 0
  PROVE  /\ history[c].points[k].at \in 1 .. Len(maps)
         /\ history[c].points[k].at # Len(maps)
         /\ history[c].points[k].at <= taken[c]
         /\ k \in DOMAIN maps[history[c].points[k].at]
<1>1. /\ IsFirstWith(history[c].points[k].at, k)
      /\ history[c].points[k].at <= taken[c]
  BY DEF StreamsInv, StreamInv
<1>2. taken[c] \in Nat /\ taken[c] < Len(maps) /\ Len(maps) \in Nat
  BY DEF StartsInv, TypeInv, TimesInv, MapsInv, IsLog
<1> QED
  BY <1>1, <1>2 DEF IsFirstWith

LEMMA KeptIsInt ==
  ASSUME StartsInv, ValuesInv, ToldInv, NEW c \in Readers, NEW k
  PROVE  ToldValue(c, k) \in Int /\ Kept(c, k) \in Int
<1>1. ToldValue(c, k) \in Int
  BY DEF ToldValue, ToldInv
<1> QED
  BY <1>1, PartsAreInt DEF Kept

LEMMA MeasureKept ==
  ASSUME StartsInv, ValuesInv, NEW key \in Keys, NEW acc, acc.value \in Int,
         ToldInv, maps' = ActiveWith(key, acc), taken' = taken, told' = told
  PROVE  /\ \A i \in 1 .. Len(maps') : \A k \in DOMAIN maps'[i] :
              maps'[i][k].value \in Int
         /\ \A c \in Readers, k \in Keys :
              /\ Kept(c, k)' = Kept(c, k)
                     + (IF k = key THEN acc.value - Part(Len(maps), key) ELSE 0)
              /\ Holding(c, k)' = Holding(c, k)
                                    \cup (IF k = key THEN {Len(maps)} ELSE {})
<1> DEFINE n == Len(maps)
<1>1. IsLog /\ n \in Nat /\ n >= 1
  BY DEF StartsInv, MapsInv, IsLog
<1>2. /\ Len(maps') = n
      /\ \A i \in 1 .. n :
           DOMAIN maps'[i] = DOMAIN maps[i] \cup (IF i = n THEN {key} ELSE {})
      /\ \A i \in 1 .. n : \A k \in DOMAIN maps'[i] :
           maps'[i][k] = IF i = n /\ k = key THEN acc ELSE maps[i][k]
  BY <1>1, ActiveWithFacts
<1>3. \A i \in 1 .. Len(maps') : \A k \in DOMAIN maps'[i] :
        maps'[i][k].value \in Int
  BY <1>2 DEF ValuesInv
<1>4. ASSUME NEW c \in Readers, NEW k \in Keys
      PROVE  /\ Stash(c)' = Stash(c)
             /\ Parts(c, k)' = [i \in Stash(c) |->
                  IF i = n /\ k = key THEN acc.value ELSE Part(i, k)]
             /\ Holding(c, k)' = Holding(c, k)
                                   \cup (IF k = key THEN {n} ELSE {})
  <2>1. Stash(c)' = Stash(c)
    BY <1>2 DEF Stash
  <2>2. Stash(c) \subseteq 1 .. n /\ n \in Stash(c)
    BY StashFacts
  <2>3. \A i \in Stash(c) :
          Part(i, k)' = IF i = n /\ k = key THEN acc.value ELSE Part(i, k)
    BY <1>2, <2>2 DEF Part
  <2>4. Holding(c, k)' = Holding(c, k) \cup (IF k = key THEN {n} ELSE {})
    BY <1>2, <2>1, <2>2 DEF Holding
  <2> QED
    BY <2>1, <2>3, <2>4 DEF Parts
<1>5. ASSUME NEW c \in Readers, NEW k \in Keys
      PROVE  Kept(c, k)' = Kept(c, k)
               + (IF k = key THEN acc.value - Part(n, key) ELSE 0)
  <2> DEFINE new == [i \in Stash(c) |->
               IF i = n /\ k = key THEN acc.value ELSE Part(i, k)]
  <2>1. InStash(c, k)' = SumFunctionOnSet(new, Stash(c))
    BY <1>4 DEF InStash
  <2>2. /\ \A i \in Stash(c) : Parts(c, k)[i] = Part(i, k) /\ Part(i, k) \in Int
        /\ InStash(c, k) \in Int
    BY PartsAreInt
  <2>3. n \in Stash(c) /\ IsFiniteSet(Stash(c))
    BY StashFacts
  <2>4. new[n] = (IF k = key THEN acc.value ELSE Part(n, k))
        /\ \A i \in Stash(c) \ {n} : new[i] = Parts(c, k)[i]
    BY <2>2, <2>3
  <2>5. new[n] \in Int
    BY <2>2, <2>3, <2>4
  <2> HIDE DEF new
  <2>6. SumFunctionOnSet(new, Stash(c)) = InStash(c, k) + new[n] - Parts(c, k)[n]
    BY <2>2, <2>3, <2>4, <2>5, SumWithChange DEF InStash
  <2>7. ToldValue(c, k)' = ToldValue(c, k) /\ ToldValue(c, k) \in Int
    BY DEF ToldValue, ToldInv
  <2>8. ToldValue(c, k) + InStash(c, k) = Kept(c, k)
    BY DEF Kept
  <2>9. InStash(c, k)' = InStash(c, k)
          + (IF k = key THEN acc.value - Part(n, key) ELSE 0)
    BY <2>1, <2>2, <2>3, <2>4, <2>5, <2>6
  <2>10. Kept(c, k)' = ToldValue(c, k) + InStash(c, k)'
    BY <2>7 DEF Kept
  <2> QED
    BY <2>2, <2>3, <2>7, <2>8, <2>9, <2>10
<1> QED
  BY <1>3, <1>4, <1>5

\* A measurement changes nothing that was told.
LEMMA MeasureTold ==
  ASSUME StartsInv, StreamsInv, ToldInv, HistoryInv, NEW key, NEW acc,
         maps' = ActiveWith(key, acc), wasReset \subseteq wasReset',
         history' = history, told' = told, temporality' = temporality
  PROVE  ToldInv' /\ HistoryInv'
<1>1. \A i \in 1 .. Len(maps) : i # Len(maps) => maps'[i] = maps[i]
  BY DEF ActiveWith, StartsInv, MapsInv, IsLog
<1>2. \A c : Known(c)' = Known(c)
  BY DEF Known
<1>3. ASSUME NEW c \in Readers, temporality[c] = "cumulative", NEW k \in Known(c)
      PROVE  Held(history[c].points[k], k)' = Held(history[c].points[k], k)
  <2>1. CASE history[c].points[k].at = 0
    BY <2>1 DEF Held
  <2>2. CASE history[c].points[k].at # 0
    BY <1>1, <1>3, <2>2, HeldIsTaken DEF Held
  <2> QED
    BY <2>1, <2>2
<1>4. ToldInv'
  BY <1>2 DEF ToldInv
<1>5. HistoryInv'
  BY <1>2, <1>3 DEF HistoryInv
<1> QED
  BY <1>4, <1>5

LEMMA CountedIsInt ==
  ASSUME NEW v \in Values
  PROVE  Counted(v) \in Int
  BY StorageAssumption DEF Counted

LEMMA RecordAdds ==
  ASSUME StartsInv, ValuesInv, NEW k \in Attributes, NEW v \in Values, Record(k, v)
  PROVE  \E key, acc :
           /\ key \in Keys
           /\ maps' = ActiveWith(key, acc)
           /\ acc.value \in Int
           /\ acc.value - Part(Len(maps), key) = Counted(v)
<1> DEFINE key == KeyIn(Active, k)
           total == Active[key].value + Counted(v)
           acc == IF key \in DOMAIN Active
                  THEN [Active[key] EXCEPT !.value = total]
                  ELSE Accumulation(clock, v)
<1>1. maps' = ActiveWith(key, acc)
  BY DEF Record
<1>2. key \in Keys
  BY DEF KeyIn, Keys
<1>3. Counted(v) \in Int /\ Len(maps) \in 1 .. Len(maps)
  BY CountedIsInt DEF StartsInv, MapsInv, IsLog
<1> HIDE DEF key, total
<1>4. CASE key \in DOMAIN Active
  <2>1. IsAcc(Active[key]) /\ Active[key].value \in Int
    BY <1>3, <1>4, ActiveFacts DEF StartsInv, ValuesInv, Active
  <2>2. acc = [Active[key] EXCEPT !.value = total]
    BY <1>4
  <2> HIDE DEF acc
  <2>3. acc.value = total
    BY <2>1, <2>2 DEF IsAcc
  <2>4. Part(Len(maps), key) = Active[key].value
    BY <1>4 DEF Part, Active
  <2>5. acc.value \in Int /\ acc.value - Part(Len(maps), key) = Counted(v)
    BY <1>3, <2>1, <2>3, <2>4 DEF total
  <2> QED
    BY <1>1, <1>2, <2>5
<1>5. CASE key \notin DOMAIN Active
  <2>1. acc = [start |-> clock, first |-> clock, value |-> Counted(v),
               reset |-> FALSE]
    BY <1>5 DEF Accumulation
  <2>2. Part(Len(maps), key) = 0
    BY <1>5 DEF Part, Active
  <2> HIDE DEF acc
  <2>3. acc.value = Counted(v)
    BY <2>1
  <2>4. acc.value \in Int /\ acc.value - Part(Len(maps), key) = Counted(v)
    BY <1>3, <2>2, <2>3
  <2> QED
    BY <1>1, <1>2, <2>4
<1> QED
  BY <1>4, <1>5

\* What is recorded of a counter is added to what every collector has to tell.
LEMMA RecordSums ==
  ASSUME StartsInv, StreamsInv, SumsInv,
         NEW k \in Attributes, NEW v \in Values, Record(k, v)
  PROVE  SumsInv'
<1>0. ValuesInv /\ ToldInv /\ HistoryInv /\ SumInv
  BY DEF SumsInv
<1>1. PICK key, acc : /\ key \in Keys
                     /\ maps' = ActiveWith(key, acc)
                     /\ acc.value \in Int
                     /\ acc.value - Part(Len(maps), key) = Counted(v)
  BY <1>0, RecordAdds
<1>2. /\ ~instrument.async /\ instrument' = instrument
      /\ temporality' = temporality
      /\ recorded' = [recorded EXCEPT ![k] = @ + Counted(v)]
      /\ memo' = memo /\ taken' = taken /\ history' = history
      /\ told' = told /\ wasReset' = wasReset
  BY DEF Record, setup
<1>3. /\ \A i \in 1 .. Len(maps') : \A j \in DOMAIN maps'[i] :
           maps'[i][j].value \in Int
      /\ \A c \in Readers, j \in Keys : Kept(c, j)' = Kept(c, j)
           + (IF j = key THEN acc.value - Part(Len(maps), key) ELSE 0)
  BY <1>0, <1>1, <1>2, MeasureKept
<1>4. Counted(v) \in Int
  BY CountedIsInt
<1>5. recorded \in [Attributes -> Int] /\ recorded' \in [Attributes -> Int]
  BY <1>0, <1>2, <1>4 DEF ValuesInv
<1>6. ValuesInv'
  BY <1>0, <1>2, <1>3, <1>5 DEF ValuesInv
<1>7. ToldInv' /\ HistoryInv'
  BY <1>0, <1>1, <1>2, MeasureTold
<1>8. Total(recorded)' = Total(recorded) + Counted(v)
  <2>1. IsFiniteSet(Attributes)
    BY StorageAssumption
  <2>2. /\ \A x \in Attributes : recorded[x] \in Int
        /\ recorded'[k] = recorded[k] + Counted(v) /\ recorded'[k] \in Int
        /\ \A x \in Attributes \ {k} : recorded'[x] = recorded[x]
    BY <1>2, <1>5
  <2>3. SumFunctionOnSet(recorded', Attributes)
          = SumFunctionOnSet(recorded, Attributes) + recorded'[k] - recorded[k]
    BY <2>1, <2>2, SumWithChange
  <2>4. SumFunctionOnSet(recorded, Attributes) \in Int
    BY <2>1, <2>2, SumIsInt
  <2>5. DOMAIN recorded = Attributes /\ DOMAIN recorded' = Attributes
    BY <1>5
  <2>6. /\ Total(recorded) = SumFunctionOnSet(recorded, Attributes)
        /\ Total(recorded)' = SumFunctionOnSet(recorded', Attributes)
    BY <2>5 DEF Total
  <2> QED
    BY <1>4, <2>2, <2>3, <2>4, <2>6
<1>9. ASSUME NEW c \in Readers
      PROVE  SumFunctionOnSet(KeptBy(c)', Keys)
               = SumFunctionOnSet(KeptBy(c), Keys) + Counted(v)
  <2> DEFINE f == KeptBy(c)
             e == KeptBy(c)'
  <2>1. \A j \in Keys : f[j] = Kept(c, j) /\ e[j] = Kept(c, j)' /\ f[j] \in Int
    BY <1>0, KeptIsInt DEF KeptBy
  <2>2. /\ e[key] = f[key] + Counted(v)
        /\ \A j \in Keys \ {key} : e[j] = f[j]
    BY <1>1, <1>3, <2>1
  <2> HIDE DEF e, f
  <2>3. f[key] \in Int /\ e[key] \in Int
    BY <1>1, <1>4, <2>1, <2>2
  <2>4. SumFunctionOnSet(e, Keys) = SumFunctionOnSet(f, Keys) + e[key] - f[key]
    BY <1>1, <2>1, <2>2, <2>3, KeysFinite, SumWithChange
  <2>5. SumFunctionOnSet(f, Keys) \in Int
    BY <2>1, KeysFinite, SumIsInt
  <2>6. SumFunctionOnSet(e, Keys) = SumFunctionOnSet(f, Keys) + Counted(v)
    BY <1>4, <2>2, <2>3, <2>4, <2>5
  <2> QED
    BY <2>6 DEF e, f
<1>10. SumInv'
  BY <1>0, <1>2, <1>8, <1>9 DEF SumInv
<1> QED
  BY <1>6, <1>7, <1>10 DEF SumsInv

\* What an observation puts into the active map and the memo.
LEMMA ObserveAdds ==
  ASSUME StartsInv, ValuesInv, NEW r \in Readers, NEW callback,
         NEW k \in Attributes, NEW v \in Values, Observe(r, callback, k, v)
  PROVE  \E key, acc :
           /\ key \in Keys
           /\ maps' = ActiveWith(key, acc)
           /\ acc.value \in Int
           /\ wasReset' \in {wasReset, wasReset \cup {key}}
           /\ memo' = Put(memo, key, Counted(v))
           /\ key \notin wasReset' =>
                acc.value - Part(Len(maps), key) = Counted(v) - Observed(key)
<1> DEFINE time == collection[r].time
           key == KeyIn(memo, k)
           observed == Accumulation(time, v)
           seen == key \in DOMAIN memo
           drops == Drops(memo[key], observed)
           delta == IF seen THEN Diff(memo[key], observed) ELSE observed
           acc == IF key \in DOMAIN Active THEN Merge(Active[key], delta)
                                           ELSE delta
<1>1. /\ maps' = ActiveWith(key, acc)
      /\ memo' = Put(memo, key, observed.value)
      /\ wasReset' = IF seen /\ drops THEN wasReset \cup {key} ELSE wasReset
  BY DEF Observe, BatchCumulate
<1>2. key \in Keys
  BY DEF KeyIn, Keys
<1>3. Counted(v) \in Int /\ Len(maps) \in 1 .. Len(maps)
  BY CountedIsInt DEF StartsInv, MapsInv, IsLog
<1>4. observed = [start |-> time, first |-> clock, value |-> Counted(v),
                  reset |-> FALSE]
  BY DEF Accumulation
<1>5. seen => memo[key] \in Int
  BY DEF ValuesInv
<1> HIDE DEF observed, time, key, drops
<1>6. /\ delta.value = (IF seen /\ ~drops THEN Counted(v) - memo[key]
                                          ELSE Counted(v))
      /\ delta.reset = (seen /\ drops)
  <2>1. CASE ~seen
    BY <1>4, <2>1
  <2>2. CASE seen /\ drops
    BY <1>4, <2>2 DEF Diff, drops
  <2>3. CASE seen /\ ~drops
    BY <1>4, <2>3 DEF Diff, drops
  <2> QED
    BY <2>1, <2>2, <2>3
<1> HIDE DEF delta
<1>7. delta.value \in Int
  BY <1>3, <1>5, <1>6
<1>8. key \notin wasReset' => ~delta.reset /\ delta.value = Counted(v) - Observed(key)
  <2> SUFFICES ASSUME key \notin wasReset'
               PROVE  ~delta.reset /\ delta.value = Counted(v) - Observed(key)
    OBVIOUS
  <2>1. ~(seen /\ drops)
    BY <1>1
  <2>2. CASE seen
    <3>1. delta.value = Counted(v) - memo[key] /\ ~delta.reset
      BY <1>6, <2>1, <2>2
    <3>2. Observed(key) = memo[key]
      BY <2>2 DEF Observed
    <3> QED
      BY <3>1, <3>2
  <2>3. CASE ~seen
    <3>1. delta.value = Counted(v) /\ ~delta.reset
      BY <1>6, <2>3
    <3>2. Observed(key) = 0
      BY <2>3 DEF Observed
    <3> QED
      BY <1>3, <3>1, <3>2
  <2> QED
    BY <2>2, <2>3
<1>9. wasReset' \in {wasReset, wasReset \cup {key}}
  BY <1>1
<1>10. memo' = Put(memo, key, Counted(v))
  BY <1>1, <1>4
<1> HIDE DEF seen
<1>11. CASE key \in DOMAIN Active
  <2>1. Active[key].value \in Int /\ Part(Len(maps), key) = Active[key].value
    BY <1>3, <1>11 DEF ValuesInv, Active, Part
  <2>2. acc = Merge(Active[key], delta)
    BY <1>11
  <2> HIDE DEF acc
  <2>3. acc.value = IF delta.reset THEN delta.value
                    ELSE Active[key].value + delta.value
    BY <2>2 DEF Merge
  <2>4. acc.value \in Int
    BY <1>7, <2>1, <2>3
  <2>5. key \notin wasReset' =>
          acc.value - Part(Len(maps), key) = Counted(v) - Observed(key)
    BY <1>7, <1>8, <2>1, <2>3
  <2> QED
    BY <1>1, <1>2, <1>9, <1>10, <2>4, <2>5
<1>12. CASE key \notin DOMAIN Active
  <2>1. Part(Len(maps), key) = 0
    BY <1>12 DEF Active, Part
  <2>2. acc = delta
    BY <1>12
  <2> HIDE DEF acc
  <2>3. key \notin wasReset' =>
          acc.value - Part(Len(maps), key) = Counted(v) - Observed(key)
    BY <1>7, <1>8, <2>1, <2>2
  <2> QED
    BY <1>1, <1>2, <1>7, <1>9, <1>10, <2>2, <2>3
<1> QED
  BY <1>11, <1>12

\* The delta of an observation brings every collector to the value observed.
LEMMA ObserveSums ==
  ASSUME StartsInv, StreamsInv, CallbacksInv, SumsInv,
         NEW r \in Readers, NEW callback,
         NEW k \in Attributes, NEW v \in Values, Observe(r, callback, k, v)
  PROVE  SumsInv'
<1>0. ValuesInv /\ ToldInv /\ HistoryInv /\ SumInv
  BY DEF SumsInv
<1>1. PICK key, acc :
        /\ key \in Keys
        /\ maps' = ActiveWith(key, acc)
        /\ acc.value \in Int
        /\ wasReset' \in {wasReset, wasReset \cup {key}}
        /\ memo' = Put(memo, key, Counted(v))
        /\ key \notin wasReset' =>
             acc.value - Part(Len(maps), key) = Counted(v) - Observed(key)
  BY <1>0, ObserveAdds
<1>2. /\ instrument.async /\ instrument' = instrument
      /\ temporality' = temporality /\ recorded' = recorded
      /\ taken' = taken /\ history' = history /\ told' = told
      /\ wasReset \subseteq wasReset'
  BY <1>1 DEF Observe, setup, CallbacksInv
<1>3. /\ \A i \in 1 .. Len(maps') : \A j \in DOMAIN maps'[i] :
           maps'[i][j].value \in Int
      /\ \A c \in Readers, j \in Keys :
           /\ Kept(c, j)' = Kept(c, j)
                + (IF j = key THEN acc.value - Part(Len(maps), key) ELSE 0)
           /\ Holding(c, j)' = Holding(c, j)
                                 \cup (IF j = key THEN {Len(maps)} ELSE {})
  BY <1>0, <1>1, <1>2, MeasureKept
<1>4. Counted(v) \in Int
  BY CountedIsInt
<1>5. /\ DOMAIN memo' = DOMAIN memo \cup {key}
      /\ \A j \in DOMAIN memo' :
           memo'[j] = IF j = key THEN Counted(v) ELSE memo[j]
  BY <1>1 DEF Put
<1>6. ValuesInv'
  BY <1>0, <1>1, <1>2, <1>3, <1>4, <1>5 DEF ValuesInv
<1>7. ToldInv' /\ HistoryInv'
  BY <1>0, <1>1, <1>2, MeasureTold
<1>8. ASSUME NEW c \in Readers, NEW j \in Keys, j \notin wasReset'
      PROVE  /\ Kept(c, j)' = Observed(j)'
             /\ j \in DOMAIN memo' => j \in DOMAIN told'[c] \/ Holding(c, j)' # {}
  <2>1. /\ Kept(c, j) = Observed(j)
        /\ j \in DOMAIN memo => j \in DOMAIN told[c] \/ Holding(c, j) # {}
    BY <1>0, <1>2, <1>8 DEF SumInv
  <2>2. CASE j = key
    <3>1. Observed(j)' = Counted(v) /\ Holding(c, j)' # {}
      BY <1>3, <1>5, <2>2 DEF Observed
    <3>2. Kept(c, j)' = Kept(c, j) + (Counted(v) - Observed(j))
      BY <1>1, <1>3, <1>8, <2>2
    <3>3. Kept(c, j) \in Int
      BY <1>0, KeptIsInt
    <3> QED
      BY <1>4, <2>1, <3>1, <3>2, <3>3
  <2>3. CASE j # key
    <3>1. Observed(j)' = Observed(j)
      BY <1>5, <2>3 DEF Observed
    <3>2. Kept(c, j) \in Int
      BY <1>0, KeptIsInt
    <3>3. Kept(c, j)' = Kept(c, j) /\ Holding(c, j)' = Holding(c, j)
      <4>1. Kept(c, j)' = Kept(c, j) + 0 /\ Holding(c, j)' = Holding(c, j) \cup {}
        BY <1>3, <2>3
      <4> QED
        BY <3>2, <4>1
    <3>4. Kept(c, j)' = Observed(j)'
      BY <2>1, <3>1, <3>3
    <3>5. j \in DOMAIN memo' => j \in DOMAIN told'[c] \/ Holding(c, j)' # {}
      BY <1>2, <1>5, <2>1, <2>3, <3>3
    <3> QED
      BY <3>4, <3>5
  <2> QED
    BY <2>2, <2>3
<1>9. SumInv'
  BY <1>2, <1>8 DEF SumInv
<1> QED
  BY <1>6, <1>7, <1>9 DEF SumsInv

----------------------------------------------------------------------------
(* What a collection tells.                                                 *)

\* A collection changes no value.
LEMMA CollectedValues ==
  ASSUME StartsInv, NEW d \in Readers,
         maps' = Append(MapsCalibrated(d), Empty)
  PROVE  /\ Len(maps') = Len(maps) + 1
         /\ DOMAIN maps'[Len(maps) + 1] = {}
         /\ \A i \in 1 .. Len(maps) : DOMAIN maps'[i] = DOMAIN maps[i]
         /\ \A i \in 1 .. Len(maps) : \A k \in DOMAIN maps[i] :
              maps'[i][k].value = maps[i][k].value
<1>1. TypeInv /\ MapsInv /\ TimesInv
  BY DEF StartsInv
<1>2. /\ Len(maps') = Len(maps) + 1
      /\ DOMAIN maps'[Len(maps) + 1] = {}
      /\ \A i \in 1 .. Len(maps) : DOMAIN maps'[i] = DOMAIN maps[i]
      /\ \A i \in 1 .. Len(maps) : \A k \in DOMAIN maps[i] :
           maps'[i][k] = IF k \in Calibrated(d) /\ Holding(d, k) = {i}
                         THEN StartsAt(maps[i][k], history[d].time)
                         ELSE maps[i][k]
  BY <1>1, CollectedFacts
<1>3. ASSUME NEW i \in 1 .. Len(maps), NEW k \in DOMAIN maps[i]
      PROVE  maps'[i][k].value = maps[i][k].value
  <2>1. IsAcc(maps[i][k]) /\ history[d].time \in Int
    BY <1>1 DEF MapsInv, TimesInv
  <2>2. StartsAt(maps[i][k], history[d].time).value = maps[i][k].value
    BY <2>1, StartsAtFacts
  <2> QED
    BY <1>2, <2>2
<1> QED
  BY <1>2, <1>3

\* A collection leaves the stashes of the others what they hold.
LEMMA CollectedStash ==
  ASSUME StartsInv, ValuesInv, NEW d \in Readers,
         maps' = Append(MapsCalibrated(d), Empty),
         taken' = [taken EXCEPT ![d] = Len(maps)],
         NEW c \in Readers, NEW k
  PROVE  /\ InStash(c, k)' = IF c = d THEN 0 ELSE InStash(c, k)
         /\ Holding(c, k)' = IF c = d THEN {} ELSE Holding(c, k)
<1> DEFINE f == Parts(c, k)'
<1>0. PICK n \in Nat : n = Len(maps)
  BY DEF StartsInv, MapsInv, IsLog
<1>1. /\ taken[c] \in Nat /\ taken[c] < n
      /\ taken'[c] = IF c = d THEN n ELSE taken[c]
  BY <1>0 DEF StartsInv, TypeInv, TimesInv
<1>2. /\ Len(maps') = n + 1
      /\ DOMAIN maps'[n + 1] = {}
      /\ \A i \in 1 .. n : DOMAIN maps'[i] = DOMAIN maps[i]
      /\ \A i \in 1 .. n : \A j \in DOMAIN maps[i] :
           maps'[i][j].value = maps[i][j].value
  BY <1>0, CollectedValues
<1>3. /\ Part(n + 1, k)' = 0
      /\ \A i \in 1 .. n : Part(i, k)' = Part(i, k)
  BY <1>2 DEF Part
<1>4. /\ n + 1 \notin Stash(c) /\ Stash(c) \subseteq 1 .. n
      /\ Stash(c)' = IF c = d THEN {n + 1} ELSE Stash(c) \cup {n + 1}
  <2>1. /\ Stash(c) = taken[c] + 1 .. n
        /\ Stash(c)' = taken'[c] + 1 .. n + 1
    BY <1>0, <1>2 DEF Stash
  <2>2. taken[c] + 1 .. n + 1 = (taken[c] + 1 .. n) \cup {n + 1}
    BY <1>0, <1>1
  <2>3. n + 1 .. n + 1 = {n + 1}
    BY <1>0
  <2>4. n + 1 \notin Stash(c) /\ Stash(c) \subseteq 1 .. n
    BY <1>0, <1>1, <2>1
  <2> QED
    BY <1>1, <2>1, <2>2, <2>3, <2>4
<1>5. \A i \in Stash(c)' : f[i] = Part(i, k)'
  BY DEF Parts
<1>6. InStash(c, k)' = SumFunctionOnSet(f, Stash(c)')
  BY DEF InStash
<1> HIDE DEF f
<1>7. CASE c = d
  <2>1. Stash(c)' = {n + 1}
    BY <1>4, <1>7
  <2>2. f[n + 1] = 0 /\ f[n + 1] \in Int
    BY <1>3, <1>5, <2>1
  <2>3. SumFunctionOnSet(f, {n + 1}) = 0
    BY <2>2, SumOfOne
  <2>4. Holding(c, k)' = {}
    BY <1>2, <2>1 DEF Holding
  <2> QED
    BY <1>6, <1>7, <2>1, <2>3, <2>4
<1>8. CASE c # d
  <2>1. Stash(c)' = Stash(c) \cup {n + 1}
    BY <1>4, <1>8
  <2>2. IsFiniteSet(Stash(c)) /\ IsFiniteSet(Stash(c) \cup {n + 1})
    BY StashFacts, FS_AddElement
  <2>3. \A i \in Stash(c) : Parts(c, k)[i] = Part(i, k) /\ Part(i, k) \in Int
    BY PartsAreInt
  <2>4. /\ \A i \in Stash(c) : Parts(c, k)[i] = f[i] /\ f[i] \in Int
        /\ f[n + 1] = 0
    BY <1>3, <1>4, <1>5, <2>1, <2>3
  <2>5. SumFunctionOnSet(Parts(c, k), Stash(c))
          = SumFunctionOnSet(f, Stash(c) \cup {n + 1})
    BY <2>2, <2>4, SumExtended
  <2>6. Holding(c, k)' = Holding(c, k)
    BY <1>2, <1>4, <2>1 DEF Holding
  <2> QED
    BY <1>6, <1>8, <2>1, <2>5, <2>6 DEF InStash
<1> QED
  BY <1>7, <1>8

LEMMA HeldIsInt ==
  ASSUME StartsInv, StreamsInv, ValuesInv, ToldInv, NEW c \in Readers,
         temporality[c] = "cumulative", NEW k \in Known(c)
  PROVE  Held(history[c].points[k], k).value \in Int
<1>1. CASE history[c].points[k].at = 0
  BY <1>1 DEF Held, ToldInv
<1>2. CASE history[c].points[k].at # 0
  BY <1>2, HeldIsTaken DEF Held, ValuesInv
<1> QED
  BY <1>1, <1>2

LEMMA NewPointValue ==
  ASSUME StartsInv, NEW d \in Readers, NEW k, Holding(d, k) # {}
  PROVE  NewPoint(d, k).acc.value = Merged(d, k).acc.value
<1>1. /\ Merged(d, k) = [at |-> Merged(d, k).at, acc |-> Merged(d, k).acc]
      /\ IsAcc(Merged(d, k).acc)
      /\ history[d].time \in Int
  <2>1. MapsInv /\ taken[d] \in Nat /\ history[d].time \in Int
    BY DEF StartsInv, TypeInv, TimesInv
  <2> QED
    BY <2>1, MergedFacts
<1> DEFINE moved == StartsAt(Merged(d, k).acc, history[d].time)
<1>2. moved.value = Merged(d, k).acc.value
  BY <1>1, StartsAtFacts
<1>3. NewPoint(d, k) = IF k \in Calibrated(d)
                       THEN [Merged(d, k) EXCEPT !.acc = moved]
                       ELSE Merged(d, k)
  BY DEF NewPoint
<1> HIDE DEF moved
<1>4. [Merged(d, k) EXCEPT !.acc = moved].acc = moved
  BY <1>1, Zenon
<1> QED
  BY <1>2, <1>3, <1>4

\* A collector's points: a delta is what its stash holds, a cumulative one is
\* what it was told and what its stash holds.
LEMMA PointsValue ==
  ASSUME StartsInv, StreamsInv, SumsInv, NEW d \in Readers
  PROVE  /\ DOMAIN Points(d) \subseteq Keys
         /\ DOMAIN told[d] \cup DOMAIN Points(d) = DOMAIN told[d] \cup Unreported(d)
         /\ Unreported(d) \subseteq DOMAIN Points(d)
         /\ temporality[d] = "cumulative" => DOMAIN told[d] \subseteq DOMAIN Points(d)
         /\ \A k \in DOMAIN Points(d) :
              /\ Points(d)[k].acc.value \in Int
              /\ k \notin wasReset =>
                   Points(d)[k].acc.value = IF temporality[d] = "delta"
                                            THEN InStash(d, k) ELSE Kept(d, k)
<1>0. /\ ValuesInv /\ ToldInv /\ HistoryInv /\ StreamInv(d)
      /\ temporality[d] \in {"delta", "cumulative"}
  BY DEF SumsInv, StreamsInv, StartsInv, TypeInv
<1>1. \A k \in Unreported(d) : k \in Keys /\ Holding(d, k) # {}
  BY DEF Unreported
<1>2. \A k \in Keys \ Unreported(d) : InStash(d, k) = 0
  BY <1>0, NothingHeld DEF Unreported
<1>3. CASE temporality[d] = "delta"
  <2>1. Points(d) = [k \in Unreported(d) |-> NewPoint(d, k)]
    BY <1>3 DEF Points
  <2>2. \A k \in Unreported(d) : Points(d)[k].acc.value = Merged(d, k).acc.value
    BY <1>1, <2>1, NewPointValue
  <2>3. \A k \in Unreported(d) : /\ Merged(d, k).acc.value \in Int
                                 /\ k \notin wasReset =>
                                      Merged(d, k).acc.value = InStash(d, k)
    BY <1>0, <1>1, MergedValue
  <2> QED
    BY <1>1, <1>3, <2>1, <2>2, <2>3
<1>4. CASE temporality[d] = "cumulative"
  <2>1. /\ DOMAIN Points(d) = Unreported(d) \cup Known(d)
        /\ \A k \in DOMAIN Points(d) :
              /\ k \notin Known(d) => k \in Unreported(d) /\ Points(d)[k] = Merged(d, k)
              /\ k \in Known(d) =>
                   /\ HasReported(d)
                   /\ Points(d)[k] =
                        IF k \notin Unreported(d) THEN history[d].points[k]
                        ELSE [at |-> 0, acc |-> Merge(
                               Held(history[d].points[k], k), Merged(d, k).acc)]
    BY <1>0, <1>4, CumulativePoints
  <2>2. Known(d) = DOMAIN told[d] /\ Known(d) \subseteq Keys
    BY <1>0, <1>4 DEF HistoryInv, ToldInv
  <2>3. ASSUME NEW k \in DOMAIN Points(d)
        PROVE  /\ Points(d)[k].acc.value \in Int
               /\ k \notin wasReset => Points(d)[k].acc.value = Kept(d, k)
    <3>1. CASE k \notin Known(d)
      <4>1. /\ Points(d)[k].acc.value \in Int
            /\ k \notin wasReset => Points(d)[k].acc.value = InStash(d, k)
        BY <1>0, <1>1, <2>1, <2>3, <3>1, MergedValue
      <4>2. ToldValue(d, k) = 0 /\ InStash(d, k) \in Int
        BY <1>0, <2>2, <3>1, PartsAreInt DEF ToldValue
      <4> QED
        BY <4>1, <4>2 DEF Kept
    <3>2. CASE k \in Known(d) /\ k \notin Unreported(d)
      <4>1. /\ Points(d)[k].acc.value \in Int
            /\ k \notin wasReset => Points(d)[k].acc.value = ToldValue(d, k)
        <5>1. Points(d)[k] = history[d].points[k]
          BY <2>1, <2>3, <3>2
        <5> QED
          BY <1>0, <1>4, <2>2, <3>2, <5>1 DEF ToldInv, HistoryInv, ToldValue
      <4>2. InStash(d, k) = 0 /\ ToldValue(d, k) \in Int
        BY <1>0, <1>2, <2>2, <3>2, KeptIsInt
      <4> QED
        BY <4>1, <4>2 DEF Kept
    <3>3. CASE k \in Known(d) /\ k \in Unreported(d)
      <4> DEFINE held == Held(history[d].points[k], k)
                 merged == Merged(d, k).acc
      <4>1. Points(d)[k] = [at |-> 0, acc |-> Merge(held, merged)]
        BY <2>1, <2>3, <3>3
      <4>2. /\ merged.value \in Int
            /\ k \notin wasReset => merged.value = InStash(d, k) /\ merged.reset = FALSE
        BY <1>0, <1>1, <3>3, MergedValue
      <4>3. /\ held.value \in Int
            /\ k \notin wasReset => held.value = ToldValue(d, k)
        BY <1>0, <1>4, <2>2, <3>3, HeldIsInt DEF HistoryInv, ToldValue
      <4> HIDE DEF held, merged
      <4>4. Merge(held, merged).value =
              IF merged.reset THEN merged.value ELSE held.value + merged.value
        BY DEF Merge
      <4>5. Points(d)[k].acc = Merge(held, merged)
        BY <4>1
      <4>6. Points(d)[k].acc.value \in Int
        BY <4>2, <4>3, <4>4, <4>5
      <4>7. k \notin wasReset =>
              Points(d)[k].acc.value = ToldValue(d, k) + InStash(d, k)
        BY <4>2, <4>3, <4>4, <4>5
      <4> QED
        BY <4>6, <4>7 DEF Kept
    <3> QED
      BY <3>1, <3>2, <3>3
  <2> QED
    BY <1>1, <1>4, <2>1, <2>2, <2>3
<1> QED
  BY <1>0, <1>3, <1>4

\* After its report a collector was told what it had been told before and what
\* its stash held.
LEMMA CollectTold ==
  ASSUME StartsInv, StreamsInv, SumsInv, NEW d \in Readers,
         told'[d] = ToldAfter(d, collection[d].time, Points(d))
  PROVE  /\ DOMAIN told'[d] = DOMAIN told[d] \cup Unreported(d)
         /\ DOMAIN told'[d] \subseteq Keys
         /\ \A k \in DOMAIN told'[d] :
              /\ told'[d][k].value \in Int
              /\ k \notin wasReset => told'[d][k].value = Kept(d, k)
         /\ \A k \in Keys \ DOMAIN told'[d] : Kept(d, k) = 0
         /\ temporality[d] = "cumulative" =>
              /\ DOMAIN told'[d] = DOMAIN Points(d)
              /\ \A k \in DOMAIN Points(d) :
                   told'[d][k].value = Points(d)[k].acc.value
<1>0. /\ ValuesInv /\ ToldInv /\ HistoryInv
      /\ temporality[d] \in {"delta", "cumulative"}
  BY DEF SumsInv, StartsInv, TypeInv
<1>1. /\ DOMAIN Points(d) \subseteq Keys
      /\ DOMAIN told[d] \cup DOMAIN Points(d) = DOMAIN told[d] \cup Unreported(d)
      /\ Unreported(d) \subseteq DOMAIN Points(d)
      /\ temporality[d] = "cumulative" => DOMAIN told[d] \subseteq DOMAIN Points(d)
      /\ \A k \in DOMAIN Points(d) :
           /\ Points(d)[k].acc.value \in Int
           /\ k \notin wasReset =>
                Points(d)[k].acc.value = IF temporality[d] = "delta"
                                         THEN InStash(d, k) ELSE Kept(d, k)
  BY PointsValue
<1>2. DOMAIN told'[d] = DOMAIN told[d] \cup DOMAIN Points(d)
  BY DEF ToldAfter
<1>3. \A k \in DOMAIN told[d] \ DOMAIN Points(d) : told'[d][k] = told[d][k]
  BY DEF ToldAfter
<1>4. \A k \in DOMAIN Points(d) :
        told'[d][k].value = (IF temporality[d] = "delta" THEN ToldValue(d, k) ELSE 0)
                              + Points(d)[k].acc.value
  BY <1>0, <1>2 DEF ToldAfter, ToldValue
<1>5. \A k : ToldValue(d, k) \in Int /\ InStash(d, k) \in Int
  BY <1>0, KeptIsInt, PartsAreInt
<1>6. \A k \in Keys \ Unreported(d) : InStash(d, k) = 0
  BY <1>0, NothingHeld DEF Unreported
<1>7. DOMAIN told[d] \subseteq Keys /\ \A k \in DOMAIN told[d] : told[d][k].value \in Int
  BY <1>0 DEF ToldInv
<1>8. ASSUME NEW k \in DOMAIN told'[d]
      PROVE  /\ told'[d][k].value \in Int
             /\ k \notin wasReset => told'[d][k].value = Kept(d, k)
  <2>1. CASE k \notin DOMAIN Points(d)
    <3>1. /\ k \in DOMAIN told[d] /\ k \in Keys \ Unreported(d)
          /\ told'[d][k] = told[d][k]
      BY <1>1, <1>2, <1>3, <1>7, <1>8, <2>1
    <3>2. ToldValue(d, k) = told[d][k].value /\ InStash(d, k) = 0
      BY <1>6, <3>1 DEF ToldValue
    <3> QED
      BY <1>7, <3>1, <3>2 DEF Kept
  <2>2. CASE k \in DOMAIN Points(d) /\ temporality[d] = "delta"
    <3>1. told'[d][k].value = ToldValue(d, k) + Points(d)[k].acc.value
      BY <1>4, <2>2
    <3> QED
      BY <1>1, <1>5, <2>2, <3>1 DEF Kept
  <2>3. CASE k \in DOMAIN Points(d) /\ temporality[d] = "cumulative"
    <3>1. told'[d][k].value = 0 + Points(d)[k].acc.value
      BY <1>4, <2>3
    <3> QED
      BY <1>1, <2>3, <3>1
  <2> QED
    BY <1>0, <2>1, <2>2, <2>3
<1>9. ASSUME NEW k \in Keys, k \notin DOMAIN told'[d]
      PROVE  Kept(d, k) = 0
  <2>1. k \notin DOMAIN told[d] /\ k \notin Unreported(d)
    BY <1>1, <1>2, <1>9
  <2> QED
    BY <1>6, <2>1 DEF Kept, ToldValue
<1>10. ASSUME temporality[d] = "cumulative"
       PROVE  /\ DOMAIN told'[d] = DOMAIN Points(d)
              /\ \A k \in DOMAIN Points(d) :
                   told'[d][k].value = Points(d)[k].acc.value
  <2>1. ASSUME NEW k \in DOMAIN Points(d)
        PROVE  told'[d][k].value = Points(d)[k].acc.value
    <3>1. told'[d][k].value = 0 + Points(d)[k].acc.value
      BY <1>4, <1>10
    <3>2. Points(d)[k].acc.value \in Int
      BY <1>1
    <3> QED
      BY <3>1, <3>2
  <2>2. DOMAIN told'[d] = DOMAIN Points(d)
    BY <1>1, <1>2, <1>10
  <2> QED
    BY <2>1, <2>2
<1> QED
  BY <1>1, <1>2, <1>7, <1>8, <1>9, <1>10

\* The object a new point refers to has the value of the point.
LEMMA PointsHeld ==
  ASSUME StartsInv, StreamsInv, SumsInv, NEW d \in Readers,
         temporality[d] = "cumulative",
         maps' = Append(MapsCalibrated(d), Empty),
         NEW k \in DOMAIN Points(d), k \notin wasReset, Points(d)[k].at # 0
  PROVE  maps'[Points(d)[k].at][k].value = Points(d)[k].acc.value
<1>0. /\ ValuesInv /\ ToldInv /\ HistoryInv /\ StreamInv(d) /\ MapsInv
      /\ taken[d] \in Nat
  BY DEF SumsInv, StreamsInv, StartsInv, TypeInv
<1>1. \A i \in 1 .. Len(maps) : \A j \in DOMAIN maps[i] :
        maps'[i][j].value = maps[i][j].value
  BY CollectedValues
<1>2. /\ k \notin Known(d) => k \in Unreported(d) /\ Points(d)[k] = Merged(d, k)
      /\ k \in Known(d) => Points(d)[k] =
           IF k \notin Unreported(d) THEN history[d].points[k]
           ELSE [at |-> 0, acc |-> Merge(
                  Held(history[d].points[k], k), Merged(d, k).acc)]
  BY <1>0, CumulativePoints
<1>3. CASE k \in Known(d)
  <2>1. Points(d)[k] = history[d].points[k]
    BY <1>2, <1>3
  <2>2. /\ history[d].points[k].acc.value = told[d][k].value
        /\ Held(history[d].points[k], k).value = told[d][k].value
    BY <1>0, <1>3 DEF HistoryInv
  <2>3. /\ history[d].points[k].at \in 1 .. Len(maps)
        /\ k \in DOMAIN maps[history[d].points[k].at]
    BY <1>3, <2>1, HeldIsTaken
  <2>4. Held(history[d].points[k], k) = maps[history[d].points[k].at][k]
    BY <2>1 DEF Held
  <2> QED
    BY <1>1, <2>1, <2>2, <2>3, <2>4
<1>4. CASE k \notin Known(d)
  <2>1. Points(d)[k] = Merged(d, k) /\ Holding(d, k) # {}
    BY <1>2, <1>4 DEF Unreported
  <2>2. PICK b \in Holding(d, k) :
          Merged(d, k).at = IF Holding(d, k) = {b} THEN b ELSE 0
    BY <1>0, <2>1, MergedFacts
  <2>3. Merged(d, k).at = b /\ Holding(d, k) = {b}
    BY <2>1, <2>2
  <2>4. b \in 1 .. Len(maps) /\ k \in DOMAIN maps[b]
    BY <2>3, StashFacts DEF Holding
  <2>5. Merged(d, k).acc.value = InStash(d, k)
    BY <1>0, <2>1, MergedValue
  <2>6. InStash(d, k) = maps[b][k].value
    BY <1>0, <2>3, OneHeld
  <2>7. maps'[b][k].value = maps[b][k].value
    BY <1>1, <2>4
  <2> QED
    BY <2>1, <2>3, <2>5, <2>6, <2>7
<1> QED
  BY <1>3, <1>4

\* A collection moves what a stash holds to what its collector was told.
LEMMA CollectSums ==
  ASSUME StartsInv, StreamsInv, SumsInv, NEW d \in handles, CollectEnds(d)
  PROVE  SumsInv' /\ UpToDate(d)'
<1>0. /\ ValuesInv /\ ToldInv /\ HistoryInv /\ SumInv /\ d \in Readers
      /\ TypeInv /\ Len(maps) \in Nat
  BY DEF SumsInv, StartsInv, TypeInv, MapsInv, IsLog
<1>1. /\ maps' = Append(MapsCalibrated(d), Empty)
      /\ taken' = [taken EXCEPT ![d] = Len(maps)]
      /\ history'[d] = [time |-> collection[d].time, points |-> Points(d)]
      /\ told'[d] = ToldAfter(d, collection[d].time, Points(d))
      /\ \A c \in Readers \ {d} : history'[c] = history[c] /\ told'[c] = told[c]
  BY <1>0 DEF CollectEnds, BuildMetrics, TypeInv
<1>2. /\ instrument' = instrument /\ temporality' = temporality
      /\ memo' = memo /\ recorded' = recorded /\ wasReset' = wasReset
  BY DEF CollectEnds, setup, ghosts
<1>3. /\ Len(maps') = Len(maps) + 1
      /\ DOMAIN maps'[Len(maps) + 1] = {}
      /\ \A i \in 1 .. Len(maps) : DOMAIN maps'[i] = DOMAIN maps[i]
      /\ \A i \in 1 .. Len(maps) : \A k \in DOMAIN maps[i] :
           maps'[i][k].value = maps[i][k].value
  BY <1>0, <1>1, CollectedValues
<1>4. /\ DOMAIN told'[d] = DOMAIN told[d] \cup Unreported(d)
      /\ DOMAIN told'[d] \subseteq Keys
      /\ \A k \in DOMAIN told'[d] :
           /\ told'[d][k].value \in Int
           /\ k \notin wasReset => told'[d][k].value = Kept(d, k)
      /\ \A k \in Keys \ DOMAIN told'[d] : Kept(d, k) = 0
      /\ temporality[d] = "cumulative" =>
           /\ DOMAIN told'[d] = DOMAIN Points(d)
           /\ \A k \in DOMAIN Points(d) :
                told'[d][k].value = Points(d)[k].acc.value
  BY <1>0, <1>1, CollectTold
<1>5. Known(d)' = DOMAIN Points(d) /\ \A c \in Readers \ {d} : Known(c)' = Known(c)
  BY <1>1 DEF Known
<1>6. ValuesInv'
  <2>1. ASSUME NEW i \in 1 .. Len(maps'), NEW k \in DOMAIN maps'[i]
        PROVE  maps'[i][k].value \in Int
    <3>1. i \in 1 .. Len(maps) /\ k \in DOMAIN maps[i]
      BY <1>0, <1>3, <2>1
    <3> QED
      BY <1>0, <1>3, <3>1 DEF ValuesInv
  <2> QED
    BY <1>0, <1>2, <2>1 DEF ValuesInv
<1>7. ToldInv'
  <2>1. /\ DOMAIN Points(d) \subseteq Keys
        /\ \A k \in DOMAIN Points(d) : Points(d)[k].acc.value \in Int
    BY <1>0, PointsValue
  <2>2. history'[d].points = Points(d)
    BY <1>1
  <2> QED
    BY <1>0, <1>1, <1>4, <1>5, <2>1, <2>2 DEF ToldInv
<1>8. ASSUME NEW c \in Readers, temporality[c] = "cumulative"
      PROVE  /\ Known(c)' = DOMAIN told'[c]
             /\ \A k \in Known(c)' \ wasReset :
                  /\ history'[c].points[k].acc.value = told'[c][k].value
                  /\ Held(history[c].points[k], k)'.value = told'[c][k].value
  <2>1. CASE c = d
    <3>1. history'[d].points = Points(d)
      BY <1>1
    <3>2. ASSUME NEW k \in DOMAIN Points(d) \ wasReset
          PROVE  Held(history[d].points[k], k)'.value = Points(d)[k].acc.value
      <4>1. CASE Points(d)[k].at = 0
        BY <3>1, <4>1 DEF Held
      <4>2. CASE Points(d)[k].at # 0
        <5>1. maps'[Points(d)[k].at][k].value = Points(d)[k].acc.value
          BY <1>0, <1>1, <1>8, <2>1, <4>2, PointsHeld
        <5> QED
          BY <3>1, <4>2, <5>1 DEF Held
      <4> QED
        BY <4>1, <4>2
    <3> QED
      BY <1>4, <1>5, <1>8, <2>1, <3>1, <3>2
  <2>2. CASE c # d
    <3>1. /\ history'[c] = history[c] /\ told'[c] = told[c]
          /\ Known(c)' = Known(c)
      BY <1>1, <1>5, <2>2
    <3>2. ASSUME NEW k \in Known(c)
          PROVE  Held(history[c].points[k], k)'.value
                   = Held(history[c].points[k], k).value
      <4>1. CASE history[c].points[k].at = 0
        BY <3>1, <4>1 DEF Held
      <4>2. CASE history[c].points[k].at # 0
        <5>1. /\ history[c].points[k].at \in 1 .. Len(maps)
              /\ k \in DOMAIN maps[history[c].points[k].at]
          BY <1>8, <4>2, HeldIsTaken
        <5>2. maps'[history[c].points[k].at][k].value
                = maps[history[c].points[k].at][k].value
          BY <1>3, <5>1
        <5> QED
          BY <3>1, <4>2, <5>2 DEF Held
      <4> QED
        BY <4>1, <4>2
    <3> QED
      BY <1>0, <1>8, <3>1, <3>2 DEF HistoryInv
  <2> QED
    BY <2>1, <2>2
<1>9. HistoryInv'
  BY <1>2, <1>8 DEF HistoryInv
<1>10. ASSUME NEW c \in Readers, NEW k
       PROVE  /\ InStash(c, k)' = IF c = d THEN 0 ELSE InStash(c, k)
              /\ Holding(c, k)' = IF c = d THEN {} ELSE Holding(c, k)
  BY <1>0, <1>1, CollectedStash
<1>11. ASSUME NEW c \in Readers, NEW k \in Keys, k \notin wasReset
       PROVE  Kept(c, k)' = Kept(c, k)
  <2>1. CASE c # d
    <3>1. ToldValue(c, k)' = ToldValue(c, k)
      BY <1>1, <2>1 DEF ToldValue
    <3> QED
      BY <1>10, <2>1, <3>1 DEF Kept
  <2>2. CASE c = d
    <3>1. ToldValue(d, k)' = Kept(d, k)
      BY <1>4, <1>11 DEF ToldValue
    <3>2. Kept(d, k) \in Int
      BY <1>0, KeptIsInt
    <3>3. InStash(d, k)' = 0
      BY <1>0, <1>10
    <3>4. Kept(d, k)' = ToldValue(d, k)' + InStash(d, k)'
      BY DEF Kept
    <3> QED
      BY <2>2, <3>1, <3>2, <3>3, <3>4
  <2> QED
    BY <2>1, <2>2
<1>12. ASSUME NEW c \in Readers, NEW k \in Keys,
              k \in DOMAIN told[c] \/ Holding(c, k) # {}
       PROVE  k \in DOMAIN told'[c] \/ Holding(c, k)' # {}
  <2>1. CASE c # d
    BY <1>1, <1>10, <1>12, <2>1
  <2>2. CASE c = d
    BY <1>4, <1>12, <2>2 DEF Unreported
  <2> QED
    BY <2>1, <2>2
<1>13. \A k \in Keys : Observed(k)' = Observed(k)
  BY <1>2 DEF Observed
<1>14. Total(recorded)' = Total(recorded)
  BY <1>2 DEF Total
<1>15. SumInv'
  <2> SUFFICES ASSUME NEW c \in Readers
               PROVE  IF instrument.async
                      THEN \A k \in Keys \ wasReset :
                             /\ Kept(c, k)' = Observed(k)'
                             /\ k \in DOMAIN memo =>
                                  k \in DOMAIN told'[c] \/ Holding(c, k)' # {}
                      ELSE /\ wasReset = {}
                           /\ SumFunctionOnSet(KeptBy(c)', Keys) = Total(recorded)'
    BY <1>2 DEF SumInv
  <2>1. CASE instrument.async
    <3>1. \A k \in Keys \ wasReset :
            /\ Kept(c, k) = Observed(k)
            /\ k \in DOMAIN memo => k \in DOMAIN told[c] \/ Holding(c, k) # {}
      BY <1>0, <2>1 DEF SumInv
    <3> QED
      BY <1>11, <1>12, <1>13, <2>1, <3>1
  <2>2. CASE ~instrument.async
    <3>1. wasReset = {} /\ SumFunctionOnSet(KeptBy(c), Keys) = Total(recorded)
      BY <1>0, <2>2 DEF SumInv
    <3>2. KeptBy(c)' = KeptBy(c)
      BY <1>11, <3>1 DEF KeptBy
    <3> QED
      BY <1>14, <2>2, <3>1, <3>2
  <2> QED
    BY <2>1, <2>2
<1>16. UpToDate(d)'
  <2>1. CASE instrument.async
    <3>1. ASSUME NEW k \in DOMAIN memo \ (wasReset \cup {Overflow})
          PROVE  k \in DOMAIN told'[d] /\ told'[d][k].value = memo[k]
      <4>1. k \in Keys /\ k \notin wasReset
        BY <1>0 DEF ValuesInv
      <4>2. /\ Kept(d, k) = memo[k]
            /\ k \in DOMAIN told[d] \/ Holding(d, k) # {}
        BY <1>0, <2>1, <4>1 DEF SumInv, Observed
      <4>3. k \in DOMAIN told'[d]
        BY <1>4, <4>1, <4>2 DEF Unreported
      <4> QED
        BY <1>4, <4>1, <4>2, <4>3
    <3> QED
      BY <1>2, <2>1, <3>1 DEF UpToDate
  <2>2. CASE ~instrument.async
    <3> DEFINE f == KeptBy(d)
               e == ToldValues(d)'
    <3>1. wasReset = {} /\ SumFunctionOnSet(f, Keys) = Total(recorded)
      BY <1>0, <2>2 DEF SumInv
    <3>2. \A k \in Keys : f[k] = Kept(d, k) /\ f[k] \in Int
      BY <1>0, KeptIsInt DEF KeptBy
    <3>3. DOMAIN e = DOMAIN told'[d] /\ \A k \in DOMAIN e : e[k] = told'[d][k].value
      BY DEF ToldValues
    <3>4. Total(ToldValues(d))' = SumFunctionOnSet(e, DOMAIN e)
      BY DEF Total
    <3> HIDE DEF e, f
    <3>5. /\ DOMAIN e \in SUBSET Keys
          /\ \A k \in DOMAIN e : e[k] = f[k]
          /\ \A k \in Keys \ DOMAIN e : f[k] = 0
      BY <1>4, <3>1, <3>2, <3>3
    <3>6. SumFunctionOnSet(e, DOMAIN e) = SumFunctionOnSet(f, Keys)
      BY <3>2, <3>5, KeysFinite, SumExtended
    <3> QED
      BY <1>2, <1>14, <2>2, <3>1, <3>4, <3>6 DEF UpToDate
  <2> QED
    BY <2>1, <2>2
<1> QED
  BY <1>6, <1>7, <1>9, <1>15, <1>16 DEF SumsInv

\* A step that measures and tells nothing.
LEMMA QuietSums ==
  ASSUME SumsInv, maps' = maps, taken' = taken, history' = history,
         told' = told, memo' = memo, recorded' = recorded,
         wasReset' = wasReset, instrument' = instrument,
         temporality' = temporality
  PROVE  SumsInv'
<1>1. /\ \A c : Known(c)' = Known(c) /\ Stash(c)' = Stash(c)
      /\ \A point, k : Held(point, k)' = Held(point, k)
  BY DEF Known, Stash, Held
<1>2. ValuesInv' /\ ToldInv' /\ HistoryInv'
  BY <1>1 DEF SumsInv, ValuesInv, ToldInv, HistoryInv
<1>3. /\ \A c, k : Kept(c, k)' = Kept(c, k) /\ Holding(c, k)' = Holding(c, k)
      /\ \A k : Observed(k)' = Observed(k)
  BY <1>1 DEF Kept, ToldValue, InStash, Parts, Part, Holding, Observed
<1>4. \A c : KeptBy(c)' = KeptBy(c)
  BY <1>3 DEF KeptBy
<1>5. Total(recorded)' = Total(recorded)
  BY DEF Total
<1>6. SumInv'
  BY <1>3, <1>4, <1>5 DEF SumsInv, SumInv
<1> QED
  BY <1>2, <1>6 DEF SumsInv

MeasuredInv == StartsInv /\ StreamsInv /\ CallbacksInv /\ SumsInv

ReportsAgree == \A c \in Readers : Reports(c) => UpToDate(c)'

LEMMA MeasuredInit == Init => MeasuredInv
<1> SUFFICES ASSUME Init PROVE MeasuredInv
  OBVIOUS
<1>1. StartsInv /\ StreamsInv
  BY StartsInit, StreamsInit
<1>2. CallbacksInv
  BY DEF Init, CallbacksInv, Idle
<1>3. Len(maps) = 1 /\ maps[1] = Empty /\ DOMAIN Empty = {}
  BY DEF Init, Empty
<1>4. \A i \in 1 .. Len(maps) : DOMAIN maps[i] = {}
  BY <1>3
<1>5. /\ memo = Empty /\ recorded = [k \in Attributes |-> 0] /\ wasReset = {}
      /\ \A c \in Readers : told[c] = Empty /\ Known(c) = {}
  BY <1>3 DEF Init, Known, NoHistory
<1>6. ValuesInv /\ ToldInv /\ HistoryInv
  <2>1. recorded \in [Attributes -> Int] /\ DOMAIN memo = {}
    BY <1>3, <1>5
  <2>2. ValuesInv
    BY <1>4, <2>1 DEF ValuesInv
  <2>3. \A c \in Readers : DOMAIN told[c] = {} /\ Known(c) = {}
    BY <1>3, <1>5
  <2>4. ToldInv
    BY <2>3 DEF ToldInv
  <2>5. HistoryInv
    BY <2>3 DEF HistoryInv
  <2> QED
    BY <2>2, <2>4, <2>5
<1>7. ASSUME NEW c \in Readers, NEW k
      PROVE  Kept(c, k) = 0
  <2>1. Holding(c, k) = {}
    BY <1>1, <1>4, StashFacts DEF Holding
  <2>2. InStash(c, k) = 0
    BY <1>1, <1>6, <2>1, NothingHeld
  <2> QED
    BY <1>3, <1>5, <2>2 DEF Kept, ToldValue
<1>8. ASSUME NEW f, NEW S, IsFiniteSet(S), \A x \in S : f[x] = 0
      PROVE  SumFunctionOnSet(f, S) = 0
  <2>1. {} \in SUBSET S
    OBVIOUS
  <2>2. SumFunctionOnSet(f, {}) = SumFunctionOnSet(f, S)
    BY <1>8, <2>1, SumWithZeros
  <2> QED
    BY <2>2, SumOfEmpty
<1>9. Total(recorded) = 0
  <2>1. IsFiniteSet(Attributes)
    BY StorageAssumption
  <2>2. DOMAIN recorded = Attributes /\ \A x \in Attributes : recorded[x] = 0
    BY <1>5
  <2> QED
    BY <1>8, <2>1, <2>2 DEF Total
<1>10. \A c \in Readers : SumFunctionOnSet(KeptBy(c), Keys) = 0
  <2> TAKE c \in Readers
  <2>1. \A k \in Keys : KeptBy(c)[k] = 0
    BY <1>7 DEF KeptBy
  <2> QED
    BY <1>8, <2>1, KeysFinite
<1>11. SumInv
  BY <1>3, <1>5, <1>7, <1>9, <1>10 DEF SumInv, Observed
<1> QED
  BY <1>1, <1>2, <1>6, <1>11 DEF MeasuredInv, SumsInv

LEMMA MeasuredNext == MeasuredInv /\ [Next]_vars => MeasuredInv' /\ ReportsAgree
<1> SUFFICES ASSUME MeasuredInv, [Next]_vars
             PROVE  MeasuredInv' /\ ReportsAgree
  OBVIOUS
<1> USE DEF setup, ghosts
<1>0. StartsInv /\ StreamsInv /\ CallbacksInv /\ SumsInv
  BY DEF MeasuredInv
<1>1. StartsInv' /\ StreamsInv' /\ CallbacksInv'
  BY <1>0, StartsNext, StreamsNext, CallbacksNext
<1>2. ReportsAgree
  BY <1>0, CollectSums DEF ReportsAgree, Reports
<1>3. ASSUME NEW k \in Attributes, NEW v \in Values, Record(k, v)
      PROVE  SumsInv'
  BY <1>0, <1>3, RecordSums
<1>4. ASSUME NEW r \in Readers, CollectBegins(r)
      PROVE  SumsInv'
  BY <1>0, <1>4, QuietSums DEF CollectBegins
<1>5. ASSUME NEW r \in Readers, NEW callback \in Callbacks,
             ObserveFails(r, callback)
      PROVE  SumsInv'
  BY <1>0, <1>5, QuietSums DEF ObserveFails
<1>6. ASSUME NEW r \in Readers, NEW callback \in Callbacks,
             NEW k \in Attributes, NEW v \in Values,
             Observe(r, callback, k, v)
      PROVE  SumsInv'
  BY <1>0, <1>6, ObserveSums
<1>7. ASSUME NEW r \in Readers, CollectEnds(r)
      PROVE  SumsInv'
  <2>1. CASE r \in handles
    BY <1>0, <1>7, <2>1, CollectSums
  <2>2. CASE r \notin handles
    BY <1>0, <1>7, <2>2, QuietSums DEF CollectEnds
  <2> QED
    BY <2>1, <2>2
<1>8. ASSUME Tick
      PROVE  SumsInv'
  BY <1>0, <1>8, QuietSums DEF Tick
<1>9. ASSUME UNCHANGED vars
      PROVE  SumsInv'
  BY <1>0, <1>9, QuietSums DEF vars
<1>10. SumsInv'
  BY <1>3, <1>4, <1>5, <1>6, <1>7, <1>8, <1>9 DEF Next
<1> QED
  BY <1>1, <1>2, <1>10 DEF MeasuredInv

\* In every state what a collector was told and what its stash holds add up to
\* what was measured, whatever the other collectors took
\* (DeltaMetricProcessor.ts:36).
THEOREM MetricMeasuredInductive == Spec => []MeasuredInv
<1> QED
  BY MeasuredInit, MeasuredNext, PTL DEF Spec

\* Every report brings its reader up to date: nothing measured is lost or told
\* twice, however the collections of the readers interleave, whatever was
\* merged, shared or counted as overflow, and whatever callbacks failed
\* (TemporalMetricProcessor.ts:73).
THEOREM MetricReportsAddUp == Spec => ReportsAddUp
<1>1. MeasuredInv /\ [Next]_vars => [ReportsAgree]_vars
  BY MeasuredNext
<1>2. [][ReportsAgree]_vars => ReportsAddUp
  BY PTL DEF ReportsAgree, ReportsAddUp
<1> QED
  BY <1>1, <1>2, MeasuredInit, MeasuredNext, PTL DEF Spec
=============================================================================
