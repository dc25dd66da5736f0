--------------------------- MODULE MetricStorage ---------------------------
(***************************************************************************)
(* One metric storage of the metrics SDK (packages/sdk-metrics/src/state)  *)
(* and the collections that read it: DeltaMetricProcessor, which turns     *)
(* measurements into deltas, TemporalMetricProcessor, which gives every    *)
(* collector its own stream of points, and the Sum aggregator.             *)
(*                                                                         *)
(* A collection swaps the active map of accumulations for an empty one and *)
(* stashes the old map for every collector.  The stashes hold the same     *)
(* objects, and TemporalMetricProcessor changes their start times in       *)
(* place, so who holds which object matters: maps is the sequence of all   *)
(* maps there ever were, the last one the active map; a stash is the part  *)
(* of maps its collector has not taken yet; and a point that was reported  *)
(* either refers to the object in a map or is an object of its own.        *)
(*                                                                         *)
(* A storage made for a view is shared by all collectors; without a view   *)
(* every collector has a storage of its own.  The callbacks of observable  *)
(* instruments run in every reader's collection and record in every        *)
(* storage of the instrument, whoever it belongs to.                       *)
(***************************************************************************)
EXTENDS Integers, Sequences, FiniteSets, FiniteSetsExt, Functions

CONSTANTS
  Readers,           \* metric readers; each has one collector
  Attributes,        \* the attribute sets the program measures with
  Callbacks,         \* the callbacks of an observable instrument
  Overflow,          \* { 'otel.metric.overflow': true }
  Values,            \* what is recorded or observed
  CardinalityLimit,  \* aggregationCardinalityLimit
  MaxTime,           \* bound on the clock
  MaxRecords,        \* bound on the measurements
  MaxCollections     \* bound on the maps the storage goes through

ASSUME StorageAssumption ==
  /\ IsFiniteSet(Attributes)
  /\ Values \subseteq Int
  /\ Overflow \notin Attributes
  /\ CardinalityLimit \in Nat \ {0}
  /\ MaxTime \in Nat

VARIABLES
  instrument,   \* [async, monotonic]; never changes
  temporality,  \* what selectAggregationTemporality answers; never changes
  handles,      \* the collectors the storage was made for; never changes
  clock,        \* Date.now()
  maps,         \* every map of accumulations, the active one last
  memo,         \* the last value observed, _cumulativeMemoStorage
  taken,        \* how many maps a collector has taken from its stash
  history,      \* _reportHistory: what a collector was told last
  collection,   \* the collection a reader is running
  recorded,     \* what was recorded: a history variable
  records,      \* how many measurements were made: a history variable
  wasReset,     \* attribute sets that were seen to drop: a history variable
  told          \* what a reader was told in all: a history variable

setup == <<instrument, temporality, handles>>
ghosts == <<recorded, records, wasReset>>
vars == <<setup, clock, maps, memo, taken, history, collection, ghosts, told>>

Keys == Attributes \cup {Overflow}
Empty == [k \in {} |-> 0]
Put(map, k, x) == [j \in DOMAIN map \cup {k} |-> IF j = k THEN x ELSE map[j]]
Idle == [time |-> -1, waiting |-> {}]
NoHistory == [time |-> -1, points |-> Empty]

----------------------------------------------------------------------------
(* The Sum aggregator.  An accumulation also remembers, as a history field, *)
(* when its first measurement was made.                                     *)

\* A monotonic sum ignores what is negative.
Counted(v) == IF instrument.monotonic /\ v < 0 THEN 0 ELSE v

Accumulation(time, v) ==
  [start |-> time, first |-> clock, value |-> Counted(v), reset |-> FALSE]

\* Mutant: the sum of two deltas starts where the later one does.
MergeStartsLate(previous, delta) ==
  IF delta.reset
  THEN delta
  ELSE [start |-> delta.start, first |-> previous.first,
        value |-> previous.value + delta.value, reset |-> FALSE]

\* What merge() makes of two accumulations: a reset starts afresh, and the
\* result of adding to a reset is not a reset any more.
Merge(previous, delta) ==
  IF delta.reset
  THEN delta
  ELSE [start |-> previous.start, first |-> previous.first,
        value |-> previous.value + delta.value, reset |-> FALSE]

\* A monotonic sum that drops was reset, and counts again from zero.
Drops(previous, current) == instrument.monotonic /\ previous > current.value

Diff(previous, current) ==
  IF Drops(previous, current)
  THEN [current EXCEPT !.reset = TRUE]
  ELSE [current EXCEPT !.value = @ - previous]

----------------------------------------------------------------------------
(* DeltaMetricProcessor.                                                    *)

Active == maps[Len(maps)]
ActiveWith(k, a) == [maps EXCEPT ![Len(maps)] = Put(@, k, a)]
IsFull(map) == Cardinality(DOMAIN map) >= CardinalityLimit - 1

\* The attribute set a measurement is kept under: beyond the cardinality
\* limit a new one is counted as overflow.
KeyIn(map, k) == IF k \in DOMAIN map \/ ~IsFull(map) THEN k ELSE Overflow

\* counter.add(v, k): DeltaMetricProcessor.record()
Record(k, v) ==
  LET key == KeyIn(Active, k)
      accumulation == IF key \in DOMAIN Active
                      THEN [Active[key] EXCEPT !.value = @ + Counted(v)]
                      ELSE Accumulation(clock, v)
  IN /\ ~instrument.async
     /\ records < MaxRecords
     /\ maps' = ActiveWith(key, accumulation)
     /\ recorded' = [recorded EXCEPT ![k] = @ + Counted(v)]
     /\ records' = records + 1
     /\ UNCHANGED <<setup, clock, memo, taken, history, collection, wasReset,
                    told>>

\* One measurement of batchCumulate(): the difference to what was observed
\* before goes into the active map.
BatchCumulate(k, v, time) ==
  LET key == KeyIn(memo, k)
      observed == Accumulation(time, v)
      seen == key \in DOMAIN memo
      delta == IF seen THEN Diff(memo[key], observed) ELSE observed
  IN /\ maps' = ActiveWith(key, IF key \in DOMAIN Active
                                THEN Merge(Active[key], delta) ELSE delta)
     /\ memo' = Put(memo, key, observed.value)
     /\ wasReset' = IF seen /\ Drops(memo[key], observed)
                    THEN wasReset \cup {key} ELSE wasReset

----------------------------------------------------------------------------
(* A collection.  MetricCollector.collect() reads the clock and calls the   *)
(* callbacks of the observable instruments; each settles on its own, and    *)
(* when all have, the collector's points are built.                         *)

CollectBegins(r) ==
  /\ collection[r] = Idle
  /\ collection' = [collection EXCEPT ![r] =
       [time |-> clock,
        waiting |-> IF instrument.async THEN Callbacks ELSE {}]]
  /\ UNCHANGED <<setup, clock, maps, memo, taken, history, ghosts, told>>

\* A callback settles in time, having observed one attribute set: every
\* storage of the instrument records it with the time of the collection.
Observe(r, callback, k, v) ==
  /\ callback \in collection[r].waiting
  /\ records < MaxRecords
  /\ collection' = [collection EXCEPT ![r].waiting = @ \ {callback}]
  /\ BatchCumulate(k, v, collection[r].time)
  /\ records' = records + 1
  /\ UNCHANGED <<setup, clock, taken, history, recorded, told>>

\* A callback observes nothing, throws, or answers after its timeout.
ObserveFails(r, callback) ==
  /\ callback \in collection[r].waiting
  /\ collection' = [collection EXCEPT ![r].waiting = @ \ {callback}]
  /\ UNCHANGED <<setup, clock, maps, memo, taken, history, ghosts, told>>

----------------------------------------------------------------------------
(* TemporalMetricProcessor.  A point is [at, acc]: the object at maps[at],  *)
(* or, when at is 0, an object acc of its own.                              *)

Stash(c) == taken[c] + 1 .. Len(maps)
Holding(c, k) == {i \in Stash(c) : k \in DOMAIN maps[i]}
Unreported(c) == {k \in Keys : Holding(c, k) # {}}

\* _getMergedUnreportedAccumulations() counts from the last reset in the stash
\* if there is one, else from the first map that has the attribute set.
Resets(c, k) == {i \in Holding(c, k) : maps[i][k].reset}
Base(c, k) ==
  IF Resets(c, k) = {} THEN Min(Holding(c, k)) ELSE Max(Resets(c, k))
StashTotal(c, k) ==
  SumFunctionOnSet([i \in Holding(c, k) |-> maps[i][k].value],
                   {i \in Holding(c, k) : i >= Base(c, k)})

\* The merged accumulation is a reset only if its last part is.
MergedAcc(c, k) ==
  LET first == maps[Base(c, k)][k]
  IN [start |-> first.start, first |-> first.first,
      value |-> StashTotal(c, k),
      reset |-> first.reset /\ Base(c, k) = Max(Holding(c, k))]

\* Where only one map of the stash has the attribute set, the result is that
\* map's object.
Merged(c, k) ==
  [at |-> IF Cardinality(Holding(c, k)) = 1 THEN Base(c, k) ELSE 0,
   acc |-> MergedAcc(c, k)]

HasReported(c) == history[c].time # -1
Known(c) == DOMAIN history[c].points
Held(point, k) == IF point.at = 0 THEN point.acc ELSE maps[point.at][k]

\* The points whose start time becomes the collector's last collection time:
\* those the last report had too.
Calibrated(c) ==
  IF HasReported(c) /\ temporality[c] = "delta"
  THEN Unreported(c) \cap Known(c) ELSE {}

StartsAt(acc, time) == [acc EXCEPT !.start = time]

\* Mutant: streams are calibrated to the time of the running collection.
MapsCalibratedToNow(c) ==
  [i \in DOMAIN maps |-> [k \in DOMAIN maps[i] |->
    IF k \in Calibrated(c) /\ Holding(c, k) = {i}
    THEN StartsAt(maps[i][k], collection[c].time) ELSE maps[i][k]]]

\* The change of start time as the other collectors see it: it is made in
\* the object, and an object that is not merged is shared.
MapsCalibrated(c) ==
  [i \in DOMAIN maps |-> [k \in DOMAIN maps[i] |->
    IF k \in Calibrated(c) /\ Holding(c, k) = {i}
    THEN StartsAt(maps[i][k], history[c].time) ELSE maps[i][k]]]

NewPoint(c, k) ==
  LET point == Merged(c, k) IN
  IF k \in Calibrated(c)
  THEN [point EXCEPT !.acc = StartsAt(@, history[c].time)] ELSE point

\* A cumulative collector adds the deltas to what it reported last.
CumulativePoint(c, k) ==
  IF k \notin Unreported(c) THEN history[c].points[k]
  ELSE IF k \notin Known(c) THEN NewPoint(c, k)
  ELSE [at |-> 0,
        acc |-> Merge(Held(history[c].points[k], k), Merged(c, k).acc)]

Points(c) ==
  IF HasReported(c) /\ temporality[c] = "cumulative"
  THEN [k \in Unreported(c) \cup Known(c) |-> CumulativePoint(c, k)]
  ELSE [k \in Unreported(c) |-> NewPoint(c, k)]

\* What the reader knows after the report: a delta adds to what it was told,
\* a cumulative point replaces it.
ToldAfter(c, time, points) ==
  [k \in DOMAIN told[c] \cup DOMAIN points |->
    IF k \notin DOMAIN points THEN told[c][k]
    ELSE LET before == IF temporality[c] = "delta" /\ k \in DOMAIN told[c]
                       THEN told[c][k].value ELSE 0
         IN [value |-> before + points[k].acc.value,
             start |-> points[k].acc.start, end |-> time]]

\* Mutant: a collection empties the stash of every collector.
BuildMetricsTakesAll(c, time) ==
  LET points == Points(c) IN
  /\ maps' = Append(MapsCalibrated(c), Empty)
  /\ taken' = [r \in Readers |-> Len(maps)]
  /\ history' = [history EXCEPT ![c] = [time |-> time, points |-> points]]
  /\ told' = [told EXCEPT ![c] = ToldAfter(c, time, points)]

\* Mutant: the time of the first report is kept.
BuildMetricsKeepsTime(c, time) ==
  LET points == Points(c)
      kept == IF HasReported(c) THEN history[c].time ELSE time
  IN
  /\ maps' = Append(MapsCalibrated(c), Empty)
  /\ taken' = [taken EXCEPT ![c] = Len(maps)]
  /\ history' = [history EXCEPT ![c] = [time |-> kept, points |-> points]]
  /\ told' = [told EXCEPT ![c] = ToldAfter(c, time, points)]

\* storage.collect(): the active map is stashed for every collector, and c
\* takes its stash.
BuildMetrics(c, time) ==
  LET points == Points(c) IN
  /\ maps' = Append(MapsCalibrated(c), Empty)
  /\ taken' = [taken EXCEPT ![c] = Len(maps)]
  /\ history' = [history EXCEPT ![c] = [time |-> time, points |-> points]]
  /\ told' = [told EXCEPT ![c] = ToldAfter(c, time, points)]

CollectEnds(r) ==
  /\ collection[r] # Idle
  /\ collection[r].waiting = {}
  /\ Len(maps) <= MaxCollections
  /\ collection' = [collection EXCEPT ![r] = Idle]
  /\ IF r \in handles
     THEN BuildMetrics(r, collection[r].time)
     ELSE UNCHANGED <<maps, taken, history, told>>
  /\ UNCHANGED <<setup, clock, memo, ghosts>>

Tick ==
  /\ clock < MaxTime
  /\ clock' = clock + 1
  /\ UNCHANGED <<setup, maps, memo, taken, history, collection, ghosts, told>>

Init ==
  /\ instrument \in [async : BOOLEAN, monotonic : BOOLEAN]
  /\ temporality \in [Readers -> {"delta", "cumulative"}]
  /\ handles \in {Readers} \cup {{r} : r \in Readers}
  /\ clock = 0
  /\ maps = <<Empty>>
  /\ memo = Empty
  /\ taken = [r \in Readers |-> 0]
  /\ history = [r \in Readers |-> NoHistory]
  /\ collection = [r \in Readers |-> Idle]
  /\ recorded = [k \in Attributes |-> 0]
  /\ records = 0
  /\ wasReset = {}
  /\ told = [r \in Readers |-> Empty]

Next ==
  \/ \E k \in Attributes, v \in Values : Record(k, v)
  \/ \E r \in Readers :
       \/ CollectBegins(r)
       \/ \E callback \in Callbacks :
            \/ ObserveFails(r, callback)
            \/ \E k \in Attributes, v \in Values : Observe(r, callback, k, v)
       \/ CollectEnds(r)
  \/ Tick

Spec == Init /\ [][Next]_vars

----------------------------------------------------------------------------
(* Properties.                                                              *)

Reports(c) == CollectEnds(c) /\ c \in handles
Total(map) == SumFunctionOnSet(map, DOMAIN map)
ToldValues(c) == [k \in DOMAIN told[c] |-> told[c][k].value]

\* What a collector has been told agrees with what was measured: all that was
\* recorded, or the value last observed of an attribute set that was never
\* seen to drop.
UpToDate(c) ==
  IF instrument.async
  THEN \A k \in DOMAIN memo \ (wasReset \cup {Overflow}) :
         k \in DOMAIN told[c] /\ told[c][k].value = memo[k]
  ELSE Total(ToldValues(c)) = Total(recorded)

\* However the collections of the readers interleave, every report brings its
\* reader up to date: nothing measured is lost or told twice
\* (TemporalMetricProcessor.ts:73, DeltaMetricProcessor.ts:36).
ReportsAddUp == [][\A c \in Readers : Reports(c) => UpToDate(c)']_vars

\* The time a point starts at is never later than its first measurement,
\* though collectors move the start of objects they share
\* (TemporalMetricProcessor.ts:200).
StartsBeforeMeasurements ==
  \A i \in DOMAIN maps, k \in Keys :
    k \in DOMAIN maps[i] => maps[i][k].start <= maps[i][k].first

\* The start of a cumulative stream moves only when the attribute set was
\* seen to drop, though other collectors calibrate objects it may refer to
\* (TemporalMetricProcessor.ts:103).
CumulativeStartIsStable ==
  [][\A c \in Readers : temporality[c] = "cumulative" =>
       \A k \in Known(c) \ wasReset' :
         /\ k \in Known(c)'
         /\ Held(history[c].points[k], k)'.start
              = Held(history[c].points[k], k).start]_vars

\* A delta point does not start before the end of the stream's last point.
NewPointFollows(c) ==
  \A k \in Known(c)' \cap DOMAIN told[c] :
    told'[c][k].start >= told[c][k].end

\* With one delta collector of a synchronous instrument the intervals of its
\* successive points of an attribute set do not overlap
\* (TemporalMetricProcessor.ts:98).
LoneDeltaIntervalsAreDisjoint ==
  [][\A c \in handles :
       /\ ~instrument.async
       /\ {d \in handles : temporality[d] = "delta"} = {c}
       /\ Reports(c)
       => NewPointFollows(c)]_vars

\* A cumulative collector reports the value a counter was last observed with,
\* after a reset too (AsyncMetricStorage.test.ts:439).
CumulativeIsLastObserved ==
  [][\A c \in handles :
       /\ instrument.async
       /\ temporality[c] = "cumulative"
       /\ Reports(c)
       => \A k \in DOMAIN memo \ {Overflow} :
            k \in DOMAIN told'[c] /\ told'[c][k].value = memo[k]]_vars
=============================================================================
