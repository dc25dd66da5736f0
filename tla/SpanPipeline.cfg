\* Two processors, one with an exporter that can be flushed; two spans.
SPECIFICATION FairSpec
CONSTANTS
  Spans = {s1, s2}
  Processors = {p1, p2}
  Flushable = {p1}
  Flushes = {f}
  MaxWrites = 1
CHECK_DEADLOCK FALSE
INVARIANTS
  ExportedAsEnded
  ResolvedFlushIsComplete
PROPERTIES
  FlushesSettle
