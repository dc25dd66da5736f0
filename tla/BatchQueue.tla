------------------------------ MODULE BatchQueue ------------------------------
(***************************************************************************)
(* What a batching processor promises about the telemetry items (spans or  *)
(* log records) given to it, without saying when or how batches are made.  *)
(*                                                                         *)
(* Items enter a bounded buffer in the order they arrive, leave it from    *)
(* the front, each once, and are lost only when they arrive while it is    *)
(* full.  After the processor is closed no item is accepted or lost.       *)
(***************************************************************************)
EXTENDS Naturals, Sequences

CONSTANTS Items,      \* the telemetry items of one execution
          Capacity    \* how many items may wait

VARIABLES accepted,   \* every item accepted so far, in order
          buffer,     \* the accepted items that wait
          dropped,    \* the items lost because the buffer was full
          closed      \* TRUE once shutdown was requested

queueVars == <<accepted, buffer, dropped, closed>>

Suffixes(s) == {SubSeq(s, i, Len(s)) : i \in 1..(Len(s) + 1)}

Offered == {accepted[i] : i \in 1..Len(accepted)} \cup dropped

QueueInit ==
  /\ accepted = <<>>
  /\ buffer = <<>>
  /\ dropped = {}
  /\ closed = FALSE

\* The item is accepted; the same step may hand over the front of the buffer,
\* the item included.
Accept(x) ==
  /\ ~closed
  /\ x \notin Offered
  /\ Len(buffer) < Capacity
  /\ accepted' = Append(accepted, x)
  /\ buffer' \in Suffixes(Append(buffer, x))
  /\ UNCHANGED <<dropped, closed>>

Lose(x) ==
  /\ ~closed
  /\ x \notin Offered
  /\ Len(buffer) >= Capacity
  /\ dropped' = dropped \cup {x}
  /\ UNCHANGED <<accepted, buffer, closed>>

HandOver ==
  /\ buffer' \in Suffixes(buffer)
  /\ UNCHANGED <<accepted, dropped, closed>>

\* Closing may hand over what is left in the same step.
Close ==
  /\ ~closed
  /\ closed' = TRUE
  /\ buffer' \in Suffixes(buffer)
  /\ UNCHANGED <<accepted, dropped>>

QueueNext ==
  \/ \E x \in Items : Accept(x) \/ Lose(x)
  \/ HandOver
  \/ Close

QueueSpec == QueueInit /\ [][QueueNext]_queueVars

\* What follows: the items that wait are the last ones accepted, in order.
BufferIsTail ==
  /\ Len(buffer) <= Len(accepted)
  /\ buffer = SubSeq(accepted, Len(accepted) - Len(buffer) + 1, Len(accepted))
===============================================================================
