----------------------------- MODULE LoggerFifo -----------------------------
(***************************************************************************)
(* What a log channel promises its two users, whatever the ring inside it  *)
(* does: a first-in first-out queue of at most Capacity samples.  A sample *)
(* offered while the queue has room is queued, a sample offered while the  *)
(* queue is full is dropped, and the file writer receives the queued       *)
(* samples in the order they were offered, each exactly once.              *)
(*                                                                         *)
(* Samples are numbered 1, 2, ... in the order the read callback offers    *)
(* them, so a sample is its number.                                        *)
(***************************************************************************)
EXTENDS Naturals, Sequences

CONSTANTS Capacity,     \* LoggerRingBuffer::capacity
          MaxSamples    \* bound on the number of samples offered

VARIABLES decided,      \* how many samples have been queued or dropped
          queue,        \* the samples waiting for the file writer
          delivered     \* the samples the file writer has received

vars == <<decided, queue, delivered>>

Init ==
  /\ decided = 0
  /\ queue = <<>>
  /\ delivered = <<>>

Push ==
  /\ decided < MaxSamples
  /\ Len(queue) < Capacity
  /\ decided' = decided + 1
  /\ queue' = Append(queue, decided + 1)
  /\ UNCHANGED delivered

Drop ==
  /\ decided < MaxSamples
  /\ Len(queue) = Capacity
  /\ decided' = decided + 1
  /\ UNCHANGED <<queue, delivered>>

Pop ==
  /\ queue # <<>>
  /\ queue' = Tail(queue)
  /\ delivered' = Append(delivered, Head(queue))
  /\ UNCHANGED decided

Next == Push \/ Drop \/ Pop

Spec == Init /\ [][Next]_vars
=============================================================================
