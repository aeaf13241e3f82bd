----------------------------- MODULE LoggerRing -----------------------------
(***************************************************************************)
(* LoggerRingBuffer (log_channel.cpp): the lock-free ring that carries the *)
(* samples of one subscribed field from the read callback, the only caller *)
(* of push(), to the file writer thread, the only caller of pop().         *)
(*                                                                         *)
(* Both calls are split at every access to memory the threads share: the   *)
(* loads of head_ and tail_, the copy into or out of a slot of buf_, and   *)
(* the store that publishes the copy.  Each thread reads its own index     *)
(* together with the other's: nobody else writes its own.  The release     *)
(* stores and acquire loads of the code order the copies against the       *)
(* stores, which is the order of the steps below.                          *)
(*                                                                         *)
(* head_ and tail_ are size_t: they count modulo SizeMod and are reduced   *)
(* to a slot only when buf_ is indexed.                                    *)
(***************************************************************************)
EXTENDS Integers, Sequences

CONSTANTS Capacity,     \* LoggerRingBuffer::capacity (256)
          SizeMod,      \* number of values of a size_t (2^64)
          MaxSamples    \* bound on the number of samples offered

ASSUME CapacityAssumption == Capacity \in Nat \ {0}

\* 256 divides 2^64 and is less than it.
ASSUME SizeModAssumption ==
  /\ SizeMod \in Nat
  /\ SizeMod > Capacity
  /\ SizeMod % Capacity = 0

ASSUME MaxSamplesAssumption == MaxSamples \in Nat

VARIABLES head_,        \* next index the producer fills
          tail_,        \* next index the consumer empties
          buf_,         \* the slots; 0 is the zero a fresh vector holds
          prod,         \* push() in progress: [pc, head, tail]
          cons,         \* pop() in progress: [pc, head, tail, val]
          offered,      \* samples passed to push(); sample n is the n-th
          accepted,     \* history: the samples push() returned true for
          delivered     \* history: the samples pop() returned true with

ringVars == <<head_, tail_, buf_, prod, cons, offered, accepted, delivered>>

Slots   == 0 .. Capacity - 1
Index   == 0 .. SizeMod - 1
Sample  == 0 .. MaxSamples

\* size_t arithmetic.
Wrap(i)   == i % SizeMod
SlotOf(i) == i % Capacity

Plus1(i) == Wrap(i + 1)

Minus(i, j) == Wrap(i - j)

RingTypeOK ==
  /\ head_ \in Index
  /\ tail_ \in Index
  /\ buf_ \in [Slots -> Sample]
  /\ prod \in [pc : {"idle", "check", "copy", "store"},
               head : Index, tail : Index]
  /\ cons \in [pc : {"idle", "check", "copy", "store"},
               head : Index, tail : Index, val : Sample]
  /\ offered \in Sample
  /\ accepted \in Seq(Sample)
  /\ delivered \in Seq(Sample)

RingInit ==
  /\ head_ = 0
  /\ tail_ = 0
  /\ buf_ = [s \in Slots |-> 0]
  /\ prod = [pc |-> "idle", head |-> 0, tail |-> 0]
  /\ cons = [pc |-> "idle", head |-> 0, tail |-> 0, val |-> 0]
  /\ offered = 0
  /\ accepted = <<>>
  /\ delivered = <<>>

-----------------------------------------------------------------------------
(* push(): the read thread, inside the read-reply callback.                *)

\* Mutations of Full: one sample too many, one too few.
FullLate(p)  == Minus(p.head, p.tail) > Capacity
FullEarly(p) == Minus(p.head, p.tail) >= Capacity - 1

Full(p) == Minus(p.head, p.tail) >= Capacity

PushLoad ==
  /\ prod.pc = "idle"
  /\ offered < MaxSamples
  /\ offered' = offered + 1
  /\ prod' = [pc |-> "check", head |-> head_, tail |-> tail_]
  /\ UNCHANGED <<head_, tail_, buf_, cons, accepted, delivered>>

\* return false: the sample is lost.
PushFull ==
  /\ prod.pc = "check"
  /\ Full(prod)
  /\ prod' = [prod EXCEPT !.pc = "idle"]
  /\ UNCHANGED <<head_, tail_, buf_, cons, offered, accepted, delivered>>

PushRoom ==
  /\ prod.pc = "check"
  /\ ~ Full(prod)
  /\ prod' = [prod EXCEPT !.pc = "copy"]
  /\ UNCHANGED <<head_, tail_, buf_, cons, offered, accepted, delivered>>

PushCopy ==
  /\ prod.pc = "copy"
  /\ buf_' = [buf_ EXCEPT ![SlotOf(prod.head)] = offered]
  /\ prod' = [prod EXCEPT !.pc = "store"]
  /\ UNCHANGED <<head_, tail_, cons, offered, accepted, delivered>>

PushStore ==
  /\ prod.pc = "store"
  /\ head_' = Plus1(prod.head)
  /\ accepted' = Append(accepted, offered)
  /\ prod' = [prod EXCEPT !.pc = "idle"]
  /\ UNCHANGED <<tail_, buf_, cons, offered, delivered>>

-----------------------------------------------------------------------------
(* pop(): the file writer thread, inside drain_ring_buffer().              *)

PopLoad ==
  /\ cons.pc = "idle"
  /\ cons' = [cons EXCEPT !.pc = "check", !.head = head_, !.tail = tail_]
  /\ UNCHANGED <<head_, tail_, buf_, prod, offered, accepted, delivered>>

\* return false: nothing to read.
PopEmpty ==
  /\ cons.pc = "check"
  /\ cons.head = cons.tail
  /\ cons' = [cons EXCEPT !.pc = "idle"]
  /\ UNCHANGED <<head_, tail_, buf_, prod, offered, accepted, delivered>>

\* Mutation of PopSome: the slot is given back before it is copied.
PopSomeEarly ==
  /\ cons.pc = "check"
  /\ cons.head # cons.tail
  /\ tail_' = Plus1(cons.tail)
  /\ cons' = [cons EXCEPT !.pc = "copy"]
  /\ UNCHANGED <<head_, buf_, prod, offered, accepted, delivered>>

PopSome ==
  /\ cons.pc = "check"
  /\ cons.head # cons.tail
  /\ cons' = [cons EXCEPT !.pc = "copy"]
  /\ UNCHANGED <<head_, tail_, buf_, prod, offered, accepted, delivered>>

PopCopy ==
  /\ cons.pc = "copy"
  /\ cons' = [cons EXCEPT !.pc = "store", !.val = buf_[SlotOf(cons.tail)]]
  /\ UNCHANGED <<head_, tail_, buf_, prod, offered, accepted, delivered>>

PopStore ==
  /\ cons.pc = "store"
  /\ tail_' = Plus1(cons.tail)
  /\ delivered' = Append(delivered, cons.val)
  /\ cons' = [cons EXCEPT !.pc = "idle"]
  /\ UNCHANGED <<head_, buf_, prod, offered, accepted>>

Producer == PushLoad \/ PushFull \/ PushRoom \/ PushCopy \/ PushStore
Consumer == PopLoad \/ PopEmpty \/ PopSome \/ PopCopy \/ PopStore

RingNext == Producer \/ Consumer

RingSpec == RingInit /\ [][RingNext]_ringVars

-----------------------------------------------------------------------------
(* Properties.                                                             *)

\* The two memcpy calls never touch the same slot at the same time: push()
\* may be in its copy while pop() is in its own, with no lock around either.
NoSlotRace ==
  ~ /\ prod.pc = "copy"
    /\ cons.pc = "copy"
    /\ SlotOf(prod.head) = SlotOf(cons.tail)

\* pop() hands over exactly what push() accepted, in order, with nothing
\* lost, repeated, overwritten or read before it was written.
DeliveredInOrder ==
  /\ Len(delivered) <= Len(accepted)
  /\ \A i \in 1 .. Len(delivered) : delivered[i] = accepted[i]

\* The ring never holds more than capacity samples, and head_ - tail_ counts
\* them even after one of the two indices has wrapped.
CountIsDistance ==
  /\ Len(accepted) - Len(delivered) \in 0 .. Capacity
  /\ Minus(head_, tail_) = Len(accepted) - Len(delivered)

\* pop() finds head == tail exactly when every accepted sample was delivered:
\* a full ring is never taken for an empty one, wrapped or not.
EmptyMeansDrained ==
  [][PopLoad => (cons'.head = cons'.tail <=> accepted = delivered)]_ringVars

\* Why the properties above hold.  The indices are the numbers of samples
\* accepted and delivered, wrapped; the window between them fits the ring and
\* its slots hold the accepted samples; an index a call has loaded was right
\* at some earlier moment, when the other side had made less progress.
Indices ==
  /\ head_ = Wrap(Len(accepted))
  /\ tail_ = Wrap(Len(delivered))

Window ==
  /\ Len(accepted) - Len(delivered) \in 0 .. Capacity
  /\ \A i \in Len(delivered) + 1 .. Len(accepted) :
       buf_[SlotOf(i - 1)] = accepted[i]

PushInProgress ==
  /\ prod.pc # "idle" =>
       /\ prod.head = head_
       /\ \E t \in 0 .. Len(delivered) :
            /\ prod.tail = Wrap(t)
            /\ Len(accepted) - t <= Capacity
            /\ prod.pc \in {"copy", "store"} => Len(accepted) - t < Capacity
  /\ prod.pc = "store" => buf_[SlotOf(Len(accepted))] = offered

PopInProgress ==
  /\ cons.pc # "idle" =>
       /\ cons.tail = tail_
       /\ \E h \in Len(delivered) .. Len(accepted) :
            /\ cons.head = Wrap(h)
            /\ cons.pc \in {"copy", "store"} => Len(delivered) < h
  /\ cons.pc = "store" => cons.val = accepted[Len(delivered) + 1]

IInv ==
  /\ RingTypeOK
  /\ Indices
  /\ Window
  /\ PushInProgress
  /\ PopInProgress
  /\ DeliveredInOrder

\* The ring implements the bounded queue.  A push that will succeed is decided
\* when it publishes head_, one that will fail when it loads tail_; a pop takes
\* effect when it publishes tail_.
Undecided == prod.pc # "idle" /\ ~ Full(prod)
Decided   == IF Undecided THEN offered - 1 ELSE offered
Queue     == SubSeq(accepted, Len(delivered) + 1, Len(accepted))

Fifo == INSTANCE LoggerFifo WITH decided <- Decided, queue <- Queue

ImplementsFifo == Fifo!Spec
=============================================================================
