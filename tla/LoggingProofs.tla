---------------------------- MODULE LoggingProofs ----------------------------
(***************************************************************************)
(* Proofs about the log: LoggerRing, the ring that carries the samples of  *)
(* one field, and DataLogger, the threads that share the rings.            *)
(***************************************************************************)
EXTENDS DataLogger, LoggerRing, SequenceTheorems, TLAPS

-----------------------------------------------------------------------------
(* LoggerRing, for every capacity, every index width that the capacity     *)
(* divides and every number of samples: type correctness, the absence of a *)
(* race on a slot, first-in first-out delivery, and the refinement of      *)
(* LoggerFifo.                                                             *)
(*                                                                         *)
(* The argument ties the wrapped indices to the two histories: head_ and   *)
(* tail_ are the numbers of samples accepted and delivered, modulo the     *)
(* width, those numbers differ by at most the capacity, and the slots      *)
(* between them hold the accepted samples.  A loaded index may be old, but *)
(* an old tail_ only makes push() see less room than there is, and an old  *)
(* head_ only makes pop() see fewer samples.                               *)

-----------------------------------------------------------------------------
(* Remainders: an index is a count modulo the width, a slot an index       *)
(* modulo the capacity.                                                    *)

\* What division and remainder of integers are.
LEMMA DivMod ==
  ASSUME NEW n \in Int, NEW d \in Nat, d > 0
  PROVE  /\ n \div d \in Int
         /\ n % d \in 0 .. d - 1
         /\ n = d * (n \div d) + (n % d)
  BY SMT

LEMMA EqualRemainders ==
  ASSUME NEW d \in Nat, d > 0, NEW k \in Int,
         NEW r \in 0 .. d - 1, NEW s \in 0 .. d - 1, r - s = d * k
  PROVE  r = s
<1>1. k >= 1 => d * k >= d
  BY SMT
<1>2. k <= -1 => d * k <= -d
  BY SMT
<1> QED
  BY <1>1, <1>2, SMT

\* A decomposition with a small remainder is the decomposition.
LEMMA RemainderUnique ==
  ASSUME NEW d \in Nat, d > 0, NEW q \in Int, NEW r \in 0 .. d - 1,
         NEW n \in Int, n = d * q + r
  PROVE  n % d = r
<1>1. (n % d) - r = d * (q - (n \div d))
  BY DivMod, SMT
<1> QED
  BY <1>1, EqualRemainders, DivMod, SMT

\* Two numbers less than d apart with the same remainder are equal: slots of
\* distinct samples of one window are distinct.
LEMMA ModInjective ==
  ASSUME NEW d \in Nat, d > 0, NEW x \in Int, NEW y \in Int,
         x - y \in 0 .. d - 1, x % d = y % d
  PROVE  x = y
<1>1. (x - y) - 0 = d * ((x \div d) - (y \div d))
  BY DivMod, SMT
<1>2. (x \div d) - (y \div d) \in Int
  BY DivMod
<1> QED
  BY <1>1, <1>2, EqualRemainders, SMT

\* The difference of two wrapped indices is the difference of the counts.
LEMMA ModMinus ==
  ASSUME NEW d \in Nat, d > 0, NEW x \in Int, NEW y \in Int,
         x - y \in 0 .. d - 1
  PROVE  ((x % d) - (y % d)) % d = x - y
<1> DEFINE q == (y \div d) - (x \div d)
<1>1. /\ q \in Int
      /\ (x % d) - (y % d) \in Int
      /\ (x % d) - (y % d) = d * q + (x - y)
  BY DivMod, SMT
<1> HIDE DEF q
<1> QED
  BY <1>1, RemainderUnique

\* Reducing an index to a slot gives the slot of the count, because the
\* capacity divides the width.
LEMMA ModMod ==
  ASSUME NEW d \in Nat, d > 0, NEW m \in Nat, m > 0, m % d = 0, NEW x \in Int
  PROVE  (x % m) % d = x % d
<1> DEFINE k == m \div d
           q == (x \div d) - k * (x \div m)
<1>1. k \in Int /\ m = d * k
  BY DivMod, SMT
<1>2. x \div m \in Int /\ x % m \in Int /\ x = m * (x \div m) + (x % m)
  BY DivMod, SMT
<1>3. x \div d \in Int /\ x % d \in 0 .. d - 1 /\ x = d * (x \div d) + (x % d)
  BY DivMod, SMT
<1> HIDE DEF k
<1>4. m * (x \div m) = d * (k * (x \div m))
  BY <1>1, <1>2, SMT
<1>5. q \in Int /\ x % m = d * q + (x % d)
  BY <1>1, <1>2, <1>3, <1>4, SMT
<1> DEFINE n == x % m
           r == x % d
<1>6. q \in Int /\ n \in Int /\ r \in 0 .. d - 1 /\ n = d * q + r
  BY <1>2, <1>3, <1>5
<1> HIDE DEF q, n, r
<1>7. n % d = r
  BY <1>6, RemainderUnique
<1> QED
  BY <1>7 DEF n, r

\* Reducing a summand does not change the remainder of the sum.
LEMMA ModPlus ==
  ASSUME NEW d \in Nat, d > 0, NEW x \in Int, NEW y \in Int
  PROVE  ((x % d) + y) % d = (x + y) % d
<1> DEFINE a == x \div d
           b == (x + y) \div d
           m == x % d
           r == (x + y) % d
<1>1. /\ a \in Int /\ b \in Int
      /\ m \in 0 .. d - 1 /\ r \in 0 .. d - 1
      /\ x = d * a + m /\ x + y = d * b + r
  BY DivMod
<1> HIDE DEF a, b, m, r
<1> DEFINE q == b - a
           n == m + y
<1>2. q \in Int /\ n \in Int /\ n = d * q + r
  BY <1>1, SMT
<1> HIDE DEF q, n
<1>3. n % d = r
  BY <1>1, <1>2, RemainderUnique
<1> QED
  BY <1>3 DEF m, r, n

-----------------------------------------------------------------------------
(* The invariant.                                                          *)

LEMMA Constants ==
  /\ Capacity \in Nat /\ Capacity > 0
  /\ SizeMod \in Nat /\ SizeMod > Capacity /\ SizeMod % Capacity = 0
  /\ MaxSamples \in Nat
  BY CapacityAssumption, SizeModAssumption, MaxSamplesAssumption

LEMMA IndexType ==
  ASSUME NEW x \in Int
  PROVE  /\ Wrap(x) \in Index
         /\ SlotOf(x) \in Slots
  BY Constants, DivMod, SMT DEF Index, Slots, SlotOf, Wrap

LEMMA SlotOfIndex ==
  ASSUME NEW x \in Nat
  PROVE  SlotOf(Wrap(x)) = SlotOf(x)
<1>1. x \in Int /\ SizeMod > 0
  BY Constants
<1> QED
  BY <1>1, Constants, ModMod, Zenon DEF SlotOf, Wrap

\* Two counts less than the capacity apart have different slots.
LEMMA SlotsDiffer ==
  ASSUME NEW x \in Nat, NEW y \in Nat, x # y,
         x - y < Capacity, y - x < Capacity
  PROVE  SlotOf(x) # SlotOf(y)
<1> x \in Int /\ y \in Int
  OBVIOUS
<1>1. CASE x > y
  <2>1. x - y \in 0 .. Capacity - 1
    BY <1>1, Constants, SMT
  <2> QED
    BY <2>1, Constants, ModInjective, Zenon DEF SlotOf
<1>2. CASE x < y
  <2>1. y - x \in 0 .. Capacity - 1
    BY <1>2, Constants, SMT
  <2> QED
    BY <2>1, Constants, ModInjective, Zenon DEF SlotOf
<1> QED
  BY <1>1, <1>2, SMT

\* The distance of two wrapped counts at most the capacity apart.
LEMMA Distance ==
  ASSUME NEW x \in Nat, NEW y \in Nat, x - y \in 0 .. Capacity
  PROVE  Minus(Wrap(x), Wrap(y)) = x - y
<1>1. /\ x \in Int /\ y \in Int /\ SizeMod > 0
      /\ x - y \in 0 .. SizeMod - 1
  BY Constants
<1> QED
  BY <1>1, Constants, ModMinus, Zenon DEF Minus, Wrap

LEMMA NextIndex ==
  ASSUME NEW x \in Nat
  PROVE  Plus1(Wrap(x)) = Wrap(x + 1)
<1>1. x \in Int /\ 1 \in Int /\ SizeMod > 0
  BY Constants
<1> QED
  BY <1>1, Constants, ModPlus, Zenon DEF Plus1, Wrap

LEMMA InitIInv == RingInit => IInv
<1> SUFFICES ASSUME RingInit PROVE IInv
  OBVIOUS
<1> USE DEF RingInit
<1>1. Wrap(0) = 0
  BY Constants, SMT DEF Wrap
<1>2. RingTypeOK
  BY Constants, SMT DEF RingTypeOK, Index, Slots, Sample
<1>3. Len(accepted) = 0 /\ Len(delivered) = 0
  BY SMT
<1>4. Indices /\ Window /\ DeliveredInOrder
  BY <1>1, <1>3, Constants, SMT DEF Indices, Window, DeliveredInOrder
<1>5. PushInProgress /\ PopInProgress
  BY SMT DEF PushInProgress, PopInProgress
<1> QED
  BY <1>2, <1>4, <1>5 DEF IInv

(* The window is not empty when the indices differ, and conversely.        *)
LEMMA WrapInjective ==
  ASSUME NEW x \in Nat, NEW y \in Nat, x - y \in 0 .. Capacity
  PROVE  Wrap(x) = Wrap(y) <=> x = y
<1>1. /\ x \in Int /\ y \in Int /\ SizeMod > 0
      /\ x - y \in 0 .. SizeMod - 1
  BY Constants
<1> QED
  BY <1>1, Constants, ModInjective, Zenon DEF Wrap

\* What every step proof starts from.
LEMMA Counts ==
  ASSUME IInv
  PROVE  /\ Len(accepted) \in Nat
         /\ Len(delivered) \in Nat
         /\ Len(accepted) - Len(delivered) \in 0 .. Capacity
  BY SMT DEF IInv, RingTypeOK, Window

-----------------------------------------------------------------------------
(* push().                                                                 *)

LEMMA PushLoadStep ==
  ASSUME IInv, PushLoad PROVE IInv'
<1> USE DEF PushLoad
<1>1. RingTypeOK'
  BY Constants, SMT DEF IInv, RingTypeOK, Sample
<1>2. PushInProgress'
  <2>1. Len(delivered) \in 0 .. Len(delivered)
    BY Counts
  <2>2. /\ prod'.head = head_ /\ prod'.tail = tail_ /\ prod'.pc = "check"
        /\ tail_ = Wrap(Len(delivered))
        /\ Len(accepted) - Len(delivered) <= Capacity
    BY Counts, SMT DEF IInv, Indices
  <2> QED
    BY <2>1, <2>2, Zenon DEF PushInProgress
<1>3. PopInProgress' /\ Indices' /\ Window' /\ DeliveredInOrder'
  BY SMT DEF IInv, PopInProgress, Indices, Window, DeliveredInOrder
<1> QED
  BY <1>1, <1>2, <1>3 DEF IInv

LEMMA PushFullStep ==
  ASSUME IInv, PushFull PROVE IInv'
<1> USE DEF PushFull
<1>1. RingTypeOK'
  <2>1. prod' \in [pc : {"idle", "check", "copy", "store"},
                   head : Index, tail : Index]
    BY DEF IInv, RingTypeOK
  <2> QED
    BY <2>1 DEF IInv, RingTypeOK
<1>2. PushInProgress'
  BY SMT DEF IInv, RingTypeOK, PushInProgress
<1>3. PopInProgress' /\ Indices' /\ Window' /\ DeliveredInOrder'
  BY SMT DEF IInv, PopInProgress, Indices, Window, DeliveredInOrder
<1> QED
  BY <1>1, <1>2, <1>3 DEF IInv

LEMMA PushRoomStep ==
  ASSUME IInv, PushRoom PROVE IInv'
<1> USE DEF PushRoom
<1>1. RingTypeOK'
  <2>1. prod' \in [pc : {"idle", "check", "copy", "store"},
                   head : Index, tail : Index]
    BY DEF IInv, RingTypeOK
  <2> QED
    BY <2>1 DEF IInv, RingTypeOK
<1>2. PushInProgress'
  <2>1. PICK t \in 0 .. Len(delivered) : /\ prod.tail = Wrap(t)
                                        /\ Len(accepted) - t <= Capacity
    BY SMT DEF IInv, PushInProgress
  <2>2. /\ t \in Nat
        /\ Len(accepted) - t \in 0 .. Capacity
        /\ prod.head = Wrap(Len(accepted))
    BY <2>1, Counts, Constants DEF IInv, PushInProgress, Indices
  <2>3. Minus(prod.head, prod.tail) = Len(accepted) - t
    BY <2>1, <2>2, Counts, Distance, SMT
  <2>4. Len(accepted) - t < Capacity
    <3>1. ~ (Len(accepted) - t >= Capacity)
      BY <2>3 DEF Full
    <3> QED
      BY <2>2, <3>1, Constants, Counts
  <2> QED
    BY <2>1, <2>4, SMT DEF IInv, RingTypeOK, PushInProgress
<1>3. PopInProgress' /\ Indices' /\ Window' /\ DeliveredInOrder'
  BY SMT DEF IInv, PopInProgress, Indices, Window, DeliveredInOrder
<1> QED
  BY <1>1, <1>2, <1>3 DEF IInv

LEMMA PushCopyStep ==
  ASSUME IInv, PushCopy PROVE IInv'
<1> USE DEF PushCopy
<1> DEFINE a == Len(accepted)
           d == Len(delivered)
<1>1. /\ a \in Nat /\ d \in Nat
      /\ a - d \in 0 .. Capacity - 1
      /\ prod.head = Wrap(a)
  BY Counts, Constants DEF IInv, PushInProgress, Indices
<1>2. SlotOf(prod.head) = SlotOf(a) /\ SlotOf(a) \in Slots
  BY <1>1, SlotOfIndex, IndexType
<1>3. \A i \in d + 1 .. a : SlotOf(i - 1) # SlotOf(a)
  <2> SUFFICES ASSUME NEW i \in d + 1 .. a
               PROVE  SlotOf(i - 1) # SlotOf(a)
    OBVIOUS
  <2>1. /\ i - 1 \in Nat /\ i - 1 # a
        /\ (i - 1) - a < Capacity /\ a - (i - 1) < Capacity
    BY <1>1, Constants, SMT
  <2> QED
    BY <1>1, <2>1, SlotsDiffer
<1>4. RingTypeOK'
  <2>1. prod' \in [pc : {"idle", "check", "copy", "store"},
                   head : Index, tail : Index]
    BY DEF IInv, RingTypeOK
  <2>2. buf_' \in [Slots -> Sample]
    BY <1>2 DEF IInv, RingTypeOK
  <2> QED
    BY <2>1, <2>2 DEF IInv, RingTypeOK
<1>5. Window'
  <2>1. \A i \in d + 1 .. a : SlotOf(i - 1) \in Slots
    BY <1>1, IndexType, SMT
  <2>2. \A i \in d + 1 .. a : buf_'[SlotOf(i - 1)] = buf_[SlotOf(i - 1)]
    BY <1>2, <1>3, <2>1 DEF IInv, RingTypeOK
  <2> QED
    BY <2>2 DEF IInv, Window
<1>6. PushInProgress'
  <2>1. buf_'[SlotOf(a)] = offered
    BY <1>2 DEF IInv, RingTypeOK
  <2>2. /\ prod'.pc = "store"
        /\ prod'.head = prod.head /\ prod'.tail = prod.tail
    BY DEF IInv, RingTypeOK
  <2> QED
    BY <2>1, <2>2 DEF IInv, PushInProgress
<1>7. PopInProgress' /\ Indices' /\ DeliveredInOrder'
  BY DEF IInv, PopInProgress, Indices, DeliveredInOrder
<1> QED
  BY <1>4, <1>5, <1>6, <1>7 DEF IInv

LEMMA PushStoreStep ==
  ASSUME IInv, PushStore PROVE IInv'
<1> USE DEF PushStore
<1> DEFINE a == Len(accepted)
           d == Len(delivered)
<1>1. /\ a \in Nat /\ d \in Nat
      /\ a - d \in 0 .. Capacity - 1
      /\ prod.head = Wrap(a)
      /\ buf_[SlotOf(a)] = offered
  BY Counts, Constants DEF IInv, PushInProgress, Indices
<1>2. /\ Len(accepted') = a + 1
      /\ accepted'[a + 1] = offered
      /\ \A i \in 1 .. a : accepted'[i] = accepted[i]
      /\ accepted' \in Seq(Sample)
  BY <1>1 DEF IInv, RingTypeOK
<1>3. head_' = Wrap(a + 1) /\ head_' \in Index
  BY <1>1, NextIndex, IndexType
<1>4. RingTypeOK'
  <2>1. prod' \in [pc : {"idle", "check", "copy", "store"},
                   head : Index, tail : Index]
    BY DEF IInv, RingTypeOK
  <2> QED
    BY <1>2, <1>3, <2>1 DEF IInv, RingTypeOK
<1>5. Indices'
  BY <1>2, <1>3 DEF IInv, Indices
<1>6. Window'
  <2>1. \A i \in d + 1 .. a + 1 : buf_[SlotOf(i - 1)] = accepted'[i]
    <3> SUFFICES ASSUME NEW i \in d + 1 .. a + 1
                 PROVE  buf_[SlotOf(i - 1)] = accepted'[i]
      OBVIOUS
    <3>1. CASE i = a + 1
      <4>1. i - 1 = a
        BY <1>1, <3>1
      <4> QED
        BY <1>1, <1>2, <3>1, <4>1
    <3>2. CASE i \in d + 1 .. a
      BY <1>1, <1>2, <3>2 DEF IInv, Window
    <3> QED
      BY <1>1, <3>1, <3>2
  <2> QED
    BY <1>1, <1>2, <2>1, Constants DEF Window
<1>7. PushInProgress'
  BY DEF IInv, RingTypeOK, PushInProgress
<1>8. PopInProgress'
  <2>1. ASSUME cons.pc # "idle"
        PROVE  \E h \in d .. a + 1 :
                 /\ cons.head = Wrap(h)
                 /\ cons.pc \in {"copy", "store"} => d < h
    BY <1>1, <2>1 DEF IInv, PopInProgress
  <2>2. ASSUME cons.pc = "store"
        PROVE  cons.val = accepted'[d + 1]
    <3>1. d < a /\ cons.val = accepted[d + 1]
      BY <1>1, <2>2 DEF IInv, PopInProgress
    <3> QED
      BY <1>1, <1>2, <3>1
  <2> QED
    BY <1>2, <2>1, <2>2 DEF IInv, PopInProgress
<1>9. DeliveredInOrder'
  BY <1>1, <1>2 DEF IInv, DeliveredInOrder
<1> QED
  BY <1>4, <1>5, <1>6, <1>7, <1>8, <1>9 DEF IInv

-----------------------------------------------------------------------------
(* pop().                                                                  *)

LEMMA PopLoadStep ==
  ASSUME IInv, PopLoad PROVE IInv'
<1> USE DEF PopLoad
<1>1. cons' = [pc |-> "check", head |-> head_, tail |-> tail_, val |-> cons.val]
  BY DEF IInv, RingTypeOK
<1>2. RingTypeOK'
  BY <1>1 DEF IInv, RingTypeOK
<1>3. PopInProgress'
  <2>1. Len(accepted) \in Len(delivered) .. Len(accepted)
    BY Counts, Constants
  <2>2. head_ = Wrap(Len(accepted))
    BY DEF IInv, Indices
  <2> QED
    BY <1>1, <2>1, <2>2 DEF PopInProgress
<1>4. PushInProgress' /\ Indices' /\ Window' /\ DeliveredInOrder'
  BY DEF IInv, PushInProgress, Indices, Window, DeliveredInOrder
<1> QED
  BY <1>2, <1>3, <1>4 DEF IInv

LEMMA PopEmptyStep ==
  ASSUME IInv, PopEmpty PROVE IInv'
<1> USE DEF PopEmpty
<1>1. cons' = [pc |-> "idle", head |-> cons.head, tail |-> cons.tail,
               val |-> cons.val]
  BY DEF IInv, RingTypeOK
<1>2. RingTypeOK' /\ PopInProgress'
  BY <1>1 DEF IInv, RingTypeOK, PopInProgress
<1>3. PushInProgress' /\ Indices' /\ Window' /\ DeliveredInOrder'
  BY DEF IInv, PushInProgress, Indices, Window, DeliveredInOrder
<1> QED
  BY <1>2, <1>3 DEF IInv

LEMMA PopSomeStep ==
  ASSUME IInv, PopSome PROVE IInv'
<1> USE DEF PopSome
<1>1. cons' = [pc |-> "copy", head |-> cons.head, tail |-> cons.tail,
               val |-> cons.val]
  BY DEF IInv, RingTypeOK
<1>2. RingTypeOK'
  BY <1>1 DEF IInv, RingTypeOK
<1>3. PopInProgress'
  <2>1. PICK h \in Len(delivered) .. Len(accepted) : cons.head = Wrap(h)
    BY DEF IInv, PopInProgress
  <2>2. cons.tail = Wrap(Len(delivered))
    BY DEF IInv, PopInProgress, Indices
  <2>3. Len(delivered) < h
    BY <2>1, <2>2, Counts
  <2> QED
    BY <1>1, <2>1, <2>3 DEF IInv, PopInProgress
<1>4. PushInProgress' /\ Indices' /\ Window' /\ DeliveredInOrder'
  BY DEF IInv, PushInProgress, Indices, Window, DeliveredInOrder
<1> QED
  BY <1>2, <1>3, <1>4 DEF IInv

LEMMA PopCopyStep ==
  ASSUME IInv, PopCopy PROVE IInv'
<1> USE DEF PopCopy
<1> DEFINE d == Len(delivered)
<1>1. d \in Nat /\ Len(accepted) \in Nat /\ d < Len(accepted)
  BY Counts DEF IInv, PopInProgress
<1>2. SlotOf(cons.tail) = SlotOf(d) /\ SlotOf(d) \in Slots
  BY <1>1, SlotOfIndex, IndexType DEF IInv, PopInProgress, Indices
<1>3. buf_[SlotOf(d)] = accepted[d + 1]
  <2>1. d + 1 \in d + 1 .. Len(accepted) /\ (d + 1) - 1 = d
    BY <1>1
  <2> QED
    BY <2>1 DEF IInv, Window
<1>4. cons' = [pc |-> "store", head |-> cons.head, tail |-> cons.tail,
               val |-> accepted[d + 1]]
  BY <1>2, <1>3 DEF IInv, RingTypeOK
<1>5. RingTypeOK'
  <2>1. d + 1 \in 1 .. Len(accepted)
    BY <1>1
  <2>2. accepted[d + 1] \in Sample
    BY <2>1 DEF IInv, RingTypeOK
  <2> QED
    BY <1>4, <2>2 DEF IInv, RingTypeOK
<1>6. PopInProgress'
  <2>1. cons.tail = tail_
    BY DEF IInv, PopInProgress
  <2>2. PICK h \in d .. Len(accepted) : cons.head = Wrap(h) /\ d < h
    BY DEF IInv, PopInProgress
  <2>3. /\ cons'.pc = "store" /\ cons'.val = accepted[d + 1]
        /\ cons'.head = cons.head /\ cons'.tail = cons.tail
    <3> HIDE DEF PopCopy
    <3> QED
      BY <1>4
  <2> QED
    BY <2>1, <2>2, <2>3 DEF PopInProgress
<1>7. PushInProgress' /\ Indices' /\ Window' /\ DeliveredInOrder'
  BY DEF IInv, PushInProgress, Indices, Window, DeliveredInOrder
<1> QED
  BY <1>5, <1>6, <1>7 DEF IInv

LEMMA PopStoreStep ==
  ASSUME IInv, PopStore PROVE IInv'
<1> USE DEF PopStore
<1> DEFINE a == Len(accepted)
           d == Len(delivered)
<1>1. /\ d \in Nat /\ a \in Nat /\ d < a
      /\ a - d \in 0 .. Capacity
      /\ cons.tail = Wrap(d)
      /\ cons.val = accepted[d + 1]
  BY Counts, Constants DEF IInv, PopInProgress, Indices
<1>2. /\ Len(delivered') = d + 1
      /\ delivered'[d + 1] = accepted[d + 1]
      /\ \A i \in 1 .. d : delivered'[i] = delivered[i]
      /\ delivered' \in Seq(Sample)
  BY <1>1 DEF IInv, RingTypeOK
<1>3. tail_' = Wrap(d + 1) /\ tail_' \in Index
  BY <1>1, NextIndex, IndexType
<1>4. cons' = [pc |-> "idle", head |-> cons.head, tail |-> cons.tail,
               val |-> cons.val]
  BY DEF IInv, RingTypeOK
<1>5. RingTypeOK'
  BY <1>2, <1>3, <1>4 DEF IInv, RingTypeOK
<1>6. Indices'
  BY <1>2, <1>3 DEF IInv, Indices
<1>7. Window'
  <2>1. a - (d + 1) \in 0 .. Capacity
    BY <1>1, Constants
  <2>2. \A i \in (d + 1) + 1 .. a : i \in d + 1 .. a
    BY <1>1
  <2> QED
    BY <1>2, <2>1, <2>2 DEF IInv, Window
<1>8. PushInProgress'
  <2>1. ASSUME prod.pc # "idle"
        PROVE  \E t \in 0 .. d + 1 :
                 /\ prod.tail = Wrap(t)
                 /\ a - t <= Capacity
                 /\ prod.pc \in {"copy", "store"} => a - t < Capacity
    BY <1>1, <2>1 DEF IInv, PushInProgress
  <2> QED
    BY <1>2, <2>1 DEF IInv, PushInProgress
<1>9. PopInProgress'
  BY <1>4 DEF PopInProgress
<1>10. DeliveredInOrder'
  <2>1. \A i \in 1 .. d + 1 : delivered'[i] = accepted[i]
    <3> SUFFICES ASSUME NEW i \in 1 .. d + 1
                 PROVE  delivered'[i] = accepted[i]
      OBVIOUS
    <3>1. CASE i = d + 1
      BY <1>2, <3>1
    <3>2. CASE i \in 1 .. d
      BY <1>2, <3>2 DEF IInv, DeliveredInOrder
    <3> QED
      BY <1>1, <3>1, <3>2
  <2> QED
    BY <1>1, <1>2, <2>1 DEF DeliveredInOrder
<1> QED
  BY <1>5, <1>6, <1>7, <1>8, <1>9, <1>10 DEF IInv

-----------------------------------------------------------------------------
(* Theorems.                                                               *)

LEMMA StepIInv ==
  ASSUME IInv, [RingNext]_ringVars PROVE IInv'
<1>1. CASE UNCHANGED ringVars
  BY <1>1 DEF ringVars, IInv, RingTypeOK, Indices, Window, PushInProgress,
              PopInProgress, DeliveredInOrder
<1>2. CASE Producer
  BY <1>2, PushLoadStep, PushFullStep, PushRoomStep, PushCopyStep,
     PushStoreStep DEF Producer
<1>3. CASE Consumer
  BY <1>3, PopLoadStep, PopEmptyStep, PopSomeStep, PopCopyStep,
     PopStoreStep DEF Consumer
<1> QED
  BY <1>1, <1>2, <1>3 DEF RingNext

\* The invariant that ties the wrapped indices of log_channel.cpp to the
\* histories holds in every reachable state.
THEOREM RingInvariance == RingSpec => []IInv
  BY InitIInv, StepIInv, PTL DEF RingSpec

\* Every index, slot and sample stays in its range.
THEOREM RingTypeCorrect == RingSpec => []RingTypeOK
<1>1. IInv => RingTypeOK
  BY DEF IInv
<1> QED
  BY <1>1, RingInvariance, PTL

\* push() and pop() never copy to and from one slot at the same time, for any
\* capacity and any index width it divides.
THEOREM RaceFree == RingSpec => []NoSlotRace
<1>1. IInv => NoSlotRace
  <2> SUFFICES ASSUME IInv, prod.pc = "copy", cons.pc = "copy"
               PROVE  SlotOf(prod.head) # SlotOf(cons.tail)
    BY DEF NoSlotRace
  <2> DEFINE a == Len(accepted)
             d == Len(delivered)
  <2>1. /\ a \in Nat /\ d \in Nat
        /\ d < a /\ a - d < Capacity
        /\ prod.head = Wrap(a) /\ cons.tail = Wrap(d)
    BY Counts, Constants DEF IInv, PushInProgress, PopInProgress, Indices
  <2>2. a # d /\ d - a < Capacity
    BY <2>1, Constants
  <2>3. SlotOf(a) # SlotOf(d)
    BY <2>1, <2>2, SlotsDiffer
  <2> QED
    BY <2>1, <2>3, SlotOfIndex
<1> QED
  BY <1>1, RingInvariance, PTL

\* pop() returns what push() accepted, in order, once each.
THEOREM FifoDelivery == RingSpec => []DeliveredInOrder
<1>1. IInv => DeliveredInOrder
  BY DEF IInv
<1> QED
  BY <1>1, RingInvariance, PTL

\* head_ - tail_, computed in wrapping arithmetic, is the number of samples in
\* the ring, which never exceeds the capacity.
THEOREM DistanceCounts == RingSpec => []CountIsDistance
<1>1. IInv => CountIsDistance
  BY Counts, Distance DEF IInv, Indices, CountIsDistance
<1> QED
  BY <1>1, RingInvariance, PTL

\* pop() finds the indices equal exactly when it has returned everything push()
\* accepted, even if both indices have wrapped since.
THEOREM EmptyDetection == RingSpec => EmptyMeansDrained
<1>1. ASSUME IInv, PopLoad
      PROVE  cons'.head = cons'.tail <=> accepted = delivered
  <2>1. cons'.head = head_ /\ cons'.tail = tail_
    BY <1>1 DEF PopLoad, IInv, RingTypeOK
  <2>2. head_ = tail_ <=> Len(accepted) = Len(delivered)
    BY <1>1, Counts, WrapInjective DEF IInv, Indices
  <2>3. Len(accepted) = Len(delivered) => accepted = delivered
    BY <1>1, SeqEqual DEF IInv, RingTypeOK, DeliveredInOrder
  <2> QED
    BY <2>1, <2>2, <2>3
<1> QED
  BY <1>1, RingInvariance, PTL DEF RingSpec, EmptyMeansDrained

-----------------------------------------------------------------------------
(* Refinement of LoggerFifo.                                               *)

\* The last Len(s) - d elements of a sequence.
LEMMA Suffix ==
  ASSUME NEW S, NEW s \in Seq(S), NEW d \in 0 .. Len(s)
  PROVE  /\ SubSeq(s, d + 1, Len(s)) \in Seq(S)
         /\ Len(SubSeq(s, d + 1, Len(s))) = Len(s) - d
         /\ \A i \in 1 .. Len(s) - d : SubSeq(s, d + 1, Len(s))[i] = s[d + i]
<1> DEFINE m == d + 1
           n == Len(s)
<1>1. n \in Nat /\ m \in Int /\ \A i \in m .. n : s[i] \in S
  OBVIOUS
<1> HIDE DEF m, n
<1>2. /\ SubSeq(s, m, n) \in Seq(S)
      /\ Len(SubSeq(s, m, n)) = IF m <= n THEN n - m + 1 ELSE 0
      /\ \A i \in 1 .. n - m + 1 : SubSeq(s, m, n)[i] = s[m + i - 1]
  BY <1>1, SubSeqProperties
<1>3. Len(SubSeq(s, d + 1, Len(s))) = Len(s) - d
  BY <1>2 DEF m, n
<1>4. \A i \in 1 .. Len(s) - d : SubSeq(s, d + 1, Len(s))[i] = s[d + i]
  <2> SUFFICES ASSUME NEW i \in 1 .. Len(s) - d
               PROVE  SubSeq(s, m, n)[i] = s[d + i]
    BY DEF m, n
  <2>1. i \in 1 .. n - m + 1 /\ m + i - 1 = d + i
    BY DEF m, n
  <2> QED
    BY <1>2, <2>1
<1> QED
  BY <1>2, <1>3, <1>4 DEF m, n

\* Appending to a sequence appends to each of its suffixes.
LEMMA SuffixOfAppend ==
  ASSUME NEW S, NEW s \in Seq(S), NEW d \in 0 .. Len(s), NEW x \in S
  PROVE  SubSeq(Append(s, x), d + 1, Len(Append(s, x)))
           = Append(SubSeq(s, d + 1, Len(s)), x)
<1> DEFINE t == Append(s, x)
           p == SubSeq(s, d + 1, Len(s))
           q == SubSeq(t, d + 1, Len(t))
           r == Append(p, x)
           k == Len(s) - d
<1>1. /\ t \in Seq(S) /\ Len(t) = Len(s) + 1
      /\ \A i \in 1 .. Len(s) : t[i] = s[i]
      /\ t[Len(s) + 1] = x
  BY AppendProperties
<1>2. Len(s) \in Nat /\ d \in 0 .. Len(t) /\ k \in Nat
  BY <1>1
<1>3. /\ p \in Seq(S) /\ Len(p) = k
      /\ \A i \in 1 .. k : p[i] = s[d + i]
  BY Suffix
<1> HIDE DEF t, p
<1>4. /\ q \in Seq(S) /\ Len(q) = Len(t) - d
      /\ \A i \in 1 .. Len(t) - d : q[i] = t[d + i]
  BY <1>1, <1>2, Suffix
<1>5. /\ r \in Seq(S) /\ Len(r) = Len(p) + 1
      /\ \A i \in 1 .. Len(p) : r[i] = p[i]
      /\ r[Len(p) + 1] = x
  BY <1>3, AppendProperties
<1>6. Len(q) = k + 1 /\ Len(r) = k + 1
  BY <1>1, <1>2, <1>3, <1>4, <1>5
<1> HIDE DEF q, r
<1>7. \A i \in 1 .. k + 1 : q[i] = r[i]
  <2> SUFFICES ASSUME NEW i \in 1 .. k + 1 PROVE q[i] = r[i]
    OBVIOUS
  <2>1. q[i] = t[d + i]
    BY <1>1, <1>2, <1>4
  <2>2. CASE i = k + 1
    <3>1. d + i = Len(s) + 1 /\ Len(p) + 1 = i
      BY <1>2, <1>3, <2>2
    <3> QED
      BY <1>1, <1>5, <2>1, <3>1
  <2>3. CASE i \in 1 .. k
    <3>1. d + i \in 1 .. Len(s)
      BY <1>2, <2>3
    <3> QED
      BY <1>1, <1>3, <1>5, <2>1, <2>3, <3>1
  <2> QED
    BY <1>2, <2>2, <2>3
<1>8. q = r
  BY <1>4, <1>5, <1>6, <1>7, SeqEqual
<1> QED
  BY <1>8 DEF q, r, t, p

LEMMA QueueLength ==
  ASSUME IInv
  PROVE  /\ accepted \in Seq(Sample)
         /\ Len(delivered) \in 0 .. Len(accepted)
         /\ Len(Queue) = Len(accepted) - Len(delivered)
<1>1. accepted \in Seq(Sample) /\ Len(delivered) \in 0 .. Len(accepted)
  BY Counts, Constants DEF IInv, RingTypeOK
<1> QED
  BY <1>1, Suffix DEF Queue

\* push() in its copy or about to publish has found room.
LEMMA RoomWhileCopying ==
  ASSUME IInv, prod.pc \in {"copy", "store"}
  PROVE  /\ ~ Full(prod)
         /\ Len(accepted) - Len(delivered) < Capacity
<1>1. PICK t \in 0 .. Len(delivered) : /\ prod.tail = Wrap(t)
                                      /\ Len(accepted) - t < Capacity
  BY DEF IInv, PushInProgress
<1>2. /\ t \in Nat
      /\ Len(accepted) - t \in 0 .. Capacity
      /\ prod.head = Wrap(Len(accepted))
      /\ Len(accepted) - Len(delivered) < Capacity
  BY <1>1, Counts, Constants DEF IInv, PushInProgress, Indices
<1>3. Minus(prod.head, prod.tail) = Len(accepted) - t
  BY <1>1, <1>2, Counts, Distance
<1> QED
  BY <1>1, <1>2, <1>3, Constants, Counts DEF Full

LEMMA FifoInit == RingInit => Fifo!Init
<1> SUFFICES ASSUME RingInit PROVE Fifo!Init
  OBVIOUS
<1>1. Decided = 0
  BY DEF RingInit, Decided, Undecided
<1>2. Queue = <<>>
  BY SubSeqEmpty DEF RingInit, Queue
<1> QED
  BY <1>1, <1>2 DEF RingInit, Fifo!Init

\* A push that finds the ring full drops its sample while the queue is full.
LEMMA FifoPushLoad ==
  ASSUME IInv, PushLoad
  PROVE  Fifo!Drop \/ UNCHANGED Fifo!vars
<1> DEFINE full == Minus(head_, tail_) >= Capacity
<1>1. /\ Queue' = Queue /\ delivered' = delivered
      /\ Decided = offered
      /\ Decided' = IF full THEN offered + 1 ELSE offered
  <2>1. ~ Undecided
    BY DEF PushLoad, Undecided
  <2>2. Undecided' <=> ~ full
    BY DEF PushLoad, Undecided, Full
  <2>3. offered' = offered + 1 /\ offered \in Nat
    BY Constants DEF PushLoad, IInv, RingTypeOK, Sample
  <2> QED
    BY <2>1, <2>2, <2>3 DEF PushLoad, Decided, Queue
<1>2. CASE full
  <2>1. Minus(head_, tail_) = Len(accepted) - Len(delivered)
    BY Counts, Distance DEF IInv, Indices
  <2>2. Len(Queue) = Capacity
    BY <1>2, <2>1, Counts, QueueLength, Constants
  <2> QED
    BY <1>1, <1>2, <2>2 DEF PushLoad, Fifo!Drop
<1>3. CASE ~ full
  BY <1>1, <1>3 DEF Fifo!vars
<1> QED
  BY <1>2, <1>3

\* Between its load and its store, push() changes nothing the queue shows.
LEMMA FifoPushInside ==
  ASSUME IInv, PushFull \/ PushRoom \/ PushCopy
  PROVE  UNCHANGED Fifo!vars
<1>1. Queue' = Queue /\ delivered' = delivered /\ offered' = offered
  BY DEF PushFull, PushRoom, PushCopy, Queue
<1>2. /\ prod'.head = prod.head /\ prod'.tail = prod.tail
      /\ PushFull => prod'.pc = "idle"
      /\ PushRoom => prod'.pc = "copy"
      /\ PushCopy => prod'.pc = "store"
  BY DEF PushFull, PushRoom, PushCopy, IInv, RingTypeOK
<1>3. Undecided' <=> Undecided
  <2>1. CASE PushFull
    BY <1>2, <2>1 DEF PushFull, Undecided
  <2>2. CASE PushRoom
    BY <1>2, <2>2 DEF PushRoom, Undecided, Full
  <2>3. CASE PushCopy
    BY <1>2, <2>3 DEF PushCopy, Undecided, Full
  <2> QED
    BY <2>1, <2>2, <2>3
<1> QED
  BY <1>1, <1>3 DEF Decided, Fifo!vars

\* Publishing head_ queues the sample.
LEMMA FifoPushStore ==
  ASSUME IInv, PushStore
  PROVE  Fifo!Push
<1>1. /\ Len(accepted) - Len(delivered) < Capacity
      /\ prod.pc = "store" /\ ~ Full(prod)
  BY RoomWhileCopying DEF PushStore
<1>2. prod'.pc = "idle"
  BY DEF PushStore, IInv, RingTypeOK
<1>3. /\ offered \in Nat /\ offered <= MaxSamples /\ offered \in Sample
      /\ Decided = offered - 1 /\ Decided' = offered
  BY <1>1, <1>2, Constants
  DEF PushStore, Decided, Undecided, IInv, RingTypeOK, Sample
<1>4. accepted' = Append(accepted, offered) /\ delivered' = delivered
  BY DEF PushStore
<1>5. Queue' = Append(Queue, offered)
  BY <1>3, <1>4, QueueLength, SuffixOfAppend DEF Queue
<1>6. Len(Queue) < Capacity
  BY <1>1, QueueLength
<1>7. Decided < MaxSamples /\ Decided + 1 = offered
  BY <1>3, Constants
<1> QED
  BY <1>3, <1>4, <1>5, <1>6, <1>7 DEF Fifo!Push

\* Publishing tail_ takes the head of the queue.
LEMMA FifoPopStore ==
  ASSUME IInv, PopStore
  PROVE  Fifo!Pop
<1> DEFINE a == Len(accepted)
           d == Len(delivered)
<1>1. /\ a \in Nat /\ d \in Nat /\ d < a
      /\ cons.val = accepted[d + 1]
  BY Counts DEF PopStore, IInv, PopInProgress
<1>2. /\ accepted' = accepted
      /\ delivered' = Append(delivered, cons.val)
      /\ Len(delivered') = d + 1
      /\ Decided' = Decided
  BY DEF PopStore, IInv, RingTypeOK, Decided, Undecided, Full
<1>3. /\ accepted \in Seq(Sample)
      /\ d + 1 \in 1 .. a /\ a \in d + 1 .. a
  BY <1>1, QueueLength
<1>4. /\ Head(SubSeq(accepted, d + 1, a)) = accepted[d + 1]
      /\ Tail(SubSeq(accepted, d + 1, a)) = SubSeq(accepted, (d + 1) + 1, a)
  <2> DEFINE m == d + 1
  <2>1. m \in 1 .. Len(accepted) /\ a \in m .. Len(accepted)
    BY <1>3
  <2> HIDE DEF m, a
  <2>2. /\ Head(SubSeq(accepted, m, a)) = accepted[m]
        /\ Tail(SubSeq(accepted, m, a)) = SubSeq(accepted, m + 1, a)
    BY <1>3, <2>1, HeadTailOfSubSeq
  <2> QED
    BY <2>2 DEF m
<1>5. Queue # <<>>
  BY <1>1, QueueLength
<1>6. Queue' = Tail(Queue) /\ Head(Queue) = cons.val
  BY <1>1, <1>2, <1>4 DEF Queue
<1> QED
  BY <1>2, <1>5, <1>6 DEF Fifo!Pop

\* The other steps of pop() change nothing the queue shows.
LEMMA FifoPopInside ==
  ASSUME PopLoad \/ PopEmpty \/ PopSome \/ PopCopy
  PROVE  UNCHANGED Fifo!vars
  BY DEF PopLoad, PopEmpty, PopSome, PopCopy, Queue, Decided, Undecided,
         Full, Fifo!vars

\* The ring is a bounded first-in first-out queue: every step of its two
\* threads is a step of LoggerFifo or changes nothing LoggerFifo shows.
THEOREM Refinement == RingSpec => ImplementsFifo
<1>1. ASSUME IInv, [RingNext]_ringVars
      PROVE  [Fifo!Next]_Fifo!vars
  <2>1. CASE UNCHANGED ringVars
    BY <2>1 DEF ringVars, Fifo!vars, Queue, Decided, Undecided, Full
  <2>2. CASE Producer
    BY <1>1, <2>2, FifoPushLoad, FifoPushInside, FifoPushStore
    DEF Producer, Fifo!Next
  <2>3. CASE Consumer
    BY <1>1, <2>3, FifoPopInside, FifoPopStore DEF Consumer, Fifo!Next
  <2> QED
    BY <1>1, <2>1, <2>2, <2>3 DEF RingNext
<1> QED
  BY <1>1, FifoInit, RingInvariance, PTL DEF RingSpec, Fifo!Spec, ImplementsFifo

-----------------------------------------------------------------------------
(***************************************************************************)
(* DataLogger, for every set of fields and every capacity of a ring,       *)
(* however the main loop, the read thread and the file writer interleave:  *)
(* type correctness, no ring is used after it is freed, what was pushed is *)
(* written before a log is closed, and nothing changes the vector of       *)
(* channels while the file writer goes through it.                         *)
(*                                                                         *)
(* None of the three is inductive.  The invariant says who holds which     *)
(* mutex at which point (Locks), what the log_ring pointers and channels_  *)
(* mean between the points where they agree (Rings), and how far the file  *)
(* writer is when it may stop (Writer).                                    *)
(***************************************************************************)

\* The points at which the main loop holds periph_buf_mutex.
MainHolds ==
  \/ main \in {"click", "null", "rebuild", "add", "adding", "unlock"}
  \/ main \in {"notify", "join_fwriter", "clear", "clearing"} /\ clear_for \in {"stop", "rebuild"}

\* The points at which it has joined the read thread.
ReaderGone ==
  \/ main \in {"config", "quit_stop", "quit"}
  \/ main \in {"notify", "join_fwriter", "clear", "clearing"} /\ clear_for \in {"load", "quit"}

\* Each mutex is held exactly where the code holds it; the threads that the
\* main loop waits for before it frees the channels are then gone.
Locks ==
  /\ periph_buf_mutex = "main" <=> MainHolds
  /\ periph_buf_mutex = "reader" <=> reader \in {"scan", "push"}
  /\ main \in {"notify", "join_fwriter"} => clear_for \in {"stop", "quit"}
  /\ main = "null" => clear_for = "stop"
  /\ ReaderGone => reader = "none"
  /\ channels_mutex_ = "main" <=> main \in {"clearing", "adding"}
  /\ channels_mutex_ = "fwriter" <=> fwriter \in {"drain", "flush"}

Logged(f) == log_ring[f] # "null"

HasChannel(f) == \E i \in 1 .. Len(channels_) : channels_[i] = f

\* A log_ring pointer that is set leads to a live ring of a subscribed field,
\* but for the points at which the reader is gone or the main loop, under
\* periph_buf_mutex, has set all of them to null; live rings are channels.
Rings ==
  /\ \A f \in Field : log_ring[f] = "live" \/ waiting[f] > 0 => HasChannel(f)
  /\ main \notin {"config", "quit"} =>
       \A f \in Field : Logged(f) => log_ring[f] = "live" /\ f \in subscribed_list
  /\ main \in {"clear", "clearing"} /\ clear_for \in {"stop", "rebuild"} =>
       \A f \in Field : ~Logged(f)
  /\ \/ main \in {"add", "adding"}
     \/ main \in {"clear", "clearing"} /\ clear_for = "rebuild"
     => running_ /\ subscribed_list = subscribed /\ to_add \subseteq subscribed
  /\ ~ReaderGone /\ main \notin {"notify", "join_fwriter", "null"} =>
       \A f \in Field : Logged(f) => running_
  /\ \/ main \in {"frame", "lock", "join_reader", "quit_join", "click", "add", "adding", "unlock"}
     \/ main = "rebuild" /\ ~subscribed_dirty
     => \A f \in Field : Logged(f) => f \in subscribed
  /\ reader = "scan" => updated \subseteq Field
  /\ reader = "push" => target \in Field /\ log_ring[target] = "live"

\* No sample waits in a ring.
Drained == \A f \in Field : waiting[f] = 0

\* The file writer runs while a log does, and it ends only after a last round
\* in which it emptied the channels one by one.
Writer ==
  /\ running_ => fwriter \notin {"none", "final", "flush", "done"}
  /\ main \in {"notify", "join_fwriter", "null", "quit"} => ~running_
  /\ main \in {"clear", "clearing"} /\ clear_for \in {"stop", "quit"} => ~running_
  /\ ~running_ /\ main \notin {"notify", "join_fwriter"} => fwriter = "none"
  /\ fwriter \in {"none", "done"} => Drained
  /\ fwriter \in {"drain", "flush"} => cursor \in 1 .. Len(channels_) + 1
  /\ fwriter = "flush" => \A i \in 1 .. cursor - 1 : waiting[channels_[i]] = 0

-----------------------------------------------------------------------------
(* Types.                                                                  *)

LEMMA AppendFacts ==
  ASSUME NEW S, NEW s \in Seq(S), NEW e \in S
  PROVE  /\ Append(s, e) \in Seq(S) /\ Len(Append(s, e)) = Len(s) + 1 /\ Len(s) \in Nat
         /\ \A i \in 1 .. Len(s) : Append(s, e)[i] = s[i]
         /\ Append(s, e)[Len(s) + 1] = e
OBVIOUS

LEMMA ExceptType ==
  ASSUME NEW S, NEW T, NEW w \in [S -> T], NEW x, NEW v, x \in S => v \in T
  PROVE  [w EXCEPT ![x] = v] \in [S -> T]
OBVIOUS

LEMMA TypeStep ==
  ASSUME TypeOK, [Next]_vars
  PROVE  TypeOK'
<1>1. CASE Load
  <2>1. link_running' \in BOOLEAN
    BY <1>1 DEF Load, configVars, readerVars
  <2> QED
    BY <1>1, <2>1 DEF Load, configVars, readerVars, TypeOK, MainPc
<1>2. CASE BeginFrame
  BY <1>2 DEF BeginFrame, mainOnly, readerVars, configVars, TypeOK, MainPc
<1>3. CASE Quit
  <2>1. link_running' \in BOOLEAN
    BY <1>3 DEF Quit, configVars, readerVars
  <2> QED
    BY <1>3, <2>1 DEF Quit, configVars, readerVars, TypeOK, MainPc
<1>4. CASE ClearLock
  BY <1>4 DEF ClearLock, configVars, readerVars, TypeOK, MainPc
<1>5. CASE ClearChannels
  <2>1. main' \in MainPc
    BY <1>5 DEF ClearChannels, TypeOK, MainPc
  <2>2. log_ring' \in [Field -> {"null", "live", "dangling"}]
    BY <1>5 DEF ClearChannels
  <2>3. waiting' \in [Field -> 0 .. RingCapacity] /\ channels_' \in Seq(Field)
    BY <1>5, LoggerAssumption DEF ClearChannels
  <2> QED
    BY <1>5, <2>1, <2>2, <2>3 DEF ClearChannels, configVars, readerVars, TypeOK
<1>6. CASE JoinReader
  BY <1>6 DEF JoinReader, configVars, readerVars, TypeOK, MainPc
<1>7. CASE LoadConfig
  <2>1. subscribed_dirty' \in BOOLEAN /\ link_running' \in BOOLEAN
    BY <1>7 DEF LoadConfig, TypeOK
  <2> QED
    BY <1>7, <2>1 DEF LoadConfig, TypeOK, MainPc, ReaderPc
<1>8. CASE NoClick
  BY <1>8 DEF NoClick, mainOnly, readerVars, configVars, TypeOK, MainPc
<1>9. CASE Subscribe
  BY <1>9 DEF Subscribe, mainOnly, readerVars, TypeOK, MainPc
<1>10. CASE StartLog
  BY <1>10 DEF StartLog, mainOnly, readerVars, TypeOK, MainPc, FwriterPc
<1>11. CASE StopLog
  <2>1. running_' \in BOOLEAN
    BY <1>11 DEF StopLog, mainOnly, readerVars, configVars
  <2> QED
    BY <1>11, <2>1 DEF StopLog, mainOnly, readerVars, configVars, TypeOK, MainPc
<1>12. CASE StopNotify
  BY <1>12 DEF StopNotify, Wake, mainOnly, readerVars, configVars, TypeOK, MainPc,
     FwriterPc
<1>13. CASE JoinFwriter
  BY <1>13 DEF JoinFwriter, mainOnly, readerVars, configVars, TypeOK, MainPc, FwriterPc
<1>14. CASE StopNull
  BY <1>14 DEF StopNull, Unlogged, configVars, readerVars, TypeOK, MainPc
<1>15. CASE NoRebuild
  BY <1>15 DEF NoRebuild, mainOnly, readerVars, configVars, TypeOK, MainPc
<1>16. CASE Rebuild
  BY <1>16 DEF Rebuild, Unlogged, readerVars, TypeOK, MainPc
<1>17. CASE AddNothing
  BY <1>17 DEF AddNothing, mainOnly, readerVars, configVars, TypeOK
<1>18. CASE AddLock
  BY <1>18 DEF AddLock, configVars, readerVars, TypeOK, MainPc
<1>19. CASE AddChannel
  BY <1>19 DEF AddChannel, configVars, readerVars, TypeOK, MainPc
<1>20. CASE AddDone
  BY <1>20 DEF AddDone, mainOnly, readerVars, configVars, TypeOK, MainPc
<1>21. CASE EndFrame
  <2>1. subscribed_dirty' \in BOOLEAN
    BY <1>21 DEF EndFrame, mainOnly, readerVars
  <2> QED
    BY <1>21, <2>1 DEF EndFrame, mainOnly, readerVars, TypeOK, MainPc
<1>22. CASE QuitJoinReader
  BY <1>22 DEF QuitJoinReader, mainOnly, readerVars, configVars, TypeOK, MainPc
<1>23. CASE QuitStop
  <2>1. running_' \in BOOLEAN
    BY <1>23 DEF QuitStop, mainOnly, readerVars, configVars
  <2> QED
    BY <1>23, <2>1 DEF QuitStop, mainOnly, readerVars, configVars, TypeOK, MainPc
<1>24. CASE Ended
  BY <1>24 DEF Ended, vars, mainVars, configVars, readerVars, TypeOK
<1>25. CASE Receive
  BY <1>25 DEF Receive, readerOnly, mainVars, configVars, TypeOK, ReaderPc
<1>26. CASE ReaderExit
  BY <1>26 DEF ReaderExit, readerOnly, mainVars, configVars, TypeOK, ReaderPc
<1>27. CASE Parse
  BY <1>27 DEF Parse, readerOnly, mainVars, configVars, TypeOK, ReaderPc
<1>28. CASE TryLock
  <2>1. any_logged' \in BOOLEAN
    BY <1>28 DEF TryLock, readerOnly, mainVars, configVars
  <2> QED
    BY <1>28, <2>1 DEF TryLock, readerOnly, mainVars, configVars, TypeOK, ReaderPc
<1>29. CASE TryFails
  BY <1>29 DEF TryFails, readerOnly, mainVars, configVars, TypeOK, ReaderPc
<1>30. CASE LookAt
  BY <1>30 DEF LookAt, readerOnly, mainVars, configVars, TypeOK, ReaderPc
<1>31. CASE Push
  <2>1. waiting' \in [Field -> 0 .. RingCapacity]
    <3> DEFINE pushed == IF log_ring[target] = "live" /\ waiting[target] < RingCapacity
                           THEN waiting[target] + 1 ELSE waiting[target]
    <3>1. waiting' = [waiting EXCEPT ![target] = pushed]
      BY <1>31 DEF Push
    <3>2. waiting \in [Field -> 0 .. RingCapacity]
      BY DEF TypeOK
    <3>3. target \in Field => pushed \in 0 .. RingCapacity
      BY <3>2, LoggerAssumption
    <3> HIDE DEF pushed
    <3> QED
      BY <3>1, <3>2, <3>3, ExceptType
  <2>2. any_logged' \in BOOLEAN
    BY <1>31 DEF Push
  <2> QED
    BY <1>31, <2>1, <2>2 DEF Push, readerOnly, mainVars, configVars, TypeOK, ReaderPc
<1>32. CASE CallbackReturns
  BY <1>32 DEF CallbackReturns, Wake, readerOnly, mainVars, configVars, TypeOK,
     ReaderPc, FwriterPc
<1>33. CASE LoopTest
  BY <1>33 DEF LoopTest, fwriterOnly, mainVars, configVars, readerVars, TypeOK,
     FwriterPc
<1>34. CASE Sleep
  BY <1>34 DEF Sleep, fwriterOnly, mainVars, configVars, readerVars, TypeOK, FwriterPc
<1>35. CASE SpuriousWakeup
  BY <1>35 DEF SpuriousWakeup, fwriterOnly, mainVars, configVars, readerVars, TypeOK,
     FwriterPc
<1>36. CASE Woken
  BY <1>36 DEF Woken, fwriterOnly, mainVars, configVars, readerVars, TypeOK, FwriterPc
<1>37. CASE TryChannels
  BY <1>37 DEF TryChannels, fwriterOnly, mainVars, configVars, readerVars, TypeOK,
     FwriterPc
<1>38. CASE PopSample
  <2>1. waiting' \in [Field -> 0 .. RingCapacity]
    <3>1. /\ waiting' = [waiting EXCEPT ![channels_[cursor]] = waiting[channels_[cursor]] - 1]
          /\ waiting[channels_[cursor]] > 0
      BY <1>38 DEF PopSample
    <3>2. waiting \in [Field -> 0 .. RingCapacity]
      BY DEF TypeOK
    <3>3. channels_[cursor] \in Field => waiting[channels_[cursor]] - 1 \in 0 .. RingCapacity
      BY <3>1, <3>2, LoggerAssumption
    <3> QED
      BY <3>1, <3>2, <3>3, ExceptType
  <2> QED
    BY <1>38, <2>1 DEF PopSample, fwriterOnly, mainVars, configVars, readerVars, TypeOK
<1>39. CASE NextChannel
  BY <1>39 DEF NextChannel, draining, fwriterOnly, mainVars, configVars, readerVars,
     TypeOK
<1>40. CASE DrainDone
  BY <1>40 DEF DrainDone, fwriterOnly, mainVars, configVars, readerVars, TypeOK,
     FwriterPc
<1>41. CASE UNCHANGED vars
  BY <1>41 DEF vars, mainVars, configVars, readerVars, TypeOK
<1> QED
  BY <1>1, <1>2, <1>3, <1>4, <1>5, <1>6, <1>7, <1>8, <1>9, <1>10, <1>11, <1>12, <1>13,
     <1>14, <1>15, <1>16, <1>17, <1>18, <1>19, <1>20, <1>21, <1>22, <1>23, <1>24, <1>25,
     <1>26, <1>27, <1>28, <1>29, <1>30, <1>31, <1>32, <1>33, <1>34, <1>35, <1>36, <1>37,
     <1>38, <1>39, <1>40, <1>41 DEF Next, MainChooses, MainContinues, ReaderContinues,
     FwriterStep

-----------------------------------------------------------------------------
(* The mutexes.                                                            *)

LEMMA LocksStep ==
  ASSUME TypeOK, Locks, Writer, [Next]_vars
  PROVE  Locks'
<1>1. CASE Load
  BY <1>1 DEF Load, configVars, readerVars, Locks, MainHolds, ReaderGone
<1>2. CASE BeginFrame
  BY <1>2 DEF BeginFrame, mainOnly, readerVars, configVars, Free, Locks, MainHolds,
     ReaderGone
<1>3. CASE Quit
  BY <1>3 DEF Quit, configVars, readerVars, Locks, MainHolds, ReaderGone
<1>4. CASE ClearLock
  BY <1>4 DEF ClearLock, configVars, readerVars, Free, Locks, MainHolds, ReaderGone
<1>5. CASE ClearChannels
  BY <1>5 DEF ClearChannels, configVars, readerVars, TypeOK, Free, Locks, MainHolds,
     ReaderGone
<1>6. CASE JoinReader
  BY <1>6 DEF JoinReader, configVars, readerVars, Locks, MainHolds
<1>7. CASE LoadConfig
  BY <1>7 DEF LoadConfig, Locks, MainHolds, ReaderGone
<1>8. CASE NoClick
  BY <1>8 DEF NoClick, mainOnly, readerVars, configVars, Locks, MainHolds, ReaderGone
<1>9. CASE Subscribe
  BY <1>9 DEF Subscribe, mainOnly, readerVars, Locks, MainHolds, ReaderGone
<1>10. CASE StartLog
  BY <1>10 DEF StartLog, mainOnly, readerVars, Writer, Locks, MainHolds, ReaderGone
<1>11. CASE StopLog
  BY <1>11 DEF StopLog, mainOnly, readerVars, configVars, Locks, MainHolds, ReaderGone
<1>12. CASE StopNotify
  BY <1>12 DEF StopNotify, Wake, mainOnly, readerVars, configVars, Locks, MainHolds,
     ReaderGone
<1>13. CASE JoinFwriter
  BY <1>13 DEF JoinFwriter, mainOnly, readerVars, configVars, Locks, MainHolds,
     ReaderGone
<1>14. CASE StopNull
  BY <1>14 DEF StopNull, Unlogged, configVars, readerVars, Locks, MainHolds, ReaderGone
<1>15. CASE NoRebuild
  BY <1>15 DEF NoRebuild, mainOnly, readerVars, configVars, Locks, MainHolds, ReaderGone
<1>16. CASE Rebuild
  BY <1>16 DEF Rebuild, Unlogged, readerVars, Locks, MainHolds, ReaderGone
<1>17. CASE AddNothing
  BY <1>17 DEF AddNothing, mainOnly, readerVars, configVars, Locks, MainHolds,
     ReaderGone
<1>18. CASE AddLock
  BY <1>18 DEF AddLock, configVars, readerVars, Free, Locks, MainHolds, ReaderGone
<1>19. CASE AddChannel
  BY <1>19 DEF AddChannel, configVars, readerVars, Free, Locks, MainHolds, ReaderGone
<1>20. CASE AddDone
  BY <1>20 DEF AddDone, mainOnly, readerVars, configVars, Locks, MainHolds, ReaderGone
<1>21. CASE EndFrame
  BY <1>21 DEF EndFrame, mainOnly, readerVars, Free, Locks, MainHolds, ReaderGone
<1>22. CASE QuitJoinReader
  BY <1>22 DEF QuitJoinReader, mainOnly, readerVars, configVars, Locks, MainHolds
<1>23. CASE QuitStop
  BY <1>23 DEF QuitStop, mainOnly, readerVars, configVars, Locks, MainHolds, ReaderGone
<1>24. CASE Ended
  BY <1>24 DEF Ended, vars, mainVars, configVars, readerVars, Locks, MainHolds,
     ReaderGone
<1>25. CASE Receive
  BY <1>25 DEF Receive, readerOnly, mainVars, configVars, Locks, MainHolds, ReaderGone
<1>26. CASE ReaderExit
  BY <1>26 DEF ReaderExit, readerOnly, mainVars, configVars, Locks, MainHolds
<1>27. CASE Parse
  BY <1>27 DEF Parse, readerOnly, mainVars, configVars, Locks, MainHolds, ReaderGone
<1>28. CASE TryLock
  BY <1>28 DEF TryLock, readerOnly, mainVars, configVars, Free, Locks, MainHolds,
     ReaderGone
<1>29. CASE TryFails
  BY <1>29 DEF TryFails, readerOnly, mainVars, configVars, Locks, MainHolds, ReaderGone
<1>30. CASE LookAt
  BY <1>30 DEF LookAt, readerOnly, mainVars, configVars, Locks, MainHolds, ReaderGone
<1>31. CASE Push
  BY <1>31 DEF Push, readerOnly, mainVars, configVars, Locks, MainHolds, ReaderGone
<1>32. CASE CallbackReturns
  BY <1>32 DEF CallbackReturns, Wake, readerOnly, mainVars, configVars, Free, Locks,
     MainHolds, ReaderGone
<1>33. CASE LoopTest
  BY <1>33 DEF LoopTest, fwriterOnly, mainVars, configVars, readerVars, Locks,
     MainHolds, ReaderGone
<1>34. CASE Sleep
  BY <1>34 DEF Sleep, fwriterOnly, mainVars, configVars, readerVars, Locks, MainHolds,
     ReaderGone
<1>35. CASE SpuriousWakeup
  BY <1>35 DEF SpuriousWakeup, fwriterOnly, mainVars, configVars, readerVars, Locks,
     MainHolds, ReaderGone
<1>36. CASE Woken
  BY <1>36 DEF Woken, fwriterOnly, mainVars, configVars, readerVars, Locks, MainHolds,
     ReaderGone
<1>37. CASE TryChannels
  BY <1>37 DEF TryChannels, fwriterOnly, mainVars, configVars, readerVars, Free, Locks,
     MainHolds, ReaderGone
<1>38. CASE PopSample
  BY <1>38 DEF PopSample, draining, fwriterOnly, mainVars, configVars, readerVars,
     Locks, MainHolds, ReaderGone
<1>39. CASE NextChannel
  BY <1>39 DEF NextChannel, draining, fwriterOnly, mainVars, configVars, readerVars,
     Locks, MainHolds, ReaderGone
<1>40. CASE DrainDone
  BY <1>40 DEF DrainDone, fwriterOnly, mainVars, configVars, readerVars, Free, Locks,
     MainHolds, ReaderGone
<1>41. CASE UNCHANGED vars
  BY <1>41 DEF vars, mainVars, configVars, readerVars, Locks, MainHolds, ReaderGone
<1> QED
  BY <1>1, <1>2, <1>3, <1>4, <1>5, <1>6, <1>7, <1>8, <1>9, <1>10, <1>11, <1>12, <1>13,
     <1>14, <1>15, <1>16, <1>17, <1>18, <1>19, <1>20, <1>21, <1>22, <1>23, <1>24, <1>25,
     <1>26, <1>27, <1>28, <1>29, <1>30, <1>31, <1>32, <1>33, <1>34, <1>35, <1>36, <1>37,
     <1>38, <1>39, <1>40, <1>41 DEF Next, MainChooses, MainContinues, ReaderContinues,
     FwriterStep

-----------------------------------------------------------------------------
(* The rings.                                                              *)

LEMMA RingsStep ==
  ASSUME TypeOK, Locks, Rings, [Next]_vars
  PROVE  Rings'
<1>1. CASE Load
  BY <1>1 DEF Load, configVars, readerVars, ReaderGone, Rings, Logged, HasChannel
<1>2. CASE BeginFrame
  BY <1>2 DEF BeginFrame, mainOnly, readerVars, configVars, ReaderGone, Rings, Logged,
     HasChannel
<1>3. CASE Quit
  BY <1>3 DEF Quit, configVars, readerVars, ReaderGone, Rings, Logged, HasChannel
<1>4. CASE ClearLock
  BY <1>4 DEF ClearLock, configVars, readerVars, ReaderGone, Rings, Logged, HasChannel
<1>5. CASE ClearChannels
  BY <1>5 DEF ClearChannels, configVars, readerVars, TypeOK, Locks, ReaderGone, Rings,
     Logged
<1>6. CASE JoinReader
  BY <1>6 DEF JoinReader, configVars, readerVars, ReaderGone, Rings, Logged, HasChannel
<1>7. CASE LoadConfig
  BY <1>7 DEF LoadConfig, Locks, ReaderGone, Rings, Logged, HasChannel
<1>8. CASE NoClick
  BY <1>8 DEF NoClick, mainOnly, readerVars, configVars, ReaderGone, Rings, Logged,
     HasChannel
<1>9. CASE Subscribe
  BY <1>9 DEF Subscribe, mainOnly, readerVars, ReaderGone, Rings, Logged, HasChannel
<1>10. CASE StartLog
  BY <1>10 DEF StartLog, mainOnly, readerVars, Rings, Logged, HasChannel
<1>11. CASE StopLog
  BY <1>11 DEF StopLog, mainOnly, readerVars, configVars, Rings, Logged, HasChannel
<1>12. CASE StopNotify
  BY <1>12 DEF StopNotify, Wake, mainOnly, readerVars, configVars, Rings, Logged,
     HasChannel
<1>13. CASE JoinFwriter
  BY <1>13 DEF JoinFwriter, mainOnly, readerVars, configVars, Locks, ReaderGone, Rings,
     Logged, HasChannel
<1>14. CASE StopNull
  BY <1>14 DEF StopNull, Unlogged, configVars, readerVars, Locks, MainHolds, Rings,
     Logged, HasChannel
<1>15. CASE NoRebuild
  BY <1>15 DEF NoRebuild, mainOnly, readerVars, configVars, ReaderGone, Rings, Logged,
     HasChannel
<1>16. CASE Rebuild
  BY <1>16 DEF Rebuild, Unlogged, readerVars, Locks, MainHolds, Rings, Logged,
     HasChannel
<1>17. CASE AddNothing
  BY <1>17 DEF AddNothing, mainOnly, readerVars, configVars, Rings, Logged, HasChannel
<1>18. CASE AddLock
  BY <1>18 DEF AddLock, configVars, readerVars, Rings, Logged, HasChannel
<1>19. CASE AddChannel
  <2>1. PICK f \in to_add :
          /\ channels_' = Append(channels_, f) /\ to_add' = to_add \ {f}
          /\ log_ring' = [log_ring EXCEPT ![f] = "live"]
    BY <1>19 DEF AddChannel
  <2>2. \A g \in Field : HasChannel(g) \/ g = f => HasChannel(g)'
    BY <2>1 DEF HasChannel
  <2>3. main = "adding" /\ main' = "add" /\ f \in Field
    BY <1>19, <2>1 DEF AddChannel, TypeOK
  <2>4. running_ /\ subscribed_list = subscribed /\ to_add \subseteq subscribed
    BY <2>3 DEF Rings
  <2>5. UNCHANGED <<waiting, reader, updated, target, running_, subscribed_list, subscribed>>
    BY <1>19 DEF AddChannel, configVars, readerVars
  <2>6. reader' \notin {"scan", "push"}
    BY <2>3, <2>5 DEF Locks, MainHolds
  <2>7. \A g \in Field : log_ring'[g] = IF g = f THEN "live" ELSE log_ring[g]
    BY <2>1 DEF TypeOK
  <2>8. \A g \in Field : log_ring'[g] = "live" \/ waiting'[g] > 0 => HasChannel(g)'
    BY <2>2, <2>5, <2>7 DEF Rings
  <2>9. \A g \in Field : Logged(g)' =>
          log_ring'[g] = "live" /\ g \in subscribed_list' /\ g \in subscribed' /\ running_'
    BY <2>1, <2>3, <2>4, <2>5, <2>7 DEF Rings, Logged
  <2>10. running_' /\ subscribed_list' = subscribed' /\ to_add' \subseteq subscribed'
    BY <2>1, <2>4, <2>5
  <2> QED
    BY <2>3, <2>6, <2>8, <2>9, <2>10 DEF Rings
<1>20. CASE AddDone
  BY <1>20 DEF AddDone, mainOnly, readerVars, configVars, Rings, Logged, HasChannel
<1>21. CASE EndFrame
  BY <1>21 DEF EndFrame, mainOnly, readerVars, ReaderGone, Rings, Logged, HasChannel
<1>22. CASE QuitJoinReader
  BY <1>22 DEF QuitJoinReader, mainOnly, readerVars, configVars, ReaderGone, Rings,
     Logged, HasChannel
<1>23. CASE QuitStop
  BY <1>23 DEF QuitStop, mainOnly, readerVars, configVars, Rings, Logged, HasChannel
<1>24. CASE Ended
  BY <1>24 DEF Ended, vars, mainVars, configVars, readerVars, ReaderGone, Rings,
     HasChannel
<1>25. CASE Receive
  BY <1>25 DEF Receive, readerOnly, mainVars, configVars, ReaderGone, Rings, Logged,
     HasChannel
<1>26. CASE ReaderExit
  BY <1>26 DEF ReaderExit, readerOnly, mainVars, configVars, ReaderGone, Rings, Logged,
     HasChannel
<1>27. CASE Parse
  BY <1>27 DEF Parse, readerOnly, mainVars, configVars, ReaderGone, Rings, Logged,
     HasChannel
<1>28. CASE TryLock
  BY <1>28 DEF TryLock, readerOnly, mainVars, configVars, TypeOK, ReaderGone, Rings,
     Logged, HasChannel
<1>29. CASE TryFails
  BY <1>29 DEF TryFails, readerOnly, mainVars, configVars, ReaderGone, Rings, Logged,
     HasChannel
<1>30. CASE LookAt
  BY <1>30 DEF LookAt, readerOnly, mainVars, configVars, Locks, ReaderGone, Rings,
     Logged, HasChannel
<1>31. CASE Push
  BY <1>31 DEF Push, readerOnly, mainVars, configVars, TypeOK, ReaderGone, Rings,
     Logged, HasChannel
<1>32. CASE CallbackReturns
  BY <1>32 DEF CallbackReturns, Wake, readerOnly, mainVars, configVars, ReaderGone,
     Rings, Logged, HasChannel
<1>33. CASE LoopTest
  BY <1>33 DEF LoopTest, fwriterOnly, mainVars, configVars, readerVars, ReaderGone,
     Rings, Logged, HasChannel
<1>34. CASE Sleep
  BY <1>34 DEF Sleep, fwriterOnly, mainVars, configVars, readerVars, ReaderGone, Rings,
     Logged, HasChannel
<1>35. CASE SpuriousWakeup
  BY <1>35 DEF SpuriousWakeup, fwriterOnly, mainVars, configVars, readerVars,
     ReaderGone, Rings, Logged, HasChannel
<1>36. CASE Woken
  BY <1>36 DEF Woken, fwriterOnly, mainVars, configVars, readerVars, ReaderGone, Rings,
     Logged, HasChannel
<1>37. CASE TryChannels
  BY <1>37 DEF TryChannels, fwriterOnly, mainVars, configVars, readerVars, ReaderGone,
     Rings, Logged, HasChannel
<1>38. CASE PopSample
  BY <1>38 DEF PopSample, draining, fwriterOnly, mainVars, configVars, readerVars,
     ReaderGone, Rings, Logged, HasChannel
<1>39. CASE NextChannel
  BY <1>39 DEF NextChannel, draining, fwriterOnly, mainVars, configVars, readerVars,
     ReaderGone, Rings, Logged, HasChannel
<1>40. CASE DrainDone
  BY <1>40 DEF DrainDone, fwriterOnly, mainVars, configVars, readerVars, ReaderGone,
     Rings, Logged, HasChannel
<1>41. CASE UNCHANGED vars
  BY <1>41 DEF vars, mainVars, configVars, readerVars, ReaderGone, Rings, Logged,
     HasChannel
<1> QED
  BY <1>1, <1>2, <1>3, <1>4, <1>5, <1>6, <1>7, <1>8, <1>9, <1>10, <1>11, <1>12, <1>13,
     <1>14, <1>15, <1>16, <1>17, <1>18, <1>19, <1>20, <1>21, <1>22, <1>23, <1>24, <1>25,
     <1>26, <1>27, <1>28, <1>29, <1>30, <1>31, <1>32, <1>33, <1>34, <1>35, <1>36, <1>37,
     <1>38, <1>39, <1>40, <1>41 DEF Next, MainChooses, MainContinues, ReaderContinues,
     FwriterStep

-----------------------------------------------------------------------------
(* The file writer.                                                        *)

LEMMA WriterStep ==
  ASSUME TypeOK, Locks, Rings, Writer, [Next]_vars
  PROVE  Writer'
<1>1. CASE Load
  BY <1>1 DEF Load, configVars, readerVars, Writer, Drained
<1>2. CASE BeginFrame
  BY <1>2 DEF BeginFrame, mainOnly, readerVars, configVars, Writer, Drained
<1>3. CASE Quit
  BY <1>3 DEF Quit, configVars, readerVars, Writer, Drained
<1>4. CASE ClearLock
  BY <1>4 DEF ClearLock, configVars, readerVars, Writer, Drained
<1>5. CASE ClearChannels
  BY <1>5 DEF ClearChannels, configVars, readerVars, TypeOK, Locks, Writer, Drained
<1>6. CASE JoinReader
  BY <1>6 DEF JoinReader, configVars, readerVars, Writer, Drained
<1>7. CASE LoadConfig
  BY <1>7 DEF LoadConfig, Writer, Drained
<1>8. CASE NoClick
  BY <1>8 DEF NoClick, mainOnly, readerVars, configVars, Writer, Drained
<1>9. CASE Subscribe
  BY <1>9 DEF Subscribe, mainOnly, readerVars, Writer, Drained
<1>10. CASE StartLog
  BY <1>10 DEF StartLog, mainOnly, readerVars, Writer
<1>11. CASE StopLog
  BY <1>11 DEF StopLog, mainOnly, readerVars, configVars, Writer
<1>12. CASE StopNotify
  BY <1>12 DEF StopNotify, Wake, mainOnly, readerVars, configVars, Writer, Drained
<1>13. CASE JoinFwriter
  BY <1>13 DEF JoinFwriter, mainOnly, readerVars, configVars, Writer, Drained
<1>14. CASE StopNull
  BY <1>14 DEF StopNull, Unlogged, configVars, readerVars, Writer, Drained
<1>15. CASE NoRebuild
  BY <1>15 DEF NoRebuild, mainOnly, readerVars, configVars, Writer, Drained
<1>16. CASE Rebuild
  BY <1>16 DEF Rebuild, Unlogged, readerVars, Writer, Drained
<1>17. CASE AddNothing
  BY <1>17 DEF AddNothing, mainOnly, readerVars, configVars, Writer, Drained
<1>18. CASE AddLock
  BY <1>18 DEF AddLock, configVars, readerVars, Writer, Drained
<1>19. CASE AddChannel
  BY <1>19 DEF AddChannel, configVars, readerVars, Writer, Drained
<1>20. CASE AddDone
  BY <1>20 DEF AddDone, mainOnly, readerVars, configVars, Writer, Drained
<1>21. CASE EndFrame
  BY <1>21 DEF EndFrame, mainOnly, readerVars, Writer, Drained
<1>22. CASE QuitJoinReader
  BY <1>22 DEF QuitJoinReader, mainOnly, readerVars, configVars, Writer, Drained
<1>23. CASE QuitStop
  BY <1>23 DEF QuitStop, mainOnly, readerVars, configVars, Writer, Drained
<1>24. CASE Ended
  BY <1>24 DEF Ended, vars, mainVars, configVars, readerVars, Writer, Drained
<1>25. CASE Receive
  BY <1>25 DEF Receive, readerOnly, mainVars, configVars, Writer, Drained
<1>26. CASE ReaderExit
  BY <1>26 DEF ReaderExit, readerOnly, mainVars, configVars, Writer, Drained
<1>27. CASE Parse
  BY <1>27 DEF Parse, readerOnly, mainVars, configVars, Writer, Drained
<1>28. CASE TryLock
  BY <1>28 DEF TryLock, readerOnly, mainVars, configVars, Writer, Drained
<1>29. CASE TryFails
  BY <1>29 DEF TryFails, readerOnly, mainVars, configVars, Writer, Drained
<1>30. CASE LookAt
  BY <1>30 DEF LookAt, readerOnly, mainVars, configVars, Writer, Drained
<1>31. CASE Push
  <2>1. reader = "push" /\ Logged(target)
    BY <1>31 DEF Push, Rings, Logged
  <2>2. ~ReaderGone /\ ~MainHolds
    BY <2>1 DEF Locks
  <2>3. target \in Field /\ running_
    BY <2>1, <2>2 DEF Rings, Locks, MainHolds, ReaderGone
  <2> QED
    BY <1>31, <2>3 DEF Push, readerOnly, mainVars, Writer
<1>32. CASE CallbackReturns
  BY <1>32 DEF CallbackReturns, Wake, readerOnly, mainVars, configVars, Writer, Drained
<1>33. CASE LoopTest
  BY <1>33 DEF LoopTest, fwriterOnly, mainVars, configVars, readerVars, Writer
<1>34. CASE Sleep
  BY <1>34 DEF Sleep, fwriterOnly, mainVars, configVars, readerVars, Writer
<1>35. CASE SpuriousWakeup
  BY <1>35 DEF SpuriousWakeup, fwriterOnly, mainVars, configVars, readerVars, Writer
<1>36. CASE Woken
  BY <1>36 DEF Woken, fwriterOnly, mainVars, configVars, readerVars, Writer
<1>37. CASE TryChannels
  BY <1>37 DEF TryChannels, fwriterOnly, mainVars, configVars, readerVars, TypeOK,
     Locks, Writer
<1>38. CASE PopSample
  BY <1>38 DEF PopSample, draining, fwriterOnly, mainVars, configVars, readerVars,
     Writer
<1>39. CASE NextChannel
  BY <1>39 DEF NextChannel, draining, fwriterOnly, mainVars, configVars, readerVars,
     Writer
<1>40. CASE DrainDone
  <2>1. \A f \in Field : waiting[f] \in Nat
    BY DEF TypeOK
  <2>2. fwriter = "flush" => Drained
    BY <1>40, <2>1 DEF DrainDone, Writer, Rings, HasChannel, Drained
  <2> QED
    BY <1>40, <2>2 DEF DrainDone, fwriterOnly, mainVars, Writer, Drained
<1>41. CASE UNCHANGED vars
  BY <1>41 DEF vars, mainVars, configVars, readerVars, Writer, Drained
<1> QED
  BY <1>1, <1>2, <1>3, <1>4, <1>5, <1>6, <1>7, <1>8, <1>9, <1>10, <1>11, <1>12, <1>13,
     <1>14, <1>15, <1>16, <1>17, <1>18, <1>19, <1>20, <1>21, <1>22, <1>23, <1>24, <1>25,
     <1>26, <1>27, <1>28, <1>29, <1>30, <1>31, <1>32, <1>33, <1>34, <1>35, <1>36, <1>37,
     <1>38, <1>39, <1>40, <1>41 DEF Next, MainChooses, MainContinues, ReaderContinues,
     FwriterStep

-----------------------------------------------------------------------------
(* The theorems.                                                           *)

LEMMA InitEstablishes == Init => TypeOK /\ Locks /\ Rings /\ Writer
<1> SUFFICES ASSUME Init PROVE TypeOK /\ Locks /\ Rings /\ Writer
  OBVIOUS
<1>1. TypeOK
  <2>1. waiting \in [Field -> 0 .. RingCapacity] /\ channels_ \in Seq(Field)
    BY LoggerAssumption DEF Init
  <2>2. /\ subscribed_dirty \in BOOLEAN /\ link_running \in BOOLEAN
        /\ any_logged \in BOOLEAN /\ running_ \in BOOLEAN
    BY DEF Init
  <2> QED
    BY <2>1, <2>2 DEF Init, TypeOK, MainPc, ReaderPc, FwriterPc
<1>2. Locks
  BY DEF Init, Locks, MainHolds, Free
<1>3. Rings
  BY DEF Init, Rings, Logged
<1>4. Writer
  BY DEF Init, Writer, Drained
<1> QED
  BY <1>1, <1>2, <1>3, <1>4

LEMMA Invariance == Spec => [](TypeOK /\ Locks /\ Rings /\ Writer)
<1>1. TypeOK /\ Locks /\ Rings /\ Writer /\ [Next]_vars
        => (TypeOK /\ Locks /\ Rings /\ Writer)'
  BY TypeStep, LocksStep, RingsStep, WriterStep
<1> QED
  BY <1>1, InitEstablishes, PTL DEF Spec

\* The variables keep their types: the file writer's cursor and the channels,
\* the counts of waiting samples and the program counters of all threads.
THEOREM TypeCorrect == Spec => []TypeOK
  BY Invariance, PTL

\* The read callback never pushes into a ring that clear_channels() freed: the
\* pointers are reset under the callback's mutex, or the thread is gone first.
THEOREM PointersAreLive == Spec => []RingsLive
<1>1. TypeOK /\ Locks /\ Rings => RingsLive
  BY DEF TypeOK, MainPc, Locks, MainHolds, ReaderGone, Rings, Logged, RingsLive,
     NoDangling, RingMeansLogging
<1> QED
  BY <1>1, Invariance, PTL

\* When stop() has joined the file writer, every sample that was pushed has
\* been written (logger.cpp:116-159).
THEOREM StopWritesAll == Spec => []StopKeepsSamples
<1>1. Writer => StopKeepsSamples
  BY DEF Writer, Drained, StopKeepsSamples
<1> QED
  BY <1>1, Invariance, PTL

\* While the file writer walks over channels_, nobody adds or frees a channel,
\* and no second file writer is started before the first is joined.
THEOREM WriterIsAlone == Spec => []WriterUndisturbed
<1>1. TypeOK /\ Locks /\ Writer => WriterUndisturbed
  BY DEF Locks, Writer, WriterUndisturbed, VectorStable, StartAfterJoin
<1> QED
  BY <1>1, Invariance, PTL
=============================================================================
