--------------------------- MODULE SamplesProofs ---------------------------
(***************************************************************************)
(* Proofs about the samples of a field: those that PlotLine draws and      *)
(* those that Recorder writes to a file.                                   *)
(*                                                                         *)
(* PlotLine, for every set of depths with a largest one and every x        *)
(* values: type correctness, render() never indexes out of bounds, in Time *)
(* Mode the points fill the window, and the ring is the window of the last *)
(* samples that PlotWindow describes.  One lemma, EnqueueShifts, carries   *)
(* the argument: enqueue_data() takes the oldest point away when the ring  *)
(* is full, appends its sample and moves nothing else, wherever head_ is.  *)
(*                                                                         *)
(* Recorder, for every list of leaves, every set of types, values and      *)
(* scales, every largest size a header's field holds and every room on the *)
(* disk: the sizes in a closed file are those of what it holds; and, when  *)
(* every subscribed leaf has a display value, the recorder implements      *)
(* Tape.  Both rest on one invariant, Writing: what the library has        *)
(* counted is what the file took, or the disk is full.  How values are     *)
(* scaled and rounded plays no part.                                       *)
(***************************************************************************)
EXTENDS PlotLine, Recorder, SequenceTheorems, TLAPS

-----------------------------------------------------------------------------
(* The ring of a plot line.                                                *)

\* Point j of a ring p whose oldest point is at h.
At(p, h, j) == p[((h + j - 1) % Len(p)) + 1]

InBounds == count <= Len(points) /\ (head = 0 \/ head < Len(points))

\* The samples of the run that are still in the ring do not fall.
Rising ==
  mode = "time" /\ run >= 1 /\ count >= 1 =>
    /\ At(points, head, count) = last
    /\ \A i, j \in 1 .. count :
         count - run < i /\ i <= j => At(points, head, i) <= At(points, head, j)

\* The span is that of the points whenever enqueue_data() computed one.
Spans ==
  mode = "time" /\ count >= 2 /\ run >= count
    /\ At(points, head, count) > At(points, head, 1) =>
      span = At(points, head, count) - At(points, head, 1)

PlotIInv == PlotTypeOK /\ InBounds /\ Rising /\ Spans

\* An index less than two rounds away from the start is wrapped at most once.
LEMMA WrapOnce ==
  ASSUME NEW d \in Nat, d > 0, NEW n \in 0 .. 2 * d - 1
  PROVE  n % d = IF n < d THEN n ELSE n - d
<1> DEFINE q == n \div d
<1>1. q \in Int /\ n % d \in 0 .. d - 1 /\ n = d * q + (n % d)
  BY SMT
<1> HIDE DEF q
<1>2. q >= 2 => d * q >= 2 * d
  BY <1>1, SMT
<1>3. q <= -1 => d * q <= -d
  BY <1>1, SMT
<1>4. q \in {0, 1}
  BY <1>1, <1>2, <1>3, SMT
<1> QED
  BY <1>1, <1>4, SMT

-----------------------------------------------------------------------------
(* The constants and the types.                                            *)

LEMMA PlotConstants ==
  /\ X \subseteq Int /\ 0 \in X /\ Min(X) \in X
  /\ Depths \subseteq Nat /\ Default \in Depths /\ Default > 0
  /\ Depth \in Depths /\ \A d \in Depths : d <= Depth
<1>1. \E m \in Depths : \A d \in Depths : m >= d
  BY PlotAssumption
<1>2. Depth \in Depths /\ \A d \in Depths : Depth >= d
  BY <1>1 DEF Depth, Max
<1>3. \E m \in X : \A x \in X : m =< x
  BY PlotAssumption
<1>4. Min(X) \in X
  BY <1>3 DEF Min
<1> QED
  BY <1>2, <1>4, PlotAssumption

LEMMA Types ==
  ASSUME PlotTypeOK
  PROVE  /\ points \in Seq(X) /\ Len(points) \in Depths \union {0}
         /\ points \in [1 .. Len(points) -> X]
         /\ head \in Nat /\ count \in Nat /\ enqueueCap \in Nat /\ run \in Nat
<1>1. PICK n \in Depths \union {0} : points \in [1 .. n -> X]
  BY DEF PlotTypeOK
<1>2. n \in Nat
  BY <1>1, PlotConstants
<1>3. points \in Seq(X) /\ Len(points) = n
  BY <1>1, <1>2
<1> QED
  BY <1>1, <1>3, PlotConstants DEF PlotTypeOK

LEMMA RingType ==
  ASSUME NEW n \in Depths \union {0}, NEW p, p \in [1 .. n -> X]
  PROVE  /\ p \in UNION {[1 .. k -> X] : k \in Depths \union {0}}
         /\ p \in Seq(X) /\ Len(p) = n
  BY PlotConstants

LEMMA Capped ==
  ASSUME NEW r \in 0 .. Depth + 1
  PROVE  /\ Min({r + 1, Depth + 1}) \in 0 .. Depth + 1
         /\ Min({r + 1, Depth + 1}) <= r + 1
         /\ Min({r + 1, Depth + 1}) >= 1
<1>1. Depth \in Nat
  BY PlotConstants
<1>2. \E m \in {r + 1, Depth + 1} : \A x \in {r + 1, Depth + 1} : m =< x
  BY <1>1
<1> QED
  BY <1>1, <1>2 DEF Min

-----------------------------------------------------------------------------
(* What enqueue_data() does to the ring.                                   *)

\* The ring after points.resize(), and where it starts.
LEMMA Resizing ==
  ASSUME PlotTypeOK, InBounds, enqueueCap > 0
  PROVE  /\ Base \in [1 .. enqueueCap -> X] /\ Len(Base) = enqueueCap
         /\ StartHead \in 0 .. enqueueCap - 1 /\ StartCount \in 0 .. enqueueCap
         /\ ~Resized => Base = points /\ StartHead = head /\ StartCount = count
                          /\ Len(points) = enqueueCap
         /\ Resized => StartCount = 0 /\ StartHead = 0
<1>1. Base \in [1 .. enqueueCap -> X]
  BY Types, PlotConstants DEF Base
<1>2. Len(Base) = enqueueCap
  BY <1>1, Types
<1>3. ~Resized => Base = points
  BY Types DEF Base, Resized
<1> QED
  BY <1>1, <1>2, <1>3, Types DEF Resized, StartHead, StartCount, InBounds

LEMMA EnqueueShifts ==
  ASSUME PlotTypeOK, InBounds, enqueueCap > 0, NEW x \in X
  PROVE  /\ Filled(x) \in [1 .. enqueueCap -> X] /\ Len(Filled(x)) = enqueueCap
         /\ HeadAfter \in 0 .. enqueueCap - 1 /\ CountAfter \in 1 .. enqueueCap
         /\ CountAfter = IF StartCount < enqueueCap THEN StartCount + 1 ELSE StartCount
         /\ At(Filled(x), HeadAfter, CountAfter) = x
         /\ \A j \in 1 .. CountAfter - 1 :
              At(Filled(x), HeadAfter, j) =
                At(Base, StartHead, j + StartCount + 1 - CountAfter)
<1> DEFINE N == enqueueCap
           target == (StartHead + StartCount) % N
<1>0. N \in Nat /\ N > 0 /\ StartHead \in 0 .. N - 1 /\ StartCount \in 0 .. N
      /\ Base \in [1 .. N -> X] /\ Len(Base) = N
  BY Types, Resizing
<1>1. target \in 0 .. N - 1
  BY <1>0, WrapOnce
<1>2. Filled(x) = [Base EXCEPT ![target + 1] = x]
  BY DEF Filled, Slot
<1>3. Filled(x) \in [1 .. N -> X] /\ Len(Filled(x)) = N
  BY <1>0, <1>2
<1>4. /\ Filled(x)[target + 1] = x
      /\ \A i \in 0 .. N - 1 : i # target => Filled(x)[i + 1] = Base[i + 1]
  BY <1>0, <1>1, <1>2
<1>5. HeadAfter \in 0 .. N - 1 /\ CountAfter \in 1 .. N
  BY <1>0, WrapOnce DEF HeadAfter, CountAfter, Advanced
<1>6. ASSUME NEW j \in 1 .. N
      PROVE  (HeadAfter + j - 1) % N =
               (StartHead + (j + StartCount + 1 - CountAfter) - 1) % N
  <2>1. CASE StartCount < N
    <3>1. HeadAfter + j - 1 = StartHead + (j + StartCount + 1 - CountAfter) - 1
      BY <2>1, <1>0 DEF HeadAfter, CountAfter
    <3> QED
      BY <3>1
  <2>2. CASE ~(StartCount < N)
    <3>1. HeadAfter = (StartHead + 1) % N /\ CountAfter = StartCount
      BY <2>2 DEF HeadAfter, CountAfter, Advanced
    <3>2. (((StartHead + 1) % N) + (j - 1)) % N = (StartHead + 1 + (j - 1)) % N
      <4>1. CASE StartHead + 1 < N
        <5>1. (StartHead + 1) % N = StartHead + 1
          BY <1>0, <4>1, WrapOnce
        <5> QED
          BY <5>1
      <4>2. CASE ~(StartHead + 1 < N)
        <5>1. (StartHead + 1) % N = 0 /\ StartHead + 1 = N
          BY <1>0, <4>2, WrapOnce
        <5>2. (N + (j - 1)) % N = j - 1 /\ (0 + (j - 1)) % N = j - 1
          BY <1>0, WrapOnce
        <5> QED
          BY <5>1, <5>2
      <4> QED
        BY <4>1, <4>2
    <3>3. /\ HeadAfter + j - 1 = ((StartHead + 1) % N) + (j - 1)
          /\ StartHead + (j + StartCount + 1 - CountAfter) - 1 = StartHead + 1 + (j - 1)
      BY <3>1, <1>0, <1>5
    <3> QED
      BY <3>2, <3>3
  <2> QED
    BY <2>1, <2>2
<1>7. At(Filled(x), HeadAfter, CountAfter) = x
  <2>1. StartHead + (CountAfter + StartCount + 1 - CountAfter) - 1 = StartHead + StartCount
    BY <1>0, <1>5
  <2>2. (HeadAfter + CountAfter - 1) % N = target
    BY <1>5, <1>6, <2>1
  <2> QED
    BY <1>3, <1>4, <2>2 DEF At
<1>8. ASSUME NEW j \in 1 .. CountAfter - 1
      PROVE  At(Filled(x), HeadAfter, j) =
               At(Base, StartHead, j + StartCount + 1 - CountAfter)
  <2> DEFINE k == StartHead + (j + StartCount + 1 - CountAfter) - 1
             m == StartHead + StartCount
  <2>1. /\ k \in 0 .. 2 * N - 1 /\ m \in 0 .. 2 * N - 1
        /\ m - k \in 1 .. N - 1 /\ j \in 1 .. N
    BY <1>0, <1>5 DEF CountAfter
  <2>2. (HeadAfter + j - 1) % N = k % N
    BY <1>6, <2>1
  <2>3. k % N \in 0 .. N - 1
    BY <1>0, <2>1, WrapOnce
  <2> HIDE DEF k, m
  <2>4. k % N # m % N
    <3>1. /\ k % N = IF k < N THEN k ELSE k - N
          /\ m % N = IF m < N THEN m ELSE m - N
      BY <1>0, <2>1, WrapOnce
    <3> QED
      BY <1>0, <2>1, <3>1
  <2>5. k % N # target
    BY <2>4 DEF m
  <2>6. Filled(x)[(k % N) + 1] = Base[(k % N) + 1]
    BY <1>4, <2>3, <2>5
  <2> QED
    BY <1>0, <1>3, <2>2, <2>6 DEF At, k
<1> QED
  BY <1>3, <1>5, <1>7, <1>8 DEF CountAfter

\* The x values enqueue_data() compares are those of the last and first point.
LEMMA Ends ==
  ASSUME PlotTypeOK, InBounds, enqueueCap > 0, NEW x \in X
  PROVE  /\ NewestX(x) = x
         /\ OldestX(x) = At(Filled(x), HeadAfter, 1)
         /\ OldestX(x) \in Int
<1>1. /\ Filled(x) \in [1 .. enqueueCap -> X] /\ Len(Filled(x)) = enqueueCap
      /\ HeadAfter \in 0 .. enqueueCap - 1
  BY EnqueueShifts
<1>2. HeadAfter + 1 - 1 = HeadAfter /\ HeadAfter % enqueueCap \in 0 .. enqueueCap - 1
  BY <1>1, Types, WrapOnce
<1>3. NewestX(x) = At(Filled(x), HeadAfter, CountAfter)
  BY <1>1 DEF NewestX, Slot, At
<1>4. OldestX(x) = At(Filled(x), HeadAfter, 1)
  BY <1>1, <1>2 DEF OldestX, Slot, At
<1>5. OldestX(x) \in X
  BY <1>1, <1>2, Types DEF OldestX, Slot
<1> QED
  BY <1>3, <1>4, <1>5, EnqueueShifts, PlotConstants

LEMMA AtType ==
  ASSUME PlotTypeOK, InBounds, NEW k \in 1 .. count
  PROVE  At(points, head, k) \in X /\ At(points, head, k) \in Int
<1> DEFINE slot == (head + k - 1) % Len(points)
<1>1. /\ Len(points) \in Nat /\ Len(points) > 0
      /\ head + k - 1 \in 0 .. 2 * Len(points) - 1
  BY Types, PlotConstants DEF InBounds
<1>2. slot \in 0 .. Len(points) - 1
  BY <1>1, WrapOnce
<1> HIDE DEF slot
<1>3. slot + 1 \in 1 .. Len(points)
  BY <1>1, <1>2
<1>4. points[slot + 1] \in X
  BY <1>3, Types
<1> QED
  BY <1>4, PlotConstants DEF At, slot

LEMMA SourceType ==
  ASSUME PlotTypeOK
  PROVE  Source \in X
  BY DEF PlotTypeOK, Source

-----------------------------------------------------------------------------
(* The invariant.                                                          *)

LEMMA PlotInitIInv == PlotInit => PlotIInv
<1> SUFFICES ASSUME PlotInit PROVE PlotIInv
  OBVIOUS
<1>1. Blank(Default) \in [1 .. Default -> X] /\ Len(Blank(Default)) = Default
  BY PlotConstants DEF Blank
<1>2. Blank(Default) \in UNION {[1 .. k -> X] : k \in Depths \union {0}}
  BY <1>1, PlotConstants
<1>3. 0 \in 0 .. Depth - 1 /\ 0 \in 0 .. Depth /\ 0 \in 0 .. Depth + 1
  BY PlotConstants
<1>4. PlotTypeOK
  BY <1>2, <1>3, PlotConstants DEF PlotInit, PlotTypeOK
<1> QED
  BY <1>1, <1>4, PlotConstants DEF PlotInit, PlotIInv, InBounds, Rising, Spans

\* After a sample, whichever of the two ways it was taken.
LEMMA Sampled ==
  ASSUME PlotTypeOK, Remember(Source)
  PROVE  last' \in X /\ run' \in 0 .. Depth + 1 /\ run' \in Nat /\ run' >= 1 /\ run' <= run + 1
           /\ (run' > 1 => mode = "time" /\ run > 0 /\ Source >= last)
<1>1. run \in 0 .. Depth + 1 /\ Depth \in Nat
  BY PlotConstants DEF PlotTypeOK
<1> QED
  BY <1>1, Capped, SourceType DEF Remember

LEMMA EnqueueKeeps ==
  ASSUME PlotIInv, Enqueue
  PROVE  PlotIInv'
<1> DEFINE x == Source
           d == StartCount + 1 - CountAfter
<1>1. PlotTypeOK /\ InBounds /\ enqueueCap > 0 /\ x \in X /\ enqueueCap \in Depths
  BY SourceType, Types DEF PlotIInv, Enqueue, PlotTypeOK
<1>2. /\ points' = Filled(x) /\ head' = HeadAfter /\ count' = CountAfter
      /\ mode' = mode /\ enqueueCap' = enqueueCap
  BY DEF Enqueue, settings
<1>3. /\ points' \in [1 .. enqueueCap -> X] /\ Len(points') = enqueueCap
      /\ head' \in 0 .. enqueueCap - 1 /\ count' \in 1 .. enqueueCap
      /\ StartCount \in 0 .. enqueueCap /\ d \in {0, 1} /\ enqueueCap \in Nat
  BY <1>1, <1>2, EnqueueShifts, Resizing, Types
<1>4. /\ At(points', head', count') = x
      /\ \A j \in 1 .. count' - 1 : At(points', head', j) = At(Base, StartHead, j + d)
  <2>1. \A j \in 1 .. count' - 1 : j + StartCount + 1 - CountAfter = j + d
    BY <1>2, <1>3
  <2> QED
    BY <1>1, <1>2, <2>1, EnqueueShifts
<1>5. /\ last' = x /\ run' \in 0 .. Depth + 1 /\ run' \in Nat /\ run' >= 1 /\ run' <= run + 1
      /\ (run' > 1 => mode = "time" /\ run > 0 /\ x >= last)
  BY <1>1, Sampled DEF Enqueue, Remember
<1>6. PlotTypeOK'
  <2>1. span' \in Nat
    <3>1. NewestX(Source) \in Int /\ OldestX(Source) \in Int
      BY <1>1, Ends, PlotConstants
    <3>2. NewestX(Source) > OldestX(Source) => NewestX(Source) - OldestX(Source) \in Nat
      BY <3>1
    <3>3. \/ span' = span
          \/ NewestX(Source) > OldestX(Source) /\ span' = NewestX(Source) - OldestX(Source)
      BY DEF Enqueue
    <3> QED
      BY <1>1, <3>2, <3>3 DEF PlotTypeOK
  <2>2. points' \in UNION {[1 .. k -> X] : k \in Depths \union {0}}
    BY <1>1, <1>3, RingType
  <2>3. head' \in 0 .. Depth - 1 /\ count' \in 0 .. Depth
    BY <1>1, <1>3, PlotConstants
  <2> QED
    BY <1>1, <1>5, <2>1, <2>2, <2>3 DEF Enqueue, settings, sources, PlotTypeOK
<1>7. InBounds'
  BY <1>3, <1>1, Types DEF InBounds
<1>8. ASSUME StartCount >= 1
      PROVE  /\ ~Resized /\ StartCount = count
             /\ \A j \in 1 .. count' - 1 : At(points', head', j) = At(points, head, j + d)
  BY <1>1, <1>4, <1>8, Resizing
<1>9. count' + d = StartCount + 1
  BY <1>2, <1>3
<1> HIDE DEF x, d
<1>10. Rising'
  <2> DEFINE r == run'
  <2>0. r \in Nat /\ r <= run + 1 /\ (r > 1 => mode = "time" /\ run > 0 /\ x >= last)
    BY <1>5
  <2> SUFFICES ASSUME NEW i \in 1 .. CountAfter, NEW j \in 1 .. CountAfter,
                      CountAfter - r < i, i <= j
               PROVE  At(points', head', i) <= At(points', head', j)
    BY <1>2, <1>4, <1>5 DEF Rising
  <2> HIDE DEF r
  <2>1. x \in Int /\ count \in Nat /\ run \in Nat /\ CountAfter \in Nat /\ count' = CountAfter
    BY <1>1, <1>2, <1>3, PlotConstants, Types
  <2>2. CASE i = CountAfter
    <3>1. j = CountAfter
      BY <2>1, <2>2
    <3> QED
      BY <1>4, <2>1, <2>2, <3>1
  <2>3. CASE i < CountAfter
    <3>1. mode = "time" /\ run > 0 /\ x >= last
      BY <2>0, <2>1, <2>3
    <3>2. i \in 1 .. CountAfter - 1 /\ StartCount >= 1
      BY <1>3, <1>9, <2>1, <2>3
    <3>3. StartCount = count /\ At(points', head', i) = At(points, head, i + d)
      BY <1>8, <2>1, <3>2
    <3>4. i + d \in 1 .. count /\ count - run < i + d /\ count >= 1
      BY <1>3, <1>9, <2>0, <2>1, <3>2, <3>3
    <3>5. /\ At(points, head, count) = last
          /\ \A k, l \in 1 .. count :
               count - run < k /\ k <= l => At(points, head, k) <= At(points, head, l)
      BY <2>1, <3>1, <3>4 DEF PlotIInv, Rising
    <3>6. CASE j < CountAfter
      <4>1. j \in 1 .. CountAfter - 1
        BY <2>1, <3>6
      <4>2. At(points', head', j) = At(points, head, j + d)
        BY <1>8, <2>1, <3>2, <4>1
      <4>3. j + d \in 1 .. count /\ i + d <= j + d
        BY <1>3, <1>9, <2>1, <3>3, <4>1
      <4> QED
        BY <3>3, <3>4, <3>5, <4>2, <4>3
    <3>7. CASE j = CountAfter
      <4>1. At(points, head, i + d) \in Int /\ last \in Int
        BY <1>1, <3>4, AtType, PlotConstants DEF PlotTypeOK
      <4>2. At(points, head, i + d) <= last
        BY <2>1, <3>4, <3>5
      <4>3. At(points', head', j) = x
        BY <1>4, <2>1, <3>7
      <4> QED
        BY <2>1, <3>1, <3>3, <4>1, <4>2, <4>3
    <3> QED
      BY <2>1, <3>6, <3>7
  <2> QED
    BY <2>1, <2>2, <2>3
<1>11. Spans'
  <2>1. /\ NewestX(x) = At(points', head', count')
        /\ OldestX(x) = At(points', head', 1)
    BY <1>1, <1>2, <1>4, Ends
  <2> QED
    BY <1>2, <2>1 DEF Enqueue, Spans, x
<1> QED
  BY <1>6, <1>7, <1>10, <1>11 DEF PlotIInv

LEMMA EmptyRing ==
  ASSUME PlotTypeOK', head' = 0, count' = 0
  PROVE  PlotIInv'
<1>1. PICK n \in Depths \union {0} : points' \in [1 .. n -> X]
  BY DEF PlotTypeOK
<1>2. Len(points') \in Nat
  BY <1>1, RingType, PlotConstants
<1> QED
  BY <1>2 DEF PlotIInv, InBounds, Rising, Spans

LEMMA OtherSamplesKeep ==
  ASSUME PlotIInv, EnqueueEmpty \/ EnqueueBackwards
  PROVE  PlotIInv'
<1>1. 0 \in Depths \union {0} /\ <<>> \in [1 .. 0 -> X] /\ 0 \in 0 .. Depth - 1
        /\ 0 \in 0 .. Depth
  BY PlotConstants
<1>2. CASE EnqueueEmpty
  <2>1. StartHead = 0 /\ StartCount = 0
    BY <1>2, Types DEF EnqueueEmpty, StartHead, StartCount, Resized, PlotIInv, InBounds
  <2>2. points' \in UNION {[1 .. k -> X] : k \in Depths \union {0}}
    BY <1>1, <1>2 DEF EnqueueEmpty
  <2>3. PlotTypeOK'
    BY <1>1, <1>2, <2>1, <2>2 DEF EnqueueEmpty, settings, sources, history, PlotIInv, PlotTypeOK
  <2> QED
    BY <1>2, <2>1, <2>3, EmptyRing DEF EnqueueEmpty
<1>3. CASE EnqueueBackwards
  <2>1. points' \in UNION {[1 .. k -> X] : k \in Depths \union {0}}
    BY <1>3, EnqueueShifts, SourceType DEF EnqueueBackwards, PlotIInv, PlotTypeOK
  <2>2. last' \in X /\ run' \in 0 .. Depth + 1
    BY <1>3, Sampled DEF EnqueueBackwards, PlotIInv
  <2>3. PlotTypeOK'
    BY <1>1, <1>3, <2>1, <2>2 DEF EnqueueBackwards, settings, sources, PlotIInv, PlotTypeOK
  <2> QED
    BY <1>3, <2>3, EmptyRing DEF EnqueueBackwards
<1> QED
  BY <1>2, <1>3

LEMMA MakeLineKeeps ==
  ASSUME PlotIInv, NEW cap \in Depths, NEW m \in {"time", "xy"},
         NEW x \in {"sys_sec", "field", "null"}, NEW y \in BOOLEAN,
         MakeLine(cap, m, x, y)
  PROVE  PlotIInv'
<1>1. Blank(Default) \in UNION {[1 .. k -> X] : k \in Depths \union {0}}
  BY PlotConstants DEF Blank
<1>2. 0 \in 0 .. Depth - 1 /\ 0 \in 0 .. Depth /\ 0 \in 0 .. Depth + 1
  BY PlotConstants
<1>3. PlotTypeOK'
  BY <1>1, <1>2 DEF MakeLine, sources, PlotIInv, PlotTypeOK
<1> QED
  BY <1>3, EmptyRing DEF MakeLine

\* The ring, the span and the last sample stay; in Time Mode the run stays too
\* or is given up.
LEMMA SettingsKeep ==
  ASSUME PlotIInv, PlotTypeOK', UNCHANGED <<ring, last>>,
         mode' = "time" => run' = 0 \/ (mode = "time" /\ run' = run /\ span' = span)
  PROVE  PlotIInv'
<1>1. count \in Nat
  BY Types DEF PlotIInv
<1> QED
  BY <1>1 DEF ring, PlotIInv, InBounds, Rising, Spans, At

LEMMA MenuKeeps ==
  ASSUME PlotIInv, Menu
  PROVE  PlotIInv'
<1>0. 0 \in 0 .. Depth + 1 /\ 0 \in 0 .. Depth - 1 /\ 0 \in 0 .. Depth
        /\ <<>> \in UNION {[1 .. k -> X] : k \in Depths \union {0}}
  <2>1. <<>> \in [1 .. 0 -> X]
    OBVIOUS
  <2> QED
    BY <2>1, PlotConstants
<1>1. CASE Clear
  <2>1. PlotTypeOK'
    BY <1>0, <1>1 DEF Clear, settings, sources, history, PlotIInv, PlotTypeOK
  <2> QED
    BY <1>1, <2>1, EmptyRing DEF Clear
<1>2. CASE AddLine
  BY <1>2, MakeLineKeeps, PlotConstants DEF AddLine
<1>3. CASE LoadLine
  BY <1>3, MakeLineKeeps DEF LoadLine
<1>4. CASE TimeMode
  <2>1. PlotTypeOK'
    BY <1>0, <1>4 DEF TimeMode, ring, sources, PlotIInv, PlotTypeOK
  <2> QED
    BY <1>4, <2>1, SettingsKeep DEF TimeMode
<1>5. CASE XYMode
  <2>1. PlotTypeOK'
    BY <1>0, <1>5 DEF XYMode, ring, sources, PlotIInv, PlotTypeOK
  <2> QED
    BY <1>5, <2>1, SettingsKeep DEF XYMode
<1>6. CASE EditXScale
  <2>1. PlotTypeOK'
    BY <1>6 DEF EditXScale, ring, settings, sources, history, PlotIInv, PlotTypeOK
  <2> QED
    BY <1>6, <2>1, SettingsKeep DEF EditXScale, settings, history
<1>7. CASE SelectY
  <2>1. PlotTypeOK'
    BY <1>7 DEF SelectY, ring, sources, history, PlotIInv, PlotTypeOK
  <2> QED
    BY <1>7, <2>1, SettingsKeep DEF SelectY, history
<1>8. CASE SetBufferSize
  <2>1. PlotTypeOK'
    BY <1>8 DEF SetBufferSize, ring, sources, history, PlotIInv, PlotTypeOK
  <2> QED
    BY <1>8, <2>1, SettingsKeep DEF SetBufferSize, history
<1>9. CASE Detach
  <2>1. PlotTypeOK'
    BY <1>0, <1>9 DEF Detach, ring, sources, PlotIInv, PlotTypeOK
  <2> QED
    BY <1>9, <2>1, SettingsKeep DEF Detach
<1>10. ASSUME NEW x \in {"sys_sec", "field"}, SelectX(x) PROVE PlotIInv'
  <2>1. PlotTypeOK'
    BY <1>0, <1>10 DEF SelectX, ring, sources, PlotIInv, PlotTypeOK
  <2> QED
    BY <1>10, <2>1, SettingsKeep DEF SelectX
<1> QED
  BY <1>1, <1>2, <1>3, <1>4, <1>5, <1>6, <1>7, <1>8, <1>9, <1>10 DEF Menu

LEMMA PlotNextIInv == PlotIInv /\ [PlotNext]_plotVars => PlotIInv'
<1> SUFFICES ASSUME PlotIInv, [PlotNext]_plotVars PROVE PlotIInv'
  OBVIOUS
<1>1. CASE Tick \/ FieldMoves
  <2>1. PlotTypeOK'
    BY <1>1 DEF Tick, FieldMoves, ring, settings, history, PlotIInv, PlotTypeOK
  <2> QED
    BY <1>1, <2>1, SettingsKeep DEF Tick, FieldMoves, settings, history
<1>2. CASE UNCHANGED plotVars
  <2>1. PlotTypeOK'
    BY <1>2 DEF plotVars, ring, settings, sources, history, PlotIInv, PlotTypeOK
  <2> QED
    BY <1>2, <2>1, SettingsKeep DEF plotVars, settings, history
<1> QED
  BY <1>1, <1>2, EnqueueKeeps, OtherSamplesKeep, MenuKeeps DEF PlotNext

-----------------------------------------------------------------------------
(* The theorems.                                                           *)

\* Every variable keeps its type, and the ring is never longer than a depth.
THEOREM PlotTypeCorrect == PlotSpec => []PlotTypeOK
<1>1. PlotIInv => PlotTypeOK
  BY DEF PlotIInv
<1> QED
  BY <1>1, PlotInitIInv, PlotNextIInv, PTL DEF PlotSpec

\* render() never finds a head and a count that lead outside the points: the
\* two are reset whenever the number of points changes.
THEOREM DrawsInBounds == PlotSpec => []DrawnInBounds
<1>1. PlotIInv => DrawnInBounds
  BY Types DEF PlotIInv, InBounds, DrawnInBounds
<1> QED
  BY <1>1, PlotInitIInv, PlotNextIInv, PTL DEF PlotSpec

LEMMA DrawnIsHeld ==
  ASSUME PlotIInv
  PROVE  /\ Drawn \in Seq(X) /\ Len(Drawn) = count
         /\ Drawn \in [1 .. count -> X]
         /\ \A j \in 1 .. count : Drawn[j] = At(points, head, j)
<1>1. Drawn = [j \in 1 .. count |-> At(points, head, j)]
  BY Types DEF PlotIInv, InBounds, Drawn, At
<1>2. Drawn \in [1 .. count -> X]
  BY <1>1, AtType DEF PlotIInv
<1> QED
  BY <1>1, <1>2, Types DEF PlotIInv

\* In Time Mode the points of one source lie between the left edge of the
\* window and the right one, the newest of them at the right edge.
THEOREM TimeFillsWindow == PlotSpec => []TimeFits
<1>1. ASSUME PlotIInv PROVE TimeFits
  <2> SUFFICES ASSUME mode = "time", count >= 2, run >= count
               PROVE  /\ \A j \in 1 .. count : Drawn[j] - Drawn[1] \in 0 .. span
                      /\ Drawn[count] - Drawn[1] > 0 => Drawn[count] - Drawn[1] = span
    BY DEF TimeFits
  <2>1. count \in Nat /\ run \in Nat /\ span \in Nat /\ 1 \in 1 .. count /\ count \in 1 .. count
    BY <1>1, Types DEF PlotIInv, PlotTypeOK
  <2>2. Drawn[count] - Drawn[1] > 0 => Drawn[count] - Drawn[1] = span
    BY <1>1, <2>1, DrawnIsHeld, AtType DEF PlotIInv, Spans
  <2>3. ASSUME NEW j \in 1 .. count PROVE Drawn[j] - Drawn[1] \in 0 .. span
    <3>1. Drawn[1] \in Int /\ Drawn[j] \in Int /\ Drawn[count] \in Int
      BY <1>1, <2>1, DrawnIsHeld, AtType DEF PlotIInv
    <3>2. Drawn[1] <= Drawn[j] /\ Drawn[j] <= Drawn[count]
      BY <1>1, <2>1, DrawnIsHeld DEF PlotIInv, Rising
    <3> QED
      BY <2>1, <2>2, <3>1, <3>2
  <2> QED
    BY <2>2, <2>3
<1> QED
  BY <1>1, PlotInitIInv, PlotNextIInv, PTL DEF PlotSpec

-----------------------------------------------------------------------------
(* The refinement.                                                         *)

\* What the window becomes is what the ring holds after the sample.
LEMMA RingGrows ==
  ASSUME PlotIInv, enqueueCap > 0, NEW x \in X
  PROVE  /\ Window!Grown(x) \in Seq(X) /\ Len(Window!Grown(x)) = CountAfter
         /\ \A j \in 1 .. CountAfter :
              Window!Grown(x)[j] = At(Filled(x), HeadAfter, j)
         /\ Window!Grown(x)[1] = OldestX(x)
<1> DEFINE w == IF enqueueCap = Len(points) THEN Drawn ELSE <<>>
           s == Append(w, x)
           d == StartCount + 1 - CountAfter
<1>1. /\ w \in Seq(X) /\ Len(w) = StartCount
      /\ \A j \in 1 .. StartCount : w[j] = At(Base, StartHead, j)
  <2>1. CASE Resized
    BY <2>1, Resizing DEF Resized, PlotIInv
  <2>2. CASE ~Resized
    BY <2>2, Resizing, DrawnIsHeld DEF Resized, PlotIInv
  <2> QED
    BY <2>1, <2>2
<1>2. /\ StartCount \in 0 .. enqueueCap /\ CountAfter \in 1 .. enqueueCap
      /\ enqueueCap \in Nat
      /\ CountAfter = IF StartCount < enqueueCap THEN StartCount + 1 ELSE StartCount
  BY Resizing, EnqueueShifts, Types DEF PlotIInv
<1> HIDE DEF w
<1>3. /\ s \in Seq(X) /\ Len(s) = StartCount + 1 /\ s[StartCount + 1] = x
      /\ \A j \in 1 .. StartCount : s[j] = w[j]
  BY <1>1, <1>2
<1>4. d \in Nat /\ Len(s) = CountAfter + d
  BY <1>2, <1>3
<1>5. Window!Grown(x) = SubSeq(s, 1 + d, Len(s))
  <2> DEFINE dropped == IF Len(s) > enqueueCap THEN Len(s) - enqueueCap ELSE 0
  <2>1. Window!Grown(x) = SubSeq(s, 1 + dropped, Len(s))
    BY DEF Window!Grown, Window!LastOf, w
  <2>2. dropped = d
    BY <1>2, <1>3
  <2> QED
    BY <2>1, <2>2
<1> HIDE DEF s, d
<1>6. /\ Window!Grown(x) \in Seq(X) /\ Len(Window!Grown(x)) = CountAfter
      /\ \A j \in 1 .. CountAfter : Window!Grown(x)[j] = s[j + d]
  BY <1>2, <1>3, <1>4, <1>5
<1>7. ASSUME NEW j \in 1 .. CountAfter
      PROVE  Window!Grown(x)[j] = At(Filled(x), HeadAfter, j)
  <2>1. CASE j = CountAfter
    <3>1. j + d = StartCount + 1
      BY <1>2, <1>3, <1>4, <2>1
    <3> QED
      BY <1>3, <1>6, <2>1, <3>1, EnqueueShifts DEF PlotIInv
  <2>2. CASE j < CountAfter
    <3>1. j + d \in 1 .. StartCount /\ j \in 1 .. CountAfter - 1
      BY <1>2, <1>3, <1>4, <2>2
    <3>2. j + d = j + StartCount + 1 - CountAfter
      BY <1>2 DEF d
    <3>3. At(Filled(x), HeadAfter, j) = At(Base, StartHead, j + d)
      BY <3>1, <3>2, EnqueueShifts DEF PlotIInv
    <3> QED
      BY <1>1, <1>3, <1>6, <3>1, <3>3
  <2> QED
    BY <1>2, <2>1, <2>2
<1>8. 1 \in 1 .. CountAfter
  BY <1>2
<1> QED
  BY <1>6, <1>7, <1>8, Ends DEF PlotIInv

\* enqueue_data() shows the sample or, when it is older than what is shown,
\* starts anew.
LEMMA EnqueueShows ==
  ASSUME PlotIInv, PlotIInv', Enqueue \/ EnqueueBackwards
  PROVE  Window!Show(Source) \/ Window!StartAnew(Source)
<1>1. Source \in X /\ enqueueCap > 0 /\ enqueueCap \in Nat
  BY SourceType, Types DEF PlotIInv, Enqueue, EnqueueBackwards
<1>2. /\ NewestX(Source) = Source /\ OldestX(Source) = Window!Grown(Source)[1]
      /\ CountAfter \in 1 .. enqueueCap /\ Len(Filled(Source)) = enqueueCap
  BY <1>1, Ends, RingGrows, EnqueueShifts DEF PlotIInv
<1>3. CountAfter = 1 => OldestX(Source) = Source
  BY <1>1, Ends, EnqueueShifts DEF PlotIInv
<1>4. OldestX(Source) \in Int /\ Source \in Int
  BY <1>1, Ends, PlotConstants DEF PlotIInv
<1>5. Backwards(Source) <=> mode = "time" /\ Source < Window!Grown(Source)[1]
  BY <1>1, <1>2, <1>3, <1>4 DEF Backwards
<1>6. CASE Enqueue
  <2>1. /\ points' = Filled(Source) /\ head' = HeadAfter /\ count' = CountAfter
        /\ UNCHANGED <<enqueueCap, mode>> /\ ~Backwards(Source)
    BY <1>6 DEF Enqueue, settings
  <2>2. Drawn' = Window!Grown(Source)
    <3>1. /\ Drawn' = [j \in 1 .. CountAfter |-> At(Filled(Source), HeadAfter, j)]
      BY <1>1, <1>2, <2>1 DEF Drawn, At
    <3> QED
      BY <1>1, <3>1, RingGrows
  <2> QED
    BY <1>1, <1>2, <1>5, <2>1, <2>2 DEF Window!Show
<1>7. CASE EnqueueBackwards
  <2>1. /\ points' = Filled(Source) /\ count' = 0
        /\ UNCHANGED <<enqueueCap, mode>> /\ Backwards(Source)
    BY <1>7 DEF EnqueueBackwards, settings
  <2>2. Drawn' = <<>>
    BY <2>1, <1>1, <1>2 DEF Drawn
  <2> QED
    BY <1>1, <1>2, <1>5, <2>1, <2>2 DEF Window!StartAnew
<1> QED
  BY <1>6, <1>7

LEMMA NothingDrawn ==
  ASSUME PlotIInv', count' = 0
  PROVE  Drawn' = <<>>
BY DEF Drawn, PlotIInv, InBounds

LEMMA StepRefines ==
  ASSUME PlotIInv, PlotIInv', [PlotNext]_plotVars
  PROVE  [Window!Next]_<<Drawn, enqueueCap, Len(points), mode = "time">>
<1>1. CASE Enqueue \/ EnqueueBackwards
  BY <1>1, EnqueueShows, SourceType DEF Window!Next, PlotIInv
<1>2. CASE EnqueueEmpty
  <2>1. count' = 0 /\ points' = <<>> /\ enqueueCap = 0 /\ UNCHANGED <<enqueueCap, mode>>
    BY <1>2, Types DEF EnqueueEmpty, StartCount, Resized, PlotIInv, InBounds, settings
  <2> QED
    BY <2>1, NothingDrawn DEF Window!Next, Window!ShowNothing
<1>3. CASE Clear
  BY <1>3, NothingDrawn DEF Clear, settings, Window!Next, Window!Clear
<1>4. ASSUME NEW cap \in Depths, NEW m \in {"time", "xy"},
             NEW x \in {"sys_sec", "field", "null"}, NEW y \in BOOLEAN,
             MakeLine(cap, m, x, y)
      PROVE  Window!NewLine
  <2>1. points' = Blank(Default) /\ Len(Blank(Default)) = Default
    BY <1>4, PlotConstants DEF MakeLine, Blank
  <2> QED
    BY <1>4, <2>1, NothingDrawn DEF MakeLine, Window!NewLine
<1>5. CASE AddLine \/ LoadLine
  BY <1>4, <1>5, PlotConstants DEF AddLine, LoadLine, Window!Next
<1>6. ASSUME UNCHANGED ring, enqueueCap' \in Depths
      PROVE  Window!Change
  BY <1>6 DEF ring, Drawn, Window!Change
<1>7. CASE Tick \/ FieldMoves \/ TimeMode \/ XYMode \/ EditXScale \/ SelectY
             \/ SetBufferSize \/ Detach \/ UNCHANGED plotVars
             \/ \E x \in {"sys_sec", "field"} : SelectX(x)
  <2>1. UNCHANGED ring /\ enqueueCap' \in Depths
    BY <1>7 DEF Tick, FieldMoves, TimeMode, XYMode, EditXScale, SelectY, SetBufferSize,
       Detach, SelectX, plotVars, settings, PlotIInv, PlotTypeOK
  <2> QED
    BY <1>6, <2>1 DEF Window!Next
<1> QED
  BY <1>1, <1>2, <1>3, <1>5, <1>7 DEF PlotNext, Menu

\* The ring with its head and count is the window of the last samples, through
\* every resize, clear, mode switch and load.
THEOREM RingIsWindow == PlotSpec => ImplementsWindow
<1>1. PlotInit => Window!Init
  <2> SUFFICES ASSUME PlotInit PROVE Window!Init
    OBVIOUS
  <2>1. Len(points) = Default /\ count = 0
    BY PlotConstants DEF PlotInit, Blank
  <2>2. Drawn = <<>>
    BY <2>1, PlotConstants DEF Drawn
  <2> QED
    BY <2>1, <2>2 DEF PlotInit, Window!Init
<1>2. PlotIInv /\ PlotIInv' /\ [PlotNext]_plotVars => [Window!Next]_(Window!vars)
  BY StepRefines DEF Window!vars
<1> QED
  BY <1>1, <1>2, PlotInitIInv, PlotNextIInv, PTL DEF PlotSpec, ImplementsWindow, Window!Spec

-----------------------------------------------------------------------------
(* The recording.                                                          *)

USE DEF display, tape

WavType == [room : Nat, taken : Nat, riff : Nat, dataChunkDataSize : Nat,
            dataChunkDataPos : Nat]

\* Nothing is recorded while the file is written, and what was recorded is
\* given up at the end.
Modes ==
  /\ open_ \in BOOLEAN /\ at \in {"ui", "unopened", "ended"} \union Steps
  /\ recording = open_
  /\ at # "ui" => ~open_
  /\ at \in {"ui", "ended"} /\ ~open_ => samples_ = <<>>
  /\ \E S : samples_ \in Seq(S)

\* What has been counted of the header and of the data is all there was to
\* write, or the disk has no room left; no padding follows a whole number of
\* samples.
Writing ==
  /\ wav \in WavType
  /\ IF at \in Steps THEN wav.room \in DiskRoom ELSE wav.room = 0
  /\ at = "header" => wav.taken = 0
  /\ at \in Steps \ {"header"} =>
       \/ wav.dataChunkDataPos = HeaderBytes
       \/ wav.dataChunkDataPos = wav.room /\ wav.room < HeaderBytes
  /\ at = "frames" => wav.taken = wav.dataChunkDataPos
  /\ at \in {"pad", "riff", "data"} =>
       \/ wav.dataChunkDataSize = DataBytes
       \/ wav.dataChunkDataSize < DataBytes /\ wav.room <= wav.taken
  /\ at = "pad" => wav.taken = wav.dataChunkDataPos + wav.dataChunkDataSize
  /\ at \in {"riff", "data"} =>
       \/ wav.taken = wav.dataChunkDataPos + wav.dataChunkDataSize
       \/ wav.taken > wav.room
  /\ at = "data" /\ Seeks /\ wav.taken >= 8 =>
       wav.riff = RiffChunkSize(wav.dataChunkDataSize)

IInv == Modes /\ Writing /\ SizesMatchContent

-----------------------------------------------------------------------------
LEMMA Bytes ==
  /\ HeaderBytes = 44 /\ SampleBytes = 4 /\ MaxSize \in Nat /\ DiskRoom \subseteq Nat
BY RecorderAssumption DEF HeaderBytes, RiffHeader, FmtChunk, DataHeader, Tag, U32, U16,
   SampleBytes

\* What is recorded has a length, and its bytes are whole samples.
LEMMA Lengths ==
  ASSUME Modes
  PROVE  Len(samples_) \in Nat /\ DataBytes = 4 * Len(samples_) /\ DataBytes \in Nat
BY Bytes DEF Modes, DataBytes

LEMMA TakenBytes ==
  ASSUME Writing, NEW n \in Nat, NEW written \in Taken(n)
  PROVE  /\ written \in Nat
         /\ \/ written = n
            \/ written < n /\ wav.room <= wav.taken + written
               /\ (wav.taken <= wav.room => wav.taken + written = wav.room)
BY DEF Writing, WavType, Taken

LEMMA InitIInv == Init => IInv
<1> SUFFICES ASSUME Init PROVE IInv
  OBVIOUS
<1>1. Modes
  BY EmptySeq DEF Init, Modes
<1>2. NoWav \in WavType
  BY DEF NoWav, WavType
<1>3. Writing
  BY <1>2 DEF Init, NoWav, Writing, Steps
<1>4. SizesMatchContent
  BY Bytes DEF Init, NoFile, SizesMatchContent
<1> QED
  BY <1>1, <1>3, <1>4 DEF IInv

LEMMA HeaderStep ==
  ASSUME IInv, Header
  PROVE  Writing'
<1>1. PICK written \in Taken(HeaderBytes) :
        wav' = [wav EXCEPT !.taken = written, !.dataChunkDataPos = written,
                           !.riff = IF written >= 8 THEN 36 ELSE 0]
  BY DEF Header
<1>2. /\ written \in Nat
      /\ written = HeaderBytes \/ (written = wav.room /\ written < HeaderBytes)
  BY Bytes, TakenBytes DEF IInv, Header, Writing, WavType, Steps
<1>3. /\ wav' \in WavType /\ wav'.room = wav.room /\ wav'.taken = written
      /\ wav'.dataChunkDataPos = written /\ at' = "frames" /\ at = "header"
  BY <1>1, <1>2 DEF IInv, Writing, WavType, Header
<1> QED
  BY <1>2, <1>3 DEF IInv, Writing, Steps

LEMMA FramesStep ==
  ASSUME IInv, Frames
  PROVE  Writing'
<1>1. PICK written \in Taken(DataBytes) :
        wav' = [wav EXCEPT !.taken = @ + written, !.dataChunkDataSize = written]
  BY DEF Frames
<1>2. DataBytes \in Nat
  BY Lengths DEF IInv
<1>3. /\ written \in Nat
      /\ \/ written = DataBytes
         \/ written < DataBytes /\ wav.room <= wav.taken + written
  BY <1>1, <1>2, TakenBytes DEF IInv
<1>4. /\ wav' \in WavType /\ wav'.room = wav.room /\ wav'.taken = wav.taken + written
      /\ wav'.dataChunkDataPos = wav.dataChunkDataPos /\ wav'.dataChunkDataSize = written
  <2>1. wav \in WavType /\ wav.taken + written \in Nat
    BY <1>3 DEF IInv, Writing, WavType
  <2> DEFINE sum == wav.taken + written
  <2>2. wav' = [wav EXCEPT !.taken = sum, !.dataChunkDataSize = written]
    BY <1>1
  <2>3. sum \in Nat /\ written \in Nat
    BY <1>3, <2>1
  <2> HIDE DEF sum
  <2>4. /\ wav' \in WavType /\ wav'.room = wav.room /\ wav'.taken = sum
        /\ wav'.dataChunkDataPos = wav.dataChunkDataPos /\ wav'.dataChunkDataSize = written
    BY <2>1, <2>2, <2>3 DEF WavType
  <2> QED
    BY <2>4 DEF sum
<1>5. at' = "pad" /\ at = "frames" /\ DataBytes' = DataBytes
  BY DEF Frames, DataBytes
<1> QED
  BY <1>3, <1>4, <1>5 DEF IInv, Writing, Steps

\* A byte of padding follows only when the data was cut short, and finds no
\* room either.
LEMMA PadStep ==
  ASSUME IInv, Pad
  PROVE  Writing'
<1> DEFINE size == wav.dataChunkDataSize
<1>1. PICK written \in Taken(PaddingSize(size)) :
        wav' = [wav EXCEPT !.taken = @ + written]
  BY DEF Pad
<1>2. size \in Nat /\ PaddingSize(size) \in {0, 1}
  BY SMT DEF IInv, Writing, WavType, PaddingSize
<1>3. written \in {0, 1} /\ (PaddingSize(size) = 0 => written = 0)
  BY <1>1, <1>2, TakenBytes DEF IInv
<1>4. size = DataBytes => PaddingSize(size) = 0
  BY Lengths, SMT DEF IInv, PaddingSize
<1>5. written = 0 \/ wav.room <= wav.taken
  BY <1>3, <1>4 DEF IInv, Writing, Pad
<1>6. /\ wav' \in WavType /\ wav'.room = wav.room /\ wav'.taken = wav.taken + written
      /\ wav'.dataChunkDataPos = wav.dataChunkDataPos /\ wav'.dataChunkDataSize = size
      /\ at' = "riff" /\ at = "pad" /\ DataBytes' = DataBytes
      /\ wav.taken \in Nat /\ wav.room \in Nat
  BY <1>1, <1>3 DEF IInv, Writing, WavType, Pad, DataBytes
<1> QED
  BY <1>3, <1>5, <1>6 DEF IInv, Writing, Steps

LEMMA PatchRiffStep ==
  ASSUME IInv, PatchRiff
  PROVE  Writing'
<1>1. wav.dataChunkDataSize \in Nat /\ wav \in WavType
  BY DEF IInv, Writing, WavType
<1>2. RiffChunkSize(wav.dataChunkDataSize) \in Nat
  BY <1>1, Bytes, SMT DEF RiffChunkSize, PaddingSize
<1>3. /\ wav' \in WavType /\ wav'.room = wav.room /\ wav'.taken = wav.taken
      /\ wav'.dataChunkDataPos = wav.dataChunkDataPos
      /\ wav'.dataChunkDataSize = wav.dataChunkDataSize
      /\ at' = "data" /\ at = "riff" /\ DataBytes' = DataBytes
      /\ Seeks /\ wav.taken >= 8 => wav'.riff = RiffChunkSize(wav.dataChunkDataSize)
  BY <1>1, <1>2 DEF PatchRiff, WavType, DataBytes
<1> QED
  BY <1>3 DEF IInv, Writing, Steps, Seeks, RiffChunkSize, PaddingSize

\* What is read back of a file whose last write reached it.
LEMMA PatchDataStep ==
  ASSUME IInv, PatchData
  PROVE  SizesMatchContent'
<1> DEFINE size == wav.dataChunkDataSize
           len  == IF Seeks THEN wav.taken ELSE wav.room
           whole == IF len > HeaderBytes THEN (len - HeaderBytes) \div SampleBytes ELSE 0
           kept == IF whole < Len(samples_) THEN whole ELSE Len(samples_)
<1>1. /\ file'.len = len /\ file'.riff = wav.riff /\ file'.cut = ~Seeks
      /\ file'.data = IF Seeks /\ wav.dataChunkDataPos = HeaderBytes
                       THEN DataChunkSize(size) ELSE 0
      /\ file'.samples = SubSeq(samples_, 1, kept)
      /\ at = "data"
  BY DEF PatchData
<1> SUFFICES ASSUME Seeks, wav.taken >= HeaderBytes
             PROVE  SizesMatch'
  BY <1>1 DEF SizesMatchContent
<1>2. /\ wav.taken \in Nat /\ size \in Nat /\ wav.room \in Nat
      /\ wav.dataChunkDataPos \in Nat
  BY DEF IInv, Writing, WavType
<1>3. /\ wav.dataChunkDataPos = HeaderBytes /\ wav.taken = HeaderBytes + size
      /\ size <= DataBytes /\ wav.riff = RiffChunkSize(size)
  <2>1. /\ \/ wav.dataChunkDataPos = HeaderBytes
           \/ wav.dataChunkDataPos = wav.room /\ wav.room < HeaderBytes
        /\ size = DataBytes \/ size < DataBytes
        /\ \/ wav.taken = wav.dataChunkDataPos + size
           \/ wav.taken > wav.room
        /\ Seeks /\ wav.taken >= 8 => wav.riff = RiffChunkSize(size)
    BY <1>1 DEF IInv, Writing, Steps
  <2>2. wav.taken <= wav.room /\ wav.taken >= 44
    BY Bytes DEF Seeks
  <2>3. DataBytes \in Nat
    BY Lengths DEF IInv
  <2> HIDE DEF size
  <2> QED
    BY <1>2, <2>1, <2>2, <2>3, Bytes
<1>4. /\ Len(samples_) \in Nat /\ DataBytes = 4 * Len(samples_)
      /\ len = 44 + size /\ len - HeaderBytes = size
  BY <1>2, <1>3, Bytes, Lengths DEF IInv
<1>5. whole = size \div 4 /\ whole \in Nat /\ whole <= Len(samples_)
  BY <1>2, <1>3, <1>4, Bytes, SMT
<1>6. Len(file'.samples) = whole
  <2>1. kept = whole
    BY <1>4, <1>5
  <2> HIDE DEF whole, kept
  <2>2. PICK S : samples_ \in Seq(S)
    BY DEF IInv, Modes
  <2>3. \A i \in 1 .. whole : samples_[i] \in S
    BY <1>4, <1>5, <2>2
  <2>4. Len(SubSeq(samples_, 1, whole)) = IF 1 <= whole THEN whole - 1 + 1 ELSE 0
    BY <1>5, <2>3, SubSeqProperties
  <2> QED
    BY <1>1, <1>5, <2>1, <2>4
<1>7. file'.data = DataChunkSize(size) /\ file'.riff = RiffChunkSize(size)
  BY <1>1, <1>3
<1>8. file'.len - HeaderBytes = size
  BY <1>1, <1>4
<1> HIDE DEF size, len, whole, kept
<1>9. file'.data = IF size <= MaxSize THEN size ELSE MaxSize
  BY <1>7 DEF DataChunkSize
<1>10. file'.data \div SampleBytes = Len(file'.samples) \/ size > MaxSize
  BY <1>2, <1>5, <1>6, <1>9, Bytes
<1>11. file'.riff = IF 36 + size + (size % 2) <= MaxSize THEN 36 + size + (size % 2) ELSE MaxSize
  BY <1>2, <1>7, Bytes, SMT DEF RiffChunkSize, PaddingSize
<1> QED
  BY <1>8, <1>9, <1>10, <1>11 DEF SizesMatch

LEMMA IInvStep ==
  ASSUME IInv, [Next]_vars
  PROVE  IInv'
<1>1. CASE Reply
  <2>1. \E S : samples_' \in Seq(S)
    <3>1. PICK S : samples_ \in Seq(S)
      BY DEF IInv, Modes
    <3>2. CASE open_
      <4>1. PICK window \in SUBSET Fields \ {{}},
                 reported \in [Fields -> UNION {Received[f] : f \in Fields}] :
              LET updated == window \ dirty
                  shown == [f \in Fields |-> IF f \in updated THEN DisplayOf(f, reported[f])
                                             ELSE display_value[f]]
              IN \E list \in InOrder(updated) :
                   /\ samples_' = Written([i \in DOMAIN list |-> shown[list[i]]])
                   /\ heard' = IF recording
                               THEN heard \o [i \in DOMAIN list |-> Noted(list[i], reported[list[i]])]
                               ELSE heard
        BY <1>1 DEF Reply
      <4> DEFINE updated == window \ dirty
                 shown == [f \in Fields |-> IF f \in updated THEN DisplayOf(f, reported[f])
                                            ELSE display_value[f]]
      <4>2. PICK list \in InOrder(updated) :
              samples_' = samples_ \o [i \in DOMAIN list |-> shown[list[i]]]
        BY <3>2, <4>1 DEF Written
      <4> HIDE DEF shown, updated
      <4>5. \E n \in Nat : DOMAIN list = 1 .. n
        BY <4>2, RecorderAssumption DEF InOrder, SeqOf
      <4>6. PICK n \in Nat : DOMAIN list = 1 .. n
        BY <4>5
      <4> DEFINE T == S \union {shown[list[i]] : i \in DOMAIN list}
      <4>3. samples_ \in Seq(T) /\ [i \in DOMAIN list |-> shown[list[i]]] \in Seq(T)
        BY <3>1, <4>6
      <4>4. samples_' \in Seq(T)
        BY <4>2, <4>3, ConcatProperties
      <4> QED
        BY <4>4
    <3> QED
      BY <1>1, <3>1, <3>2 DEF Reply, Written
  <2>2. /\ at = "ui" /\ UNCHANGED <<open_, recording, at, wav, file>>
        /\ ~open_ => samples_' = samples_
    BY <1>1 DEF Reply, Written
  <2>3. Modes'
    BY <2>1, <2>2 DEF IInv, Modes
  <2>4. Writing' /\ SizesMatchContent'
    BY <2>2 DEF IInv, Writing, Steps, SizesMatchContent, SizesMatch
  <2> QED
    BY <2>3, <2>4 DEF IInv
<1>2. ASSUME UNCHANGED <<tape, at, wav, file>>
      PROVE  IInv'
  BY <1>2 DEF IInv, Modes, Writing, DataBytes, Seeks, SizesMatchContent, SizesMatch
<1>3. CASE StartWav \/ CloseFails \/ Quit
  <2>1. /\ at \in {"ui", "unopened"} /\ at' \in {"ui", "ended"} /\ wav' = wav /\ file' = file
        /\ samples_' = <<>> /\ open_' \in BOOLEAN /\ recording' = open_'
        /\ at' # "ui" => ~open_'
    BY <1>3 DEF StartWav, CloseFails, Quit, IInv, Modes
  <2>2. at \notin Steps /\ at' \notin Steps
    BY <2>1 DEF Steps
  <2>3. Modes'
    BY <2>1, EmptySeq DEF Modes
  <2>4. Writing' /\ SizesMatchContent'
    BY <2>1, <2>2 DEF IInv, Writing, Steps, SizesMatchContent, SizesMatch
  <2> QED
    BY <2>3, <2>4 DEF IInv
<1>4. CASE CloseWav
  <2>1. /\ at = "ui" /\ open_' = FALSE /\ recording' = FALSE /\ UNCHANGED <<samples_, file>>
        /\ at' \in {"header", "unopened"}
    BY <1>4 DEF CloseWav
  <2>2. Modes' /\ SizesMatchContent'
    BY <2>1 DEF IInv, Modes, Steps, SizesMatchContent, SizesMatch
  <2>3. CASE at' = "unopened"
    <3>1. wav' = wav
      BY <1>4, <2>3 DEF CloseWav
    <3>2. Writing'
      BY <2>1, <2>3, <3>1 DEF IInv, Writing, Steps
    <3> QED
      BY <2>2, <3>2 DEF IInv
  <2>4. CASE at' = "header"
    <3>1. PICK room \in DiskRoom : wav' = [NoWav EXCEPT !.room = room]
      BY <1>4, <2>4 DEF CloseWav
    <3>2. wav' \in WavType /\ wav'.room = room /\ wav'.taken = 0
      BY <3>1, Bytes DEF NoWav, WavType
    <3>3. Writing'
      BY <2>4, <3>2 DEF Writing, Steps
    <3> QED
      BY <2>2, <3>3 DEF IInv
  <2> QED
    BY <2>1, <2>3, <2>4
<1>5. CASE Header \/ Frames \/ Pad \/ PatchRiff
  <2>1. Writing'
    BY <1>5, HeaderStep, FramesStep, PadStep, PatchRiffStep
  <2>2. at \in Steps /\ at' \in Steps /\ UNCHANGED <<tape, file>>
    BY <1>5 DEF Header, Frames, Pad, PatchRiff, Steps
  <2> QED
    BY <2>1, <2>2 DEF IInv, Modes, Steps, SizesMatchContent, SizesMatch
<1>6. CASE PatchData
  <2>1. /\ open_' = FALSE /\ recording' = FALSE /\ at' = "ui" /\ samples_' = <<>>
        /\ wav' = NoWav
    BY <1>6 DEF PatchData, IInv, Modes
  <2>2. NoWav \in WavType /\ NoWav.room = 0
    BY DEF NoWav, WavType
  <2>3. Modes'
    BY <2>1, EmptySeq DEF Modes
  <2>4. Writing'
    BY <2>1, <2>2 DEF Writing, Steps
  <2> QED
    BY <1>6, <2>3, <2>4, PatchDataStep DEF IInv
<1>7. ASSUME NEW f \in Edited,
             \/ Queue(f) \/ ClickUseScale(f)
             \/ \E s \in Scales : EditScale(f, s)
             \/ \E v \in Received[f] : EditPlain(f, v)
             \/ \E d \in Typed \union {Shown(f)} : EditScaled(f, d)
      PROVE  IInv'
  BY <1>2, <1>7 DEF Queue, ClickUseScale, EditScale, EditPlain, EditScaled
<1>8. CASE LoadConfig \/ UNCHANGED vars
  BY <1>2, <1>8 DEF LoadConfig, vars
<1>9. CASE Boot
  <2>1. at = "ended" /\ at' = "ui" /\ UNCHANGED <<tape, wav, file>>
    BY <1>9 DEF Boot
  <2>2. Modes'
    BY <2>1 DEF IInv, Modes
  <2>3. Writing' /\ SizesMatchContent'
    BY <2>1 DEF IInv, Writing, Steps, SizesMatchContent, SizesMatch
  <2> QED
    BY <2>2, <2>3 DEF IInv
<1> QED
  BY <1>1, <1>3, <1>4, <1>5, <1>6, <1>7, <1>8, <1>9 DEF Next, Drwav

\* The sizes in a file that has a whole header are those of what is behind it,
\* wherever the disk filled up, unless the library had handed the FILE more
\* than there was room for (dr_wav.h:5690, 6136, 4421).
THEOREM SizesAreRight == Spec => []SizesMatchContent
<1>1. IInv => SizesMatchContent
  BY DEF IInv
<1> QED
  BY <1>1, InitIInv, IInvStep, PTL DEF Spec

-----------------------------------------------------------------------------
(* The tape.                                                               *)

\* Every subscribed leaf has a display value: calculate_display_value() leaves
\* that of an enumeration alone, so a recording holds what was there before.
AllDisplayed == \A f \in Fields : TypeOf[f] # "enum"

\* The scales are ones the user set, and the samples that are kept are what
\* the replies since Start reported, as it was displayed.
Audible ==
  /\ display_scale \in [Fields -> Scales]
  /\ heard \in Seq(Heard) /\ samples_ = heard

LEMMA InOrderType ==
  ASSUME NEW F, NEW list \in InOrder(F)
  PROVE  \E n \in Nat : /\ list \in [1 .. n -> F] /\ list \in Seq(F) /\ Len(list) = n
                        /\ n = 0 <=> F = {}
<1>1. PICK n \in 0 .. Len(Leaves) : list \in [1 .. n -> F]
  BY DEF InOrder, SeqOf
<1>2. n \in Nat
  BY RecorderAssumption
<1>3. list \in Seq(F) /\ Len(list) = n
  BY <1>1, <1>2
<1>4. F = {list[i] : i \in 1 .. n}
  BY <1>1 DEF InOrder, Range
<1> QED
  BY <1>1, <1>2, <1>3, <1>4

\* What a reply adds to an open recording, and to the history: nothing, or
\* the same samples.
LEMMA ReplyRecords ==
  ASSUME AllDisplayed, IInv, Audible, Reply, open_
  PROVE  \E more \in Seq(Heard) : samples_' = samples_ \o more /\ heard' = heard \o more
<1>1. PICK window \in SUBSET Fields \ {{}},
           reported \in [Fields -> UNION {Received[f] : f \in Fields}] :
        LET updated == window \ dirty
            shown == [f \in Fields |-> IF f \in updated THEN DisplayOf(f, reported[f])
                                       ELSE display_value[f]]
        IN /\ \A f \in Fields : reported[f] \in IF f \in updated THEN Received[f] ELSE {value[f]}
           /\ \E list \in InOrder(updated) :
                /\ samples_' = Written([i \in DOMAIN list |-> shown[list[i]]])
                /\ heard' = IF recording
                            THEN heard \o [i \in DOMAIN list |-> Noted(list[i], reported[list[i]])]
                            ELSE heard
  BY DEF Reply
<1> DEFINE updated == window \ dirty
           shown == [f \in Fields |-> IF f \in updated THEN DisplayOf(f, reported[f])
                                      ELSE display_value[f]]
<1>2. PICK list \in InOrder(updated) :
        /\ samples_' = samples_ \o [i \in DOMAIN list |-> shown[list[i]]]
        /\ heard' = heard \o [i \in DOMAIN list |-> Noted(list[i], reported[list[i]])]
  BY <1>1 DEF Written, IInv, Modes
<1>3. ASSUME NEW f \in updated
      PROVE  shown[f] \in Heard /\ Noted(f, reported[f]) = shown[f]
  <2>1. f \in Fields /\ reported[f] \in Received[f]
    BY <1>1
  <2>2. shown[f] = Displayed(TypeOf[f], reported[f], display_scale[f])
    BY <2>1 DEF AllDisplayed, DisplayOf
  <2>3. display_scale[f] \in Scales
    BY <2>1 DEF Audible
  <2>4. shown[f] \in Heard
    BY <2>1, <2>2, <2>3 DEF Heard
  <2> QED
    BY <2>2, <2>4 DEF Noted
<1> HIDE DEF shown, updated
<1>4. PICK n \in Nat : list \in [1 .. n -> updated]
  BY InOrderType
<1> DEFINE more == [i \in DOMAIN list |-> shown[list[i]]]
<1>5. more \in Seq(Heard)
  BY <1>3, <1>4
<1>6. [i \in DOMAIN list |-> Noted(list[i], reported[list[i]])] = more
  <2>1. \A i \in DOMAIN list : Noted(list[i], reported[list[i]]) = shown[list[i]]
    BY <1>3, <1>4
  <2> QED
    BY <2>1
<1> QED
  BY <1>2, <1>5, <1>6

LEMMA AudibleStep ==
  ASSUME AllDisplayed, IInv, Audible, [Next]_vars
  PROVE  Audible'
<1>1. CASE Reply
  <2>1. CASE open_
    <3>1. PICK more \in Seq(Heard) : samples_' = samples_ \o more /\ heard' = heard \o more
      BY <1>1, <2>1, ReplyRecords
    <3>2. heard' \in Seq(Heard)
      BY <3>1, ConcatProperties DEF Audible
    <3> QED
      BY <1>1, <3>1, <3>2 DEF Reply, Audible
  <2>2. CASE ~open_
    <3>1. samples_' = samples_ /\ heard' = heard /\ display_scale' = display_scale
      BY <1>1, <2>2 DEF Reply, Written, IInv, Modes
    <3> QED
      BY <3>1 DEF Audible
  <2> QED
    BY <2>1, <2>2
<1>2. ASSUME UNCHANGED display_scale,
             UNCHANGED <<samples_, heard>> \/ (samples_' = <<>> /\ heard' = <<>>)
      PROVE  Audible'
  BY <1>2, EmptySeq DEF Audible
<1>3. CASE LoadConfig
  BY <1>3, RecorderAssumption DEF LoadConfig, Audible
<1>4. CASE Quit
  BY <1>4, RecorderAssumption, EmptySeq DEF Quit, Audible
<1>5. CASE StartWav \/ CloseWav \/ CloseFails \/ Boot \/ Drwav \/ UNCHANGED vars
  BY <1>2, <1>5
  DEF StartWav, CloseWav, CloseFails, Boot, Drwav, Header, Frames, Pad, PatchRiff, PatchData, vars
<1>6. ASSUME NEW f \in Edited,
             \/ Queue(f) \/ ClickUseScale(f)
             \/ \E v \in Received[f] : EditPlain(f, v)
             \/ \E d \in Typed \union {Shown(f)} : EditScaled(f, d)
      PROVE  Audible'
  BY <1>2, <1>6 DEF Queue, ClickUseScale, EditPlain, EditScaled
<1>7. ASSUME NEW f \in Edited, NEW s \in Scales, EditScale(f, s)
      PROVE  Audible'
  BY <1>7 DEF EditScale, Audible
<1> QED
  BY <1>1, <1>3, <1>4, <1>5, <1>6, <1>7 DEF Next

\* How many samples are read back of a file that filled the disk, or did not.
LEMMA KeptSamples ==
  ASSUME IInv, PatchData
  PROVE  LET room == WholeSamples(wav.room) IN
           file'.samples = SubSeq(samples_, 1, IF Len(samples_) <= room THEN Len(samples_) ELSE room)
<1> DEFINE N == Len(samples_)
           size == wav.dataChunkDataSize
           len  == IF Seeks THEN wav.taken ELSE wav.room
           whole == IF len > 44 THEN (len - 44) \div 4 ELSE 0
           room == IF wav.room < 44 THEN 0 ELSE (wav.room - 44) \div 4
<1>1. file'.samples = SubSeq(samples_, 1, IF whole < N THEN whole ELSE N)
  BY Bytes DEF PatchData
<1>2. wav.room \in DiskRoom /\ at = "data"
  BY DEF PatchData, IInv, Writing, Steps
<1>3. /\ wav.taken \in Nat /\ size \in Nat /\ wav.room \in Nat
      /\ wav.dataChunkDataPos \in Nat /\ N \in Nat /\ DataBytes = 4 * N
  BY Lengths DEF IInv, Writing, WavType
<1>4. /\ \/ wav.dataChunkDataPos = 44
         \/ wav.dataChunkDataPos = wav.room /\ wav.room < 44
      /\ \/ size = DataBytes
         \/ size < DataBytes /\ wav.room <= wav.taken
      /\ \/ wav.taken = wav.dataChunkDataPos + size
         \/ wav.taken > wav.room
  BY <1>2, Bytes DEF IInv, Writing, Steps
<1>5. (IF whole < N THEN whole ELSE N) = (IF N <= room THEN N ELSE room)
  <2> HIDE DEF size, N
  <2>1. CASE len = wav.room
    <3>1. whole = room /\ room \in Nat
      BY <1>3, <2>1, SMT
    <3> QED
      BY <1>3, <3>1
  <2>2. CASE len # wav.room
    <3>1. /\ len = wav.taken /\ wav.taken < wav.room /\ size = DataBytes
          /\ wav.taken = wav.dataChunkDataPos + size
      BY <1>3, <1>4, <2>2 DEF Seeks
    <3>2. wav.dataChunkDataPos = 44
      BY <1>3, <1>4, <3>1
    <3>3. whole = N /\ room >= N
      BY <1>3, <3>1, <3>2, SMT
    <3> QED
      BY <1>3, <3>3
  <2> QED
    BY <2>1, <2>2
<1>6. room = WholeSamples(wav.room)
  BY Bytes DEF WholeSamples
<1> HIDE DEF N, size, len, whole, room
<1> QED
  BY <1>1, <1>5, <1>6 DEF N

-----------------------------------------------------------------------------
LEMMA TapeInit == Init => Recording!Init
BY Bytes DEF Init, Recording!Init, Mode, Steps, NoWav, WholeSamples, NoFile

\* Each step of the recorder is one of the tape, or none.
LEMMA TapeStep ==
  ASSUME AllDisplayed, IInv, Audible, [Next]_vars
  PROVE  [Recording!Next]_(Recording!vars)
<1> USE DEF Recording!vars
<1>1. CASE Reply
  <2>1. UNCHANGED <<Mode, wav, file>>
    BY <1>1 DEF Reply, Mode
  <2>2. CASE open_
    <3>1. PICK more \in Seq(Heard) : heard' = heard \o more
      BY <1>1, <2>2, ReplyRecords
    <3>2. heard \in Seq(Heard)
      BY DEF Audible
    <3>3. CASE Len(more) = 0
      <4>1. more = <<>>
        BY <3>3
      <4>2. heard' = heard
        BY <3>1, <3>2, <4>1
      <4> QED
        BY <2>1, <4>2
    <3>4. CASE Len(more) # 0
      <4>1. /\ Len(heard') = Len(heard) + Len(more)
            /\ Len(heard) \in Nat /\ Len(more) \in Nat
            /\ \A i \in 1 .. Len(heard) : heard'[i] = heard[i]
            /\ \A i \in 1 .. Len(more) : heard'[Len(heard) + i] = more[i]
        BY <3>1, <3>2
      <4>2. heard' \in Seq(Heard)
        BY <3>1, <3>2, ConcatProperties
      <4>3. SubSeq(heard', 1, Len(heard)) = heard
        BY <3>1, <3>2, <4>1, <4>2
      <4>4. \A i \in Len(heard) + 1 .. Len(heard') : heard'[i] \in Heard
        BY <4>1, <4>2
      <4>5. Mode = "recording"
        BY <1>1, <2>2 DEF Reply, Mode, IInv, Modes, Steps
      <4>6. Recording!Record
        BY <2>1, <3>4, <4>1, <4>3, <4>4, <4>5 DEF Recording!Record
      <4> QED
        BY <4>6 DEF Recording!Next
    <3> QED
      BY <3>3, <3>4
  <2>3. CASE ~open_
    <3>1. heard' = heard
      BY <1>1, <2>3 DEF Reply, IInv, Modes
    <3> QED
      BY <2>1, <3>1
  <2> QED
    BY <2>2, <2>3
<1>2. CASE StartWav
  <2>1. /\ at = "ui" /\ at' = "ui" /\ ~recording /\ recording' /\ heard = <<>> /\ heard' = <<>>
        /\ UNCHANGED <<wav, file>>
    BY <1>2 DEF StartWav, IInv, Modes, Audible
  <2>2. Mode = "idle" /\ Mode' = "recording"
    BY <2>1 DEF Mode, Steps
  <2> QED
    BY <2>1, <2>2 DEF Recording!Start, Recording!Next
<1>3. CASE CloseWav
  <2>1. /\ at = "ui" /\ recording /\ UNCHANGED <<heard, file>>
        /\ at' \in {"header", "unopened"}
    BY <1>3 DEF CloseWav, IInv, Modes
  <2>2. Mode = "recording"
    BY <2>1 DEF Mode, Steps
  <2>3. CASE at' = "unopened"
    <3>1. Mode' = "unopened" /\ wav' = wav
      BY <1>3, <2>3 DEF CloseWav, Mode, Steps
    <3> QED
      BY <2>1, <2>2, <3>1 DEF Recording!CannotOpen, Recording!Next
  <2>4. CASE at' = "header"
    <3>1. PICK r \in DiskRoom : wav' = [NoWav EXCEPT !.room = r]
      BY <1>3, <2>4 DEF CloseWav
    <3>2. wav'.room = r
      BY <3>1 DEF NoWav
    <3>3. WholeSamples(wav'.room) \in {WholeSamples(k) : k \in DiskRoom}
      BY <3>2
    <3>4. Mode' = "closing"
      BY <2>4 DEF Mode, Steps
    <3>5. Recording!Stop
      BY <2>1, <2>2, <3>3, <3>4 DEF Recording!Stop, WholeSamples
    <3> QED
      BY <3>5 DEF Recording!Next
  <2> QED
    BY <2>1, <2>3, <2>4
<1>4. CASE CloseFails
  <2>1. /\ at = "unopened" /\ at' = "ui" /\ ~recording' /\ heard' = <<>> /\ UNCHANGED <<wav, file>>
    BY <1>4 DEF CloseFails, IInv, Modes
  <2>2. Mode = "unopened" /\ Mode' = "idle"
    BY <2>1 DEF Mode, Steps
  <2> QED
    BY <2>1, <2>2 DEF Recording!GiveUp, Recording!Next
<1>5. CASE PatchData
  <2>1. /\ at = "data" /\ at' = "ui" /\ ~recording' /\ heard' = <<>> /\ wav' = NoWav
    BY <1>5 DEF PatchData, IInv, Modes
  <2>2. Mode = "closing" /\ Mode' = "idle"
    BY <2>1 DEF Mode, Steps
  <2>3. WholeSamples(wav'.room) = 0
    BY <2>1, Bytes DEF NoWav, WholeSamples
  <2>4. LET room == WholeSamples(wav.room) IN
          file'.samples = SubSeq(heard, 1, IF Len(heard) <= room THEN Len(heard) ELSE room)
    BY <1>5, KeptSamples DEF Audible
  <2>5. Recording!Close
    BY <2>1, <2>2, <2>3, <2>4 DEF Recording!Close, WholeSamples
  <2> QED
    BY <2>5 DEF Recording!Next
<1>6. CASE Header \/ Frames \/ Pad \/ PatchRiff
  <2>1. at \in Steps /\ at' \in Steps /\ UNCHANGED <<heard, file>>
    BY <1>6 DEF Header, Frames, Pad, PatchRiff, Steps
  <2>2. wav'.room = wav.room
    BY <1>6 DEF Header, Frames, Pad, PatchRiff, IInv, Writing, WavType
  <2>3. Mode = "closing" /\ Mode' = "closing"
    BY <2>1 DEF Mode, Steps
  <2> QED
    BY <2>1, <2>2, <2>3 DEF WholeSamples
<1>7. CASE Quit
  <2>1. at = "ui" /\ at' = "ended" /\ heard' = <<>> /\ UNCHANGED <<wav, file>>
    BY <1>7 DEF Quit
  <2>2. Mode \in {"idle", "recording"} /\ Mode' = "down"
    BY <2>1 DEF Mode, Steps
  <2> QED
    BY <2>1, <2>2 DEF Recording!End, Recording!Next
<1>8. CASE Boot
  <2>1. at = "ended" /\ at' = "ui" /\ ~recording' /\ UNCHANGED <<heard, wav, file>>
    BY <1>8 DEF Boot, IInv, Modes
  <2>2. Mode = "down" /\ Mode' = "idle"
    BY <2>1 DEF Mode, Steps
  <2> QED
    BY <2>1, <2>2 DEF Recording!Boot, Recording!Next
<1>9. ASSUME UNCHANGED <<tape, at, wav, file>>
      PROVE  UNCHANGED Recording!vars
  BY <1>9 DEF Mode
<1>10. ASSUME NEW f \in Edited,
              \/ Queue(f) \/ ClickUseScale(f)
              \/ \E s \in Scales : EditScale(f, s)
              \/ \E v \in Received[f] : EditPlain(f, v)
              \/ \E d \in Typed \union {Shown(f)} : EditScaled(f, d)
       PROVE  UNCHANGED Recording!vars
  BY <1>9, <1>10 DEF Queue, ClickUseScale, EditScale, EditPlain, EditScaled
<1>11. CASE LoadConfig \/ UNCHANGED vars
  BY <1>9, <1>11 DEF LoadConfig, vars
<1> QED
  BY <1>1, <1>2, <1>3, <1>4, <1>5, <1>6, <1>7, <1>8, <1>10, <1>11 DEF Next, Drwav

\* The recorder implements a tape when no subscribed leaf is an enumeration: a
\* closed file holds every value replies reported from Start to Close, in
\* order, as its scale of then displayed it, as far as that file has room; only
\* a file that cannot be opened and the program's end lose it (main.cpp:106-111,
\* wav_writer.cpp:7-53).
THEOREM RecordsLikeATape ==
  ASSUME AllDisplayed
  PROVE  Spec => ImplementsTape
<1>1. Init => Audible
  BY RecorderAssumption, EmptySeq DEF Init, Audible
<1>2. IInv /\ Audible /\ [Next]_vars => IInv' /\ Audible'
  BY IInvStep, AudibleStep
<1>3. IInv /\ Audible /\ [Next]_vars => [Recording!Next]_(Recording!vars)
  BY TapeStep
<1> QED
  BY <1>1, <1>2, <1>3, InitIInv, TapeInit, PTL DEF Spec, ImplementsTape, Recording!Spec
=============================================================================
