--------------------------- MODULE RegionsProofs ---------------------------
(***************************************************************************)
(* Proofs about Regions, for every serial buffer, message format, list of  *)
(* fields and buffer size, in both directions.                             *)
(*                                                                         *)
(* The invariant IInv is kept action by action.  Three lemmas hold what    *)
(* several actions have in common: MergeLeavesAlone for those that finish  *)
(* no region (FirstField, Extend), FinishRegion for those that append one  *)
(* (Split, LastRegion), and CuttingLeavesAlone for the cutting loop.       *)
(***************************************************************************)
EXTENDS Regions, TLAPS

\* Rounding down to a word.
LEMMA AlignDownType ==
  \A n \in Nat : /\ AlignDown(n) \in Nat
                 /\ AlignDown(n) <= n
                 /\ n < AlignDown(n) + 4
                 /\ AlignDown(n) % 4 = 0
BY DEF AlignDown

\* Rounding up to a word: less than a word is added.
LEMMA AlignUpType ==
  \A n \in Nat : /\ AlignUp(n) \in Nat
                 /\ n <= AlignUp(n)
                 /\ AlignUp(n) < n + 4
                 /\ AlignUp(n) % 4 = 0
BY DEF AlignDown, AlignUp

LEMMA AlignUpMonotone ==
  \A m, n \in Nat : m <= n => AlignUp(m) <= AlignUp(n)
BY AlignUpType DEF AlignDown, AlignUp

\* No word boundary lies between a number and its rounding.
LEMMA AlignUpLeast ==
  \A m, n \in Nat : m % 4 = 0 /\ n <= m => AlignUp(n) <= m
BY AlignUpType DEF AlignDown, AlignUp

LEMMA AlignUpWhole ==
  \A n \in Nat : n % 4 = 0 => AlignUp(n) = n
BY DEF AlignDown, AlignUp

\* What FramesFit says of the length of a frame.
BytesFit(bytes) ==
  /\ bytes + call.framing <= SerialBuffer
  /\ Writing \/ (SerialBuffer - call.framing) % 4 >= Cobs =>
       bytes + call.framing + Cobs <= SerialBuffer

\* A full chunk is a positive number of words, and it, like any shorter one,
\* leaves room for the framing and in a write for the COBS bytes.
LEMMA ChunkType ==
  ASSUME call \in Calls
  PROVE  /\ ChunkBytes \in Nat
         /\ ChunkBytes >= 4
         /\ ChunkBytes % 4 = 0
         /\ \A n \in Nat : n <= ChunkBytes => BytesFit(n)
<1>1. /\ call.framing \in Nat /\ SerialBuffer \in Nat /\ Cobs \in Nat
      /\ SerialBuffer >= call.framing + Cobs + 4
  BY SerialAssumption, RoomAssumption DEF Calls
<1>2. PICK room \in Nat : /\ room = SerialBuffer - call.framing
                         /\ room >= Cobs + 4
  BY <1>1
<1>3. CASE Writing
  <2>1. ChunkBytes = AlignDown(room - Cobs) /\ room - Cobs \in Nat
    BY <1>1, <1>2, <1>3 DEF ChunkBytes, Stuffing
  <2>2. /\ ChunkBytes \in Nat /\ ChunkBytes <= room - Cobs
        /\ room - Cobs < ChunkBytes + 4 /\ ChunkBytes % 4 = 0
    BY <2>1, AlignDownType
  <2>3. ChunkBytes >= 4
    BY <1>1, <1>2, <2>2
  <2> QED
    BY <1>1, <1>2, <2>2, <2>3 DEF BytesFit
<1>4. CASE ~Writing
  <2>1. ChunkBytes = AlignDown(room)
    <3>1. SerialBuffer - call.framing - Stuffing = room
      BY <1>1, <1>2, <1>4 DEF Stuffing
    <3> QED
      BY <3>1 DEF ChunkBytes
  <2>2. /\ ChunkBytes \in Nat /\ ChunkBytes <= room
        /\ room < ChunkBytes + 4 /\ ChunkBytes % 4 = 0
    BY <2>1, AlignDownType
  <2>3. ChunkBytes >= 4
    BY <1>1, <1>2, <2>2
  <2>4. ChunkBytes = room - (room % 4)
    BY <2>1 DEF AlignDown
  <2>5. ASSUME NEW n \in Nat, n <= ChunkBytes PROVE BytesFit(n)
    <3>1. n + call.framing <= SerialBuffer
      BY <1>1, <1>2, <2>2, <2>5
    <3>2. ASSUME room % 4 >= Cobs PROVE n + call.framing + Cobs <= SerialBuffer
      BY <1>1, <1>2, <2>4, <2>5, <3>2
    <3> QED
      BY <1>2, <1>4, <3>1, <3>2 DEF BytesFit
  <2> QED
    BY <2>2, <2>3, <2>5
<1> QED
  BY <1>3, <1>4

LEMMA FieldParts == \A f \in Field : f.start \in Nat /\ f.bytes \in Nat
BY DEF Field

LEMMA RegionParts == \A r \in Region : r.start \in Nat /\ r.length \in Nat
BY DEF Region

\* The words a field touches hold all of it, and lie inside the rounded block.
LEMMA FieldHull ==
  ASSUME NEW f \in Field
  PROVE  /\ First(f) \in Nat /\ First(f) % 4 = 0 /\ First(f) <= f.start
         /\ End(f) \in Nat /\ End(f) % 4 = 0 /\ f.start + f.bytes <= End(f)
         /\ First(f) <= End(f)
         /\ \A n \in Nat : f.start + f.bytes <= n => End(f) <= AlignUp(n)
<1>1. f.start \in Nat /\ f.bytes \in Nat /\ f.start + f.bytes \in Nat
  BY DEF Field
<1>2. First(f) \in Nat /\ First(f) % 4 = 0 /\ First(f) <= f.start
  BY <1>1, AlignDownType DEF First
<1>3. End(f) \in Nat /\ End(f) % 4 = 0 /\ f.start + f.bytes <= End(f)
  BY <1>1, AlignUpType DEF End
<1>4. \A n \in Nat : f.start + f.bytes <= n => End(f) <= AlignUp(n)
  BY <1>1, AlignUpMonotone DEF End
<1> QED
  BY <1>1, <1>2, <1>3, <1>4

LEMMA CoversWider ==
  ASSUME NEW f \in Field, NEW a \in Nat, NEW b \in Nat, NEW c \in Nat,
         b <= c, Covers(a, b, f)
  PROVE  Covers(a, c, f)
<1>1. f.start \in Nat /\ f.bytes \in Nat
  BY DEF Field
<1> QED
  BY <1>1 DEF Covers

\* What Append does to a sequence.
LEMMA AppendFacts ==
  ASSUME NEW S, NEW s \in Seq(S), NEW e \in S, NEW t, t = Append(s, e)
  PROVE  /\ t \in Seq(S)
         /\ Len(t) = Len(s) + 1
         /\ DOMAIN s = 1 .. Len(s)
         /\ DOMAIN t = 1 .. Len(s) + 1
         /\ \A j \in 1 .. Len(s) : t[j] = s[j]
         /\ t[Len(s) + 1] = e
OBVIOUS

-----------------------------------------------------------------------------
LEMMA InitEstablishes == Init => IInv
<1> SUFFICES ASSUME Init PROVE IInv
  OBVIOUS
<1>1. /\ fields \in Seq(Field) /\ size \in Nat /\ call \in Calls
      /\ pc = "start" /\ regions = <<>> /\ frames = <<>> /\ refused = {}
      /\ i = 1 /\ k = 1 /\ at = 0 /\ currentEnd = 0
      /\ current = [start |-> 0, fields |-> {}]
  BY ListsAssumption DEF Init
<1>2. Len(fields) \in Nat
  BY <1>1
<1>3. TypeOK
  BY <1>1, <1>2 DEF TypeOK
<1>4. Phases /\ Aligned /\ Assigned
  BY <1>1 DEF Phases, Aligned, Assigned
<1>5. WithinBlock
  BY <1>1, AlignUpType DEF WithinBlock, Init
<1>6. Covered /\ Separated /\ Tight
  BY <1>1 DEF Covered, SortedIsCovered, FieldsInRegion, Separated, RegionsApart,
              Tight, NoIdleWord
<1>7. Placed /\ Queued /\ Refusals
  BY <1>1 DEF Placed, FramesFit, Writing, FramesApart, Queued, Refusals
<1> QED
  BY <1>3, <1>4, <1>5, <1>6, <1>7 DEF IInv

\* What the merging loop leaves alone while it finishes no region.
LEMMA MergeLeavesAlone ==
  ASSUME IInv, FirstField \/ Extend
  PROVE  /\ pc' = "merge" /\ pc \in {"start", "merge"}
         /\ UNCHANGED <<fields, size, call, regions, k, at, frames, refused>>
         /\ Phases' /\ SortedIsCovered' /\ RegionsApart' /\ NoIdleWord'
         /\ Placed' /\ Queued' /\ Refusals'
<1>1. /\ pc' = "merge" /\ pc \in {"start", "merge"}
      /\ UNCHANGED <<fields, size, call, regions, k, at, frames, refused>>
  BY DEF FirstField, Extend
<1>2. Phases'
  BY <1>1 DEF IInv, Phases
<1>3. SortedIsCovered' /\ RegionsApart' /\ NoIdleWord'
  BY <1>1 DEF IInv, Covered, Separated, Tight, SortedIsCovered, FieldsInRegion,
              RegionsApart, NoIdleWord, Sorted, Covers
<1>4. Placed' /\ Queued' /\ Refusals'
  BY <1>1 DEF IInv, Placed, FramesFit, Writing, FramesApart, Sorted, Queued, InFrames,
              Refusals
<1> QED
  BY <1>1, <1>2, <1>3, <1>4

LEMMA FirstFieldKeepsInv ==
  ASSUME IInv, FirstField
  PROVE  IInv'
<1>1. /\ pc' = "merge" /\ pc = "start" /\ regions = <<>>
      /\ UNCHANGED <<fields, size, call, regions, k, at, frames, refused>>
      /\ Phases' /\ SortedIsCovered' /\ RegionsApart' /\ NoIdleWord'
      /\ Placed' /\ Queued' /\ Refusals'
  BY MergeLeavesAlone DEF IInv, Phases, FirstField
<1>2. /\ i' = 2 /\ current' = [start |-> First(fields[1]), fields |-> {1}]
      /\ currentEnd' = End(fields[1])
  BY DEF FirstField
<1>3. fields \in Seq(Field) /\ Len(fields) \in Nat /\ 1 <= Len(fields)
  BY DEF IInv, TypeOK, FirstField
<1>a. 1 \in DOMAIN fields /\ \A x \in 1 .. Len(fields) : fields[x] \in Field
  BY <1>3
<1>4. 1 \in DOMAIN fields /\ fields[1] \in Field /\ fields[1].start \in Nat
  BY <1>a, <1>3, FieldParts
<1>5. /\ First(fields[1]) \in Nat /\ First(fields[1]) % 4 = 0
      /\ First(fields[1]) <= fields[1].start
      /\ End(fields[1]) \in Nat /\ End(fields[1]) % 4 = 0
      /\ fields[1].start + fields[1].bytes <= End(fields[1])
      /\ First(fields[1]) <= End(fields[1])
  BY <1>4, FieldHull
<1>6. TypeOK'
  BY <1>1, <1>2, <1>3, <1>5 DEF IInv, TypeOK
<1>7. Aligned'
  BY <1>1, <1>2, <1>5 DEF IInv, Aligned
<1>8. WithinBlock'
  <2>1. fields[1].start + fields[1].bytes <= size /\ size \in Nat
    BY <1>4 DEF IInv, WithinBlock, TypeOK
  <2>2. End(fields[1]) <= AlignUp(size)
    BY <2>1, <1>4, FieldHull
  <2> QED
    BY <1>1, <1>2, <2>2 DEF IInv, WithinBlock
<1>9. Assigned'
  BY <1>1, <1>2, <1>4 DEF IInv, Assigned, InSomeRegion
<1>10. Covered'
  <2>1. Covers(First(fields[1]), End(fields[1]), fields[1])
    BY <1>5 DEF Covers
  <2>2. ASSUME Sorted, NEW y \in 2 .. Len(fields)
        PROVE  First(fields[1]) <= fields[y].start
    <3>1. y \in DOMAIN fields /\ 1 < y /\ fields[y].start \in Nat
      BY <1>a, <1>3, FieldParts
    <3>2. fields[1].start <= fields[y].start
      BY <3>1, <1>4, <2>2 DEF Sorted
    <3> QED
      BY <3>1, <3>2, <1>4, <1>5
  <2> QED
    BY <1>1, <1>2, <2>1, <2>2 DEF Covered, Sorted, Covers
<1>11. Separated' /\ Tight'
  BY <1>1, <1>2, <1>5 DEF Separated, Tight
<1> QED
  BY <1>1, <1>6, <1>7, <1>8, <1>9, <1>10, <1>11 DEF IInv

LEMMA ExtendKeepsInv ==
  ASSUME IInv, Extend
  PROVE  IInv'
<1>1. /\ pc' = "merge" /\ pc = "merge"
      /\ UNCHANGED <<fields, size, call, regions, k, at, frames, refused>>
      /\ Phases' /\ SortedIsCovered' /\ RegionsApart' /\ NoIdleWord'
      /\ Placed' /\ Queued' /\ Refusals'
  BY MergeLeavesAlone DEF Extend
<1> DEFINE f == fields[i]
<1>2. /\ i' = i + 1 /\ First(f) <= currentEnd
      /\ current' = [start |-> current.start, fields |-> current.fields \cup {i}]
      /\ currentEnd' = Upto(currentEnd, End(f))
  BY DEF Extend, Joins
<1>3. /\ fields \in Seq(Field) /\ Len(fields) \in Nat /\ i \in 1 .. Len(fields)
      /\ current \in [start : Nat, fields : SUBSET Nat]
      /\ current.start \in Nat /\ current.fields \in SUBSET Nat /\ currentEnd \in Nat
  BY DEF IInv, TypeOK, Extend
<1>4. i \in DOMAIN fields /\ f \in Field
  BY <1>3
<1>5. /\ First(f) \in Nat /\ End(f) \in Nat /\ End(f) % 4 = 0
      /\ First(f) <= f.start /\ f.start + f.bytes <= End(f)
  BY <1>4, FieldHull
<1>6. /\ currentEnd' \in {currentEnd, End(f)} /\ currentEnd' \in Nat
      /\ currentEnd <= currentEnd' /\ End(f) <= currentEnd'
      /\ current'.start = current.start
      /\ current'.fields = current.fields \cup {i}
  BY <1>2, <1>3, <1>5 DEF Upto
<1>7. TypeOK'
  <2>1. current' \in [start : Nat, fields : SUBSET Nat] /\ i' \in 1 .. Len(fields) + 1
    BY <1>2, <1>3
  <2> QED
    BY <1>1, <1>6, <2>1 DEF IInv, TypeOK
<1>8. Aligned'
  <2>1. /\ current'.start % 4 = 0 /\ currentEnd' % 4 = 0
        /\ current'.start <= currentEnd'
    <3>1. current.start % 4 = 0 /\ currentEnd % 4 = 0 /\ current.start <= currentEnd
      BY DEF IInv, Aligned
    <3>2. currentEnd' % 4 = 0
      BY <1>5, <1>6, <3>1
    <3>3. current.start <= currentEnd'
      BY <1>3, <1>6, <3>1
    <3> QED
      BY <1>6, <3>1, <3>2, <3>3
  <2> QED
    BY <1>1, <2>1 DEF IInv, Aligned
<1>9. WithinBlock'
  <2>1. f.start + f.bytes <= size /\ size \in Nat
    BY <1>4 DEF IInv, WithinBlock, TypeOK
  <2>2. End(f) <= AlignUp(size)
    BY <2>1, <1>4, FieldHull
  <2> QED
    BY <1>1, <1>6, <2>2 DEF IInv, WithinBlock
<1>10. Assigned'
  <2>1. ASSUME NEW x \in 1 .. i' - 1
        PROVE  x \in current'.fields \/ InSomeRegion(x)
    <3>1. x = i \/ x \in 1 .. i - 1
      BY <1>2, <1>3
    <3> QED
      BY <1>1, <1>6, <3>1 DEF IInv, Assigned
  <2>2. current'.fields \subseteq DOMAIN fields
    BY <1>4, <1>6 DEF IInv, Assigned
  <2> QED
    BY <1>1, <2>1, <2>2 DEF IInv, Assigned, InSomeRegion
<1>11. Covered'
  <2>1. ASSUME Sorted, NEW x \in current'.fields
        PROVE  Covers(current.start, currentEnd', fields[x])
    <3>1. CASE x = i
      <4>1. current.start <= f.start
        BY <1>1, <1>3, <2>1 DEF IInv, Covered
      <4>2. f.start \in Nat /\ f.bytes \in Nat
        BY <1>4 DEF Field
      <4> QED
        BY <1>5, <1>6, <3>1, <4>1, <4>2 DEF Covers
    <3>2. CASE x \in current.fields
      <4>1. fields[x] \in Field
        BY <1>3, <3>2 DEF IInv, Assigned
      <4>2. Covers(current.start, currentEnd, fields[x])
        BY <1>1, <2>1, <3>2 DEF IInv, Covered
      <4> QED
        BY <1>3, <1>6, <4>1, <4>2, CoversWider
    <3> QED
      BY <1>6, <3>1, <3>2
  <2>2. ASSUME Sorted, NEW y \in i' .. Len(fields)
        PROVE  current.start <= fields[y].start
    BY <1>1, <1>2, <1>3, <2>2 DEF IInv, Covered
  <2> QED
    BY <1>1, <1>6, <2>1, <2>2 DEF Covered, Sorted, Covers
<1>12. Separated'
  BY <1>1, <1>6 DEF IInv, Separated, Sorted
<1>13. Tight'
  <2>1. ASSUME NEW byte \in current.start .. currentEnd' - 1
        PROVE  \E x \in current'.fields : First(fields[x]) <= byte /\ byte < End(fields[x])
    <3>1. CASE byte < currentEnd
      <4>1. byte \in current.start .. currentEnd - 1
        BY <1>3, <3>1
      <4> QED
        BY <1>1, <1>6, <4>1 DEF IInv, Tight
    <3>2. CASE byte >= currentEnd
      <4>1. First(f) <= byte /\ byte < End(f)
        BY <1>2, <1>3, <1>5, <1>6, <3>2
      <4> QED
        BY <1>6, <4>1
    <3> QED
      BY <1>3, <3>1, <3>2
  <2> QED
    BY <1>1, <1>6, <2>1 DEF Tight, First, End
<1> QED
  BY <1>1, <1>7, <1>8, <1>9, <1>10, <1>11, <1>12, <1>13 DEF IInv

\* A region is finished: the new one is the one that was being extended.
LEMMA FinishRegion ==
  ASSUME IInv, pc = "merge", regions' = Append(regions, Finished),
         UNCHANGED <<fields, size, call, k, at, frames, refused>>,
         pc' \in {"merge", "send"}, NEW n, n = Len(regions) + 1
  PROVE  /\ DOMAIN regions = 1 .. n - 1 /\ DOMAIN regions' = 1 .. n
         /\ n \in Nat /\ n >= 1 /\ Len(regions') = n
         /\ regions' \in Seq(Region)
         /\ \A r \in 1 .. n - 1 : regions'[r] = regions[r]
         /\ regions'[n].start = current.start
         /\ regions'[n].start + regions'[n].length = currentEnd
         /\ regions'[n].fields = current.fields
         /\ regions'[n].length \in Nat
         /\ regions'[n].length % 4 = 0
         /\ Phases' /\ SortedIsCovered' /\ RegionsApart' /\ NoIdleWord'
         /\ Placed' /\ Queued' /\ Refusals'
         /\ \A x \in 1 .. i - 1 : InSomeRegion(x)'
<1>1. /\ regions \in Seq(Region) /\ Len(regions) \in Nat
      /\ current.start \in Nat /\ currentEnd \in Nat /\ current.fields \in SUBSET Nat
      /\ current.start <= currentEnd
      /\ current.start % 4 = 0 /\ currentEnd % 4 = 0
  BY DEF IInv, TypeOK, Aligned
<1>2. Finished \in Region /\ Finished.length % 4 = 0
  <2>1. currentEnd - current.start \in Nat /\ (currentEnd - current.start) % 4 = 0
    BY <1>1
  <2> QED
    BY <1>1, <2>1 DEF Finished, Region
<1>3. /\ DOMAIN regions = 1 .. n - 1 /\ DOMAIN regions' = 1 .. n
      /\ n \in Nat /\ n >= 1 /\ Len(regions') = n /\ regions' \in Seq(Region)
      /\ \A r \in 1 .. n - 1 : regions'[r] = regions[r]
      /\ regions'[n] = Finished
  BY <1>1, <1>2, AppendFacts
<1>4. /\ regions'[n].start = current.start
      /\ regions'[n].start + regions'[n].length = currentEnd
      /\ regions'[n].fields = current.fields
      /\ regions'[n].length \in Nat
      /\ regions'[n].length % 4 = 0
  BY <1>1, <1>2, <1>3 DEF Finished
<1>5. frames = <<>> /\ k = 1 /\ at = 0 /\ refused = {}
  BY DEF IInv, Phases
<1>6. Phases'
  BY <1>5 DEF Phases
<1>7. SortedIsCovered'
  <2>1. ASSUME Sorted, NEW r \in 1 .. n, NEW x \in regions'[r].fields
        PROVE  Covers(regions'[r].start, regions'[r].start + regions'[r].length, fields[x])
    <3>1. CASE r = n
      BY <1>4, <2>1, <3>1 DEF IInv, Covered
    <3>2. CASE r \in 1 .. n - 1
      BY <1>3, <2>1, <3>2 DEF IInv, Covered, SortedIsCovered, FieldsInRegion
    <3> QED
      BY <1>3, <3>1, <3>2
  <2> QED
    BY <1>3, <2>1 DEF SortedIsCovered, FieldsInRegion, Sorted, Covers
<1>8. RegionsApart'
  <2>1. ASSUME Sorted, NEW r \in 1 .. n, NEW s \in 1 .. n, r < s
        PROVE  regions'[r].start + regions'[r].length < regions'[s].start
    <3>1. r \in 1 .. n - 1
      BY <1>3, <2>1
    <3>2. CASE s = n
      BY <1>3, <1>4, <2>1, <3>1, <3>2 DEF IInv, Separated
    <3>3. CASE s \in 1 .. n - 1
      BY <1>3, <2>1, <3>1, <3>3 DEF IInv, Separated, RegionsApart
    <3> QED
      BY <1>3, <3>2, <3>3
  <2> QED
    BY <1>3, <2>1 DEF RegionsApart, Sorted
<1>9. NoIdleWord'
  <2>1. ASSUME NEW r \in 1 .. n,
               NEW byte \in regions'[r].start .. regions'[r].start + regions'[r].length - 1
        PROVE  \E x \in regions'[r].fields : First(fields[x]) <= byte /\ byte < End(fields[x])
    <3>1. CASE r = n
      <4>1. byte \in current.start .. currentEnd - 1
        <5>1. regions'[r] = Finished
          BY <1>3, <3>1
        <5>2. byte \in Finished.start .. Finished.start + Finished.length - 1
          BY <5>1, <2>1
        <5>3. byte \in current.start .. current.start + (currentEnd - current.start) - 1
          BY <5>2 DEF Finished
        <5>4. byte \in Int /\ current.start <= byte
          BY <5>3, <1>1
        <5>5. byte <= current.start + (currentEnd - current.start) - 1
          BY <5>3, <1>1
        <5>6. current.start \in Nat /\ currentEnd \in Nat
          BY <1>1
        <5>7. byte <= currentEnd - 1
          BY <5>4, <5>5, <5>6
        <5> QED
          BY <5>4, <5>6, <5>7
      <4>2. \E x \in current.fields : First(fields[x]) <= byte /\ byte < End(fields[x])
        BY <4>1 DEF IInv, Tight
      <4> QED
        BY <1>4, <3>1, <4>2
    <3>2. CASE r \in 1 .. n - 1
      <4>1. regions'[r] = regions[r] /\ r \in DOMAIN regions
        BY <1>3, <3>2
      <4> QED
        BY <4>1, <2>1 DEF IInv, Tight, NoIdleWord
    <3> QED
      BY <1>3, <3>1, <3>2
  <2> QED
    BY <1>3, <2>1 DEF NoIdleWord, First, End
<1>10. Placed' /\ Queued' /\ Refusals'
  <2>1. Placed' /\ Refusals'
    BY <1>5 DEF Placed, FramesFit, FramesApart, Refusals
  <2>2. Queued'
    <3>1. regions'[1] \in Region
      BY <1>3
    <3>2. regions'[1].start \in Nat
      BY <3>1 DEF Region
    <3>3. regions'[1].start .. regions'[1].start + 0 - 1 = {}
      BY <3>2
    <3> QED
      BY <1>5, <3>3 DEF Queued
  <2> QED
    BY <2>1, <2>2
<1>11. ASSUME NEW x \in 1 .. i - 1
       PROVE  InSomeRegion(x)'
  <2>1. x \in current.fields \/ InSomeRegion(x)
    BY DEF IInv, Assigned
  <2>2. CASE x \in current.fields
    BY <1>3, <1>4, <2>2 DEF InSomeRegion
  <2>3. CASE InSomeRegion(x)
    BY <1>3, <2>3 DEF InSomeRegion
  <2> QED
    BY <2>1, <2>2, <2>3
<1> QED
  BY <1>3, <1>4, <1>6, <1>7, <1>8, <1>9, <1>10, <1>11

LEMMA SplitKeepsInv ==
  ASSUME IInv, Split
  PROVE  IInv'
<1> DEFINE f == fields[i]
           n == Len(regions) + 1
<1>1. /\ pc = "merge" /\ pc' = "merge" /\ regions' = Append(regions, Finished)
      /\ UNCHANGED <<fields, size, call, k, at, frames, refused>>
      /\ currentEnd < First(f) \/ ~(First(f) <= currentEnd)
      /\ current' = [start |-> First(f), fields |-> {i}]
      /\ currentEnd' = End(f) /\ i' = i + 1
  BY DEF Split, Joins
<1>2. /\ DOMAIN regions = 1 .. n - 1 /\ DOMAIN regions' = 1 .. n
      /\ n \in Nat /\ n >= 1 /\ Len(regions') = n /\ regions' \in Seq(Region)
      /\ \A r \in 1 .. n - 1 : regions'[r] = regions[r]
      /\ regions'[n].start = current.start
      /\ regions'[n].start + regions'[n].length = currentEnd
      /\ regions'[n].fields = current.fields
      /\ regions'[n].length \in Nat
      /\ regions'[n].length % 4 = 0
      /\ Phases' /\ SortedIsCovered' /\ RegionsApart' /\ NoIdleWord'
      /\ Placed' /\ Queued' /\ Refusals'
      /\ \A x \in 1 .. i - 1 : InSomeRegion(x)'
  BY <1>1, FinishRegion
<1>3. /\ fields \in Seq(Field) /\ Len(fields) \in Nat /\ i \in 1 .. Len(fields)
      /\ current.start \in Nat /\ currentEnd \in Nat /\ current.start <= currentEnd
      /\ current.start % 4 = 0
  BY DEF IInv, TypeOK, Aligned, Split
<1>4. i \in DOMAIN fields /\ f \in Field /\ \A x \in 1 .. Len(fields) : fields[x] \in Field
  BY <1>3
<1>5. /\ First(f) \in Nat /\ First(f) % 4 = 0 /\ First(f) <= f.start
      /\ End(f) \in Nat /\ End(f) % 4 = 0 /\ f.start + f.bytes <= End(f)
      /\ First(f) <= End(f) /\ f.start \in Nat /\ f.bytes \in Nat
  BY <1>4, FieldHull, FieldParts
<1>6. currentEnd < First(f)
  BY <1>1, <1>3, <1>5
<1>7. at = 0 /\ k = 1 /\ refused = {} /\ frames = <<>>
  BY <1>1 DEF IInv, Phases
<1>8. TypeOK'
  <2>1. regions'[1] \in Region
    BY <1>2
  <2>2. regions'[1].length \in Nat
    BY <2>1, RegionParts
  <2> QED
    BY <1>1, <1>2, <1>3, <1>5, <1>7, <2>2 DEF IInv, TypeOK
<1>9. Aligned'
  <2>1. \A r \in 1 .. n : regions'[r].start % 4 = 0 /\ regions'[r].length % 4 = 0
    <3>1. \A r \in 1 .. n - 1 : regions[r].start % 4 = 0 /\ regions[r].length % 4 = 0
      BY <1>2 DEF IInv, Aligned
    <3> QED
      BY <1>2, <1>3, <3>1
  <2>2. /\ current'.start % 4 = 0 /\ currentEnd' % 4 = 0
        /\ current'.start <= currentEnd' /\ at' % 4 = 0
    BY <1>1, <1>5, <1>7
  <2> QED
    BY <1>2, <2>1, <2>2 DEF Aligned
<1>10. WithinBlock'
  <2>1. f.start + f.bytes <= size /\ size \in Nat
    BY <1>4 DEF IInv, WithinBlock, TypeOK
  <2>2. End(f) <= AlignUp(size)
    BY <2>1, <1>4, FieldHull
  <2> QED
    BY <1>1, <1>2, <2>2 DEF IInv, WithinBlock
<1>11. Assigned'
  <2>1. ASSUME NEW x \in 1 .. i' - 1
        PROVE  x \in current'.fields \/ InSomeRegion(x)'
    <3>1. x = i \/ x \in 1 .. i - 1
      BY <1>1, <1>3
    <3> QED
      BY <1>1, <1>2, <3>1
  <2>2. \A r \in DOMAIN regions' : regions'[r].fields \subseteq DOMAIN fields
    BY <1>2 DEF IInv, Assigned
  <2> QED
    BY <1>1, <1>4, <2>1, <2>2 DEF Assigned, InSomeRegion
<1>12. Covered'
  <2>1. Covers(First(f), End(f), f)
    BY <1>5 DEF Covers
  <2>2. ASSUME Sorted, NEW y \in i' .. Len(fields)
        PROVE  First(f) <= fields[y].start
    <3>1. y \in DOMAIN fields /\ i < y /\ fields[y].start \in Nat
      BY <1>1, <1>3, <1>4, FieldParts
    <3>2. f.start <= fields[y].start
      BY <3>1, <1>4, <2>2 DEF Sorted
    <3> QED
      BY <3>1, <3>2, <1>5
  <2> QED
    BY <1>1, <1>2, <2>1, <2>2 DEF Covered, Sorted, Covers
<1>13. Separated'
  <2>1. ASSUME Sorted, NEW r \in 1 .. n
        PROVE  regions'[r].start + regions'[r].length < First(f)
    <3>1. CASE r = n
      BY <1>2, <1>6, <3>1
    <3>2. CASE r \in 1 .. n - 1
      <4>1. regions'[r] = regions[r] /\ r \in DOMAIN regions
        BY <1>2, <3>2
      <4>2. regions[r].start + regions[r].length < current.start
        BY <1>1, <2>1, <4>1 DEF IInv, Separated
      <4>3. regions[r].start \in Nat /\ regions[r].length \in Nat
        <5>1. regions[r] \in Region
          BY <4>1 DEF IInv, TypeOK
        <5> QED
          BY <5>1, RegionParts
      <4> QED
        BY <1>3, <1>5, <1>6, <4>1, <4>2, <4>3
    <3> QED
      BY <1>2, <3>1, <3>2
  <2> QED
    BY <1>1, <1>2, <2>1 DEF Separated, Sorted
<1>14. Tight'
  <2>1. ASSUME NEW byte \in First(f) .. End(f) - 1
        PROVE  First(f) <= byte /\ byte < End(f)
    BY <1>5, <2>1
  <2>2. current'.start = First(f) /\ current'.fields = {i}
    BY <1>1
  <2>3. \A byte \in current'.start .. currentEnd' - 1 :
          \E x \in current'.fields : First(fields[x]) <= byte /\ byte < End(fields[x])
    BY <1>1, <2>1, <2>2
  <2> QED
    BY <1>1, <1>2, <2>3 DEF Tight, First, End
<1> QED
  BY <1>2, <1>8, <1>9, <1>10, <1>11, <1>12, <1>13, <1>14 DEF IInv

LEMMA LastRegionKeepsInv ==
  ASSUME IInv, LastRegion
  PROVE  IInv'
<1> DEFINE n == Len(regions) + 1
<1>1. /\ pc = "merge" /\ pc' = "send" /\ regions' = Append(regions, Finished)
      /\ UNCHANGED <<fields, size, call, i, current, currentEnd, k, at, frames, refused>>
      /\ i > Len(fields)
  BY DEF LastRegion
<1>2. /\ DOMAIN regions = 1 .. n - 1 /\ DOMAIN regions' = 1 .. n
      /\ n \in Nat /\ n >= 1 /\ Len(regions') = n /\ regions' \in Seq(Region)
      /\ \A r \in 1 .. n - 1 : regions'[r] = regions[r]
      /\ regions'[n].start = current.start
      /\ regions'[n].start + regions'[n].length = currentEnd
      /\ regions'[n].fields = current.fields
      /\ regions'[n].length \in Nat
      /\ regions'[n].length % 4 = 0
      /\ Phases' /\ SortedIsCovered' /\ RegionsApart' /\ NoIdleWord'
      /\ Placed' /\ Queued' /\ Refusals'
      /\ \A x \in 1 .. i - 1 : InSomeRegion(x)'
  BY <1>1, FinishRegion
<1>3. /\ fields \in Seq(Field) /\ Len(fields) \in Nat /\ i \in 1 .. Len(fields) + 1
      /\ DOMAIN fields = 1 .. Len(fields)
      /\ current.start % 4 = 0
  BY DEF IInv, TypeOK, Aligned
<1>4. at = 0 /\ k = 1 /\ refused = {} /\ frames = <<>>
  BY <1>1 DEF IInv, Phases
<1>5. TypeOK'
  <2>1. regions'[1] \in Region
    BY <1>2
  <2>2. regions'[1].length \in Nat
    BY <2>1, RegionParts
  <2> QED
    BY <1>1, <1>2, <1>4, <2>2 DEF IInv, TypeOK
<1>6. Aligned'
  <2>1. \A r \in 1 .. n : regions'[r].start % 4 = 0 /\ regions'[r].length % 4 = 0
    <3>1. \A r \in 1 .. n - 1 : regions[r].start % 4 = 0 /\ regions[r].length % 4 = 0
      BY <1>2 DEF IInv, Aligned
    <3> QED
      BY <1>2, <1>3, <3>1
  <2> QED
    BY <1>1, <1>2, <2>1 DEF IInv, Aligned
<1>7. WithinBlock'
  BY <1>1, <1>2 DEF IInv, WithinBlock
<1>8. Assigned'
  <2>1. \A x \in DOMAIN fields : InSomeRegion(x)'
    BY <1>1, <1>2, <1>3
  <2>2. \A r \in DOMAIN regions' : regions'[r].fields \subseteq DOMAIN fields
    BY <1>2 DEF IInv, Assigned
  <2> QED
    BY <1>1, <2>1, <2>2 DEF IInv, Assigned, InSomeRegion
<1>9. Covered' /\ Separated' /\ Tight'
  BY <1>1, <1>2 DEF Covered, Separated, Tight
<1> QED
  BY <1>2, <1>5, <1>6, <1>7, <1>8, <1>9 DEF IInv

\* The cutting loop touches neither the fields nor the regions.
LEMMA CuttingLeavesAlone ==
  ASSUME IInv, pc' \in {"send", "done"}, pc \in {"send", "done"} \/ fields = <<>>,
         UNCHANGED <<fields, size, call, i, current, currentEnd, regions>>
  PROVE  WithinBlock' /\ Assigned' /\ Covered' /\ Separated' /\ Tight'
<1>1. WithinBlock'
  BY DEF IInv, WithinBlock
<1>2. Assigned'
  <2>1. \A x \in DOMAIN fields : InSomeRegion(x)
    BY DEF IInv, Assigned
  <2> QED
    BY <2>1 DEF IInv, Assigned, InSomeRegion
<1>3. Covered'
  BY DEF IInv, Covered, SortedIsCovered, FieldsInRegion, Sorted, Covers
<1>4. Separated'
  BY DEF IInv, Separated, RegionsApart, Sorted
<1>5. Tight'
  BY DEF IInv, Tight, NoIdleWord
<1> QED
  BY <1>1, <1>2, <1>3, <1>4, <1>5

LEMMA NothingToDoKeepsInv ==
  ASSUME IInv, NothingToDo
  PROVE  IInv'
<1>1. /\ pc = "start" /\ pc' = "send" /\ fields = <<>> /\ regions = <<>>
      /\ UNCHANGED <<fields, size, call, i, current, currentEnd, regions, k, at, frames,
                     refused>>
  BY DEF NothingToDo, IInv, Phases
<1>2. WithinBlock' /\ Assigned' /\ Covered' /\ Separated' /\ Tight'
  BY <1>1, CuttingLeavesAlone
<1>3. TypeOK' /\ Phases' /\ Aligned'
  BY <1>1 DEF IInv, TypeOK, Phases, Aligned
<1>4. Placed' /\ Queued' /\ Refusals'
  BY <1>1 DEF IInv, Placed, FramesFit, Writing, FramesApart, Sorted, Queued, InFrames,
              Refusals
<1> QED
  BY <1>2, <1>3, <1>4 DEF IInv

\* The chunk about to be cut is a positive number of words, inside its region.
LEMMA ChunkSizeType ==
  ASSUME IInv, Sending
  PROVE  /\ k \in 1 .. Len(regions) /\ regions[k].start \in Nat /\ regions[k].length \in Nat
         /\ regions[k].start % 4 = 0
         /\ at \in Nat /\ at % 4 = 0
         /\ ChunkSize \in Nat /\ ChunkSize % 4 = 0 /\ ChunkSize > 0
         /\ BytesFit(ChunkSize)
         /\ at + ChunkSize <= regions[k].length
<1>1. /\ k \in 1 .. Len(regions) /\ regions \in Seq(Region) /\ at \in Nat
      /\ at < regions[k].length /\ Len(regions) \in Nat
  BY DEF IInv, TypeOK, Sending, Cutting
<1>2. regions[k] \in Region
  BY <1>1
<1>3. regions[k].start \in Nat /\ regions[k].length \in Nat
  BY <1>2, RegionParts
<1>4. regions[k].start % 4 = 0 /\ regions[k].length % 4 = 0 /\ at % 4 = 0
  BY <1>1 DEF IInv, Aligned
<1> DEFINE rest == regions[k].length - at
<1>5. rest \in Nat /\ rest > 0
  BY <1>1, <1>3
<1>6. rest % 4 = 0
  BY <1>1, <1>3, <1>4
<1>a. call \in Calls
  BY DEF IInv, TypeOK
<1>7. CASE at + ChunkBytes <= regions[k].length
  BY <1>a, <1>1, <1>3, <1>4, <1>7, ChunkType DEF ChunkSize
<1>8. CASE ~(at + ChunkBytes <= regions[k].length)
  <2>1. ChunkSize = rest
    BY <1>8 DEF ChunkSize
  <2>2. rest < ChunkBytes /\ at + rest = regions[k].length
    BY <1>a, <1>1, <1>3, <1>8, ChunkType
  <2>3. BytesFit(rest)
    BY <1>a, <1>5, <2>2, ChunkType
  <2> QED
    BY <1>1, <1>3, <1>4, <1>5, <1>6, <2>1, <2>2, <2>3
<1> QED
  BY <1>7, <1>8

LEMMA SendChunkKeepsInv ==
  ASSUME IInv, SendChunk
  PROVE  IInv'
<1>1. /\ Sending /\ pc = "send" /\ pc' = "send"
      /\ Accepts(regions[k].start + at, ChunkSize)
      /\ frames' = Append(frames, [start |-> regions[k].start + at, bytes |-> ChunkSize])
      /\ at' = at + ChunkSize
      /\ UNCHANGED <<fields, size, call, i, current, currentEnd, regions, k, refused>>
  BY DEF SendChunk, Sending, Cutting
\* The region starts at b; the chunk is c bytes long and starts at from.
<1>2. PICK b \in Nat, c \in Nat, from \in Nat :
        /\ b = regions[k].start /\ c = ChunkSize /\ from = b + at
        /\ k \in 1 .. Len(regions) /\ at \in Nat
        /\ from % 4 = 0 /\ (at + c) % 4 = 0 /\ c > 0 /\ BytesFit(c)
        /\ at + c <= regions[k].length
  <2>1. /\ k \in 1 .. Len(regions) /\ regions[k].start \in Nat
        /\ regions[k].start % 4 = 0
        /\ at \in Nat /\ at % 4 = 0
        /\ ChunkSize \in Nat /\ ChunkSize % 4 = 0 /\ ChunkSize > 0
        /\ BytesFit(ChunkSize)
        /\ at + ChunkSize <= regions[k].length
    BY <1>1, ChunkSizeType
  <2>2. regions[k].start + at \in Nat /\ (regions[k].start + at) % 4 = 0
    BY <2>1
  <2>3. (at + ChunkSize) % 4 = 0
    BY <2>1
  <2> QED
    BY <2>1, <2>2, <2>3
<1>3. PICK frame \in Frame : /\ frame.start = from /\ frame.bytes = c
                             /\ frames' = Append(frames, frame)
  <2>1. [start |-> from, bytes |-> c] \in Frame
    BY DEF Frame
  <2> QED
    BY <1>1, <1>2, <2>1
<1>4. PICK m \in Nat :
        /\ m >= 1 /\ DOMAIN frames = 1 .. m - 1 /\ DOMAIN frames' = 1 .. m
        /\ frames' \in Seq(Frame)
        /\ \A n \in 1 .. m - 1 : frames'[n] = frames[n]
        /\ frames'[m] = frame
  <2>1. frames \in Seq(Frame) /\ Len(frames) \in Nat
    BY DEF IInv, TypeOK
  <2>2. /\ DOMAIN frames = 1 .. Len(frames) + 1 - 1
        /\ DOMAIN frames' = 1 .. Len(frames) + 1
        /\ frames' \in Seq(Frame)
        /\ \A n \in 1 .. Len(frames) + 1 - 1 : frames'[n] = frames[n]
        /\ frames'[Len(frames) + 1] = frame
    BY <1>3, <2>1, AppendFacts
  <2> QED
    BY <2>1, <2>2
<1>5. /\ from + c <= size /\ size \in Nat
      /\ at' = at + c /\ b + at' = from + c /\ at' \in Nat
  <2>1. from + c <= size /\ size \in Nat /\ at' = at + c
    BY <1>1, <1>2 DEF Accepts, InBuffer, IInv, TypeOK
  <2>2. from = b + at /\ at \in Nat
    BY <1>2
  <2>3. at + c \in Nat /\ b + (at + c) = from + c
    BY <2>2
  <2> QED
    BY <2>1, <2>3
<1>6. \A n \in 1 .. m : frames'[n].start \in Nat /\ frames'[n].bytes \in Nat
  <2>1. \A n \in 1 .. m : frames'[n] \in Frame
    BY <1>4
  <2> QED
    BY <2>1 DEF Frame
<1>7. WithinBlock' /\ Assigned' /\ Covered' /\ Separated' /\ Tight'
  BY <1>1, CuttingLeavesAlone
<1>8. TypeOK'
  BY <1>1, <1>2, <1>4, <1>5 DEF IInv, TypeOK
<1>9. Phases' /\ Aligned'
  BY <1>1, <1>2, <1>5 DEF IInv, Phases, Aligned
<1>10. FramesFit'
  <2>1. ASSUME NEW n \in 1 .. m
        PROVE  /\ frames'[n].start % 4 = 0
               /\ frames'[n].bytes > 0
               /\ frames'[n].start + frames'[n].bytes <= size
               /\ BytesFit(frames'[n].bytes)
    <3>1. CASE n = m
      BY <1>2, <1>3, <1>4, <1>5, <3>1
    <3>2. CASE n \in 1 .. m - 1
      BY <1>4, <3>2 DEF IInv, Placed, FramesFit, BytesFit
    <3> QED
      BY <2>1, <3>1, <3>2
  <2> QED
    BY <1>1, <1>4, <2>1 DEF FramesFit, BytesFit, Writing
<1>11. ASSUME Sorted, NEW n \in 1 .. m - 1
       PROVE  frames'[n].start + frames'[n].bytes <= from
  <2>1. k <= Len(regions)
    BY <1>2 DEF IInv, TypeOK
  <2>2. \A x \in DOMAIN frames : frames[x].start + frames[x].bytes <= regions[k].start + at
    BY <1>11, <2>1 DEF IInv, Placed
  <2>3. n \in DOMAIN frames /\ frames'[n] = frames[n]
    BY <1>4
  <2>4. frames[n].start + frames[n].bytes <= regions[k].start + at
    BY <2>2, <2>3
  <2> QED
    BY <1>2, <2>3, <2>4
<1>12. FramesApart'
  <2>1. ASSUME Sorted, NEW n1 \in 1 .. m, NEW n2 \in 1 .. m, n1 < n2
        PROVE  frames'[n1].start + frames'[n1].bytes <= frames'[n2].start
    <3>1. n1 \in 1 .. m - 1
      BY <2>1
    <3>2. CASE n2 = m
      BY <1>3, <1>4, <1>11, <2>1, <3>1, <3>2
    <3>3. CASE n2 \in 1 .. m - 1
      BY <1>4, <2>1, <3>1, <3>3 DEF IInv, Placed, FramesApart
    <3> QED
      BY <2>1, <3>2, <3>3
  <2> QED
    BY <1>1, <1>4, <2>1 DEF FramesApart, Sorted
<1>13. Placed'
  <2>1. ASSUME Sorted, NEW n \in 1 .. m
        PROVE  frames'[n].start + frames'[n].bytes <= b + at'
    <3>1. CASE n = m
      BY <1>3, <1>4, <1>5, <3>1
    <3>2. CASE n \in 1 .. m - 1
      <4>1. frames'[n].start + frames'[n].bytes <= from
        BY <1>11, <2>1, <3>2
      <4> QED
        BY <1>5, <1>6, <2>1, <4>1
    <3> QED
      BY <2>1, <3>1, <3>2
  <2> QED
    BY <1>1, <1>2, <1>4, <1>10, <1>12, <2>1 DEF Placed, Sorted
<1>14. Queued'
  <2>1. ASSUME NEW byte, InFrames(byte)
        PROVE  InFrames(byte)'
    <3>1. PICK n \in 1 .. m - 1 :
            frames[n].start <= byte /\ byte < frames[n].start + frames[n].bytes
      BY <1>4, <2>1 DEF InFrames
    <3>2. n \in DOMAIN frames' /\ frames'[n] = frames[n]
      BY <1>4
    <3> QED
      BY <3>1, <3>2 DEF InFrames
  <2>2. ASSUME NEW byte \in Int, from <= byte, byte < from + c
        PROVE  InFrames(byte)'
    <3>1. m \in DOMAIN frames' /\ frames'[m].start = from /\ frames'[m].bytes = c
      BY <1>3, <1>4
    <3> QED
      BY <2>2, <3>1 DEF InFrames
  <2>3. ASSUME NEW byte \in b .. b + at' - 1
        PROVE  InFrames(byte)'
    <3>1. byte \in Int /\ b <= byte /\ byte < from + c
      BY <1>5, <2>3
    <3>2. CASE byte < from
      <4>1. byte \in b .. b + at - 1
        <5>1. from = b + at /\ at \in Nat
          BY <1>2
        <5> QED
          BY ONLY <3>1, <3>2, <5>1, b \in Nat
      <4>2. InFrames(byte)
        BY <1>2, <4>1 DEF IInv, Queued
      <4> QED
        BY <2>1, <4>2
    <3>3. CASE byte >= from
      BY <2>2, <3>1, <3>3
    <3> QED
      BY <3>1, <3>2, <3>3
  <2> QED
    BY <1>1, <1>2, <2>1, <2>3 DEF IInv, Queued
<1>15. Refusals'
  BY <1>1 DEF IInv, Refusals
<1> QED
  BY <1>7, <1>8, <1>9, <1>13, <1>14, <1>15 DEF IInv

\* The cut moves on to the next region: nothing is before its first frame.
LEMMA MoveOn ==
  ASSUME IInv, pc = "send", k <= Len(regions), k' = k + 1, at' = 0,
         UNCHANGED <<pc, fields, size, call, i, current, currentEnd, regions, frames>>
  PROVE  /\ Phases' /\ Aligned' /\ Placed'
         /\ k \in 1 .. Len(regions) /\ k' \in 1 .. Len(regions) + 1
         /\ k' <= Len(regions) => regions[k'].length \in Nat
<1>1. /\ regions \in Seq(Region) /\ Len(regions) \in Nat /\ k \in 1 .. Len(regions)
      /\ frames \in Seq(Frame) /\ at \in Nat /\ at <= regions[k].length
  BY DEF IInv, TypeOK
<1>2. \A r \in 1 .. Len(regions) : regions[r] \in Region
  BY <1>1
<1>3. \A r \in 1 .. Len(regions) : regions[r].start \in Nat /\ regions[r].length \in Nat
  BY <1>2, RegionParts
<1>4. k' \in 1 .. Len(regions) + 1 /\ (k' <= Len(regions) => regions[k'].length \in Nat)
  BY <1>1, <1>3
<1>5. Phases' /\ Aligned'
  BY DEF IInv, Phases, Aligned
<1>6. Placed'
  <2>1. FramesFit' /\ FramesApart'
    BY DEF IInv, Placed, FramesFit, Writing, FramesApart, Sorted
  <2>2. ASSUME Sorted, k' <= Len(regions), NEW n \in DOMAIN frames
        PROVE  frames[n].start + frames[n].bytes <= regions[k'].start
    <3>1. /\ k' \in DOMAIN regions /\ k \in DOMAIN regions /\ k < k'
          /\ regions[k].start \in Nat /\ regions[k].length \in Nat
          /\ regions[k'].start \in Nat
      BY <1>1, <1>3, <2>2
    <3>2. regions[k].start + regions[k].length < regions[k'].start
      BY <2>2, <3>1 DEF IInv, Separated, RegionsApart
    <3>3. frames[n].start + frames[n].bytes <= regions[k].start + at
      BY <1>1, <2>2 DEF IInv, Placed
    <3>4. frames[n] \in Frame
      BY <1>1
    <3>5. frames[n].start \in Nat /\ frames[n].bytes \in Nat
      BY <3>4 DEF Frame
    <3>6. PICK a \in Nat, b \in Nat, c \in Nat, d \in Nat, e \in Nat, g \in Nat :
            /\ a = frames[n].start /\ b = frames[n].bytes /\ c = regions[k].start
            /\ d = at /\ e = regions[k].length /\ g = regions[k'].start
      BY <1>1, <3>1, <3>5
    <3>7. a + b <= c + d /\ d <= e /\ c + e < g
      BY <1>1, <3>2, <3>3, <3>6
    <3>8. a + b <= g
      BY <3>7
    <3> QED
      BY <3>6, <3>8
  <2>3. ASSUME k' <= Len(regions)
        PROVE  regions[k'].start + at' = regions[k'].start
    BY <1>1, <1>3, <2>3
  <2> QED
    BY <2>1, <2>2, <2>3 DEF Placed, Sorted
<1> QED
  BY <1>1, <1>4, <1>5, <1>6

LEMMA RefuseKeepsInv ==
  ASSUME IInv, Refuse
  PROVE  IInv'
<1>1. /\ Rejected /\ Cutting /\ pc = "send" /\ pc' = "send" /\ k <= Len(regions)
      /\ refused' = refused \cup {k} /\ k' = k + 1 /\ at' = 0
      /\ UNCHANGED <<pc, fields, size, call, i, current, currentEnd, regions, frames>>
  BY DEF Refuse, Rejected, Sending, Cutting
<1>2. /\ Phases' /\ Aligned' /\ Placed'
      /\ k \in 1 .. Len(regions) /\ k' \in 1 .. Len(regions) + 1
      /\ k' <= Len(regions) => regions[k'].length \in Nat
  BY <1>1, MoveOn
<1>3. WithinBlock' /\ Assigned' /\ Covered' /\ Separated' /\ Tight'
  BY <1>1, CuttingLeavesAlone
<1>4. TypeOK'
  BY <1>1, <1>2 DEF IInv, TypeOK
\* The region starts outside, or the chunk that does not fit, which ends no
\* later than its region, does: a read's chunk is never too long.
<1>5. \/ regions[k].start + regions[k].length > size
      \/ regions[k].start >= size
  <2>1. CASE Outside
    BY <2>1 DEF Outside
  <2>2. CASE Sending /\ ~Accepts(regions[k].start + at, ChunkSize)
    <3>1. /\ regions[k].start \in Nat /\ regions[k].length \in Nat /\ at \in Nat
          /\ ChunkSize \in Nat /\ ChunkSize > 0 /\ at + ChunkSize <= regions[k].length
          /\ BytesFit(ChunkSize)
      BY <2>2, ChunkSizeType
    <3>2. ~InBuffer(regions[k].start + at, ChunkSize) /\ size \in Nat
      BY <2>2, <3>1 DEF Accepts, BytesFit, IInv, TypeOK
    <3>3. \/ ~(regions[k].start + at < size)
          \/ ~(regions[k].start + at + ChunkSize <= size)
      BY <3>2 DEF InBuffer
    <3> QED
      BY <3>1, <3>2, <3>3
  <2> QED
    BY <1>1, <2>1, <2>2 DEF Rejected
<1>6. Refusals'
  <2>1. refused' \subseteq 1 .. k' - 1
    <3>1. refused \subseteq 1 .. k - 1
      BY DEF IInv, Refusals
    <3>2. refused' = refused \cup {k} /\ k' = k + 1 /\ k \in Nat /\ k >= 1
      BY <1>1, <1>2
    <3> QED
      BY <3>1, <3>2
  <2> QED
    BY <1>1, <1>5, <2>1 DEF IInv, Refusals
<1>7. Queued'
  <2>1. ASSUME NEW r \in (1 .. k' - 1) \ refused'
        PROVE  r \in (1 .. k - 1) \ refused
    BY <1>1, <1>2, <2>1
  <2>2. k' <= Len(regions) =>
          \A byte \in regions[k'].start .. regions[k'].start + 0 - 1 : InFrames(byte)
    <3>1. ASSUME k' <= Len(regions)
          PROVE  regions[k'].start .. regions[k'].start + 0 - 1 = {}
      <4>1. regions[k'] \in Region
        BY <1>2, <3>1 DEF IInv, TypeOK
      <4> QED
        BY <4>1, RegionParts
    <3> QED
      BY <3>1
  <2> QED
    BY <1>1, <2>1, <2>2 DEF IInv, Queued, InFrames
<1> QED
  BY <1>2, <1>3, <1>4, <1>6, <1>7 DEF IInv

LEMMA NextRegionKeepsInv ==
  ASSUME IInv, NextRegion
  PROVE  IInv'
<1>1. /\ pc = "send" /\ pc' = "send" /\ k <= Len(regions) /\ at = regions[k].length
      /\ k' = k + 1 /\ at' = 0
      /\ UNCHANGED <<pc, fields, size, call, i, current, currentEnd, regions, frames, refused>>
  BY DEF NextRegion, Cutting
<1>2. /\ Phases' /\ Aligned' /\ Placed'
      /\ k \in 1 .. Len(regions) /\ k' \in 1 .. Len(regions) + 1
      /\ k' <= Len(regions) => regions[k'].length \in Nat
  BY <1>1, MoveOn
<1>3. WithinBlock' /\ Assigned' /\ Covered' /\ Separated' /\ Tight'
  BY <1>1, CuttingLeavesAlone
<1>4. TypeOK'
  BY <1>1, <1>2 DEF IInv, TypeOK
<1>5. Refusals'
  <2>1. refused \subseteq 1 .. k' - 1
    BY <1>1, <1>2 DEF IInv, Refusals
  <2> QED
    BY <1>1, <2>1 DEF IInv, Refusals
<1>6. Queued'
  <2>1. ASSUME NEW r \in (1 .. k' - 1) \ refused,
               NEW byte \in regions[r].start .. regions[r].start + regions[r].length - 1
        PROVE  InFrames(byte)
    <3>1. CASE r = k
      BY <1>1, <2>1, <3>1 DEF IInv, Queued
    <3>2. CASE r \in 1 .. k - 1
      BY <2>1, <3>2 DEF IInv, Queued
    <3> QED
      BY <1>1, <1>2, <2>1, <3>1, <3>2
  <2>2. k' <= Len(regions) =>
          \A byte \in regions[k'].start .. regions[k'].start + 0 - 1 : InFrames(byte)
    <3>1. ASSUME k' <= Len(regions)
          PROVE  regions[k'].start .. regions[k'].start + 0 - 1 = {}
      <4>1. regions[k'] \in Region
        BY <1>2, <3>1 DEF IInv, TypeOK
      <4> QED
        BY <4>1, RegionParts
    <3> QED
      BY <3>1
  <2> QED
    BY <1>1, <2>1, <2>2 DEF Queued, InFrames
<1> QED
  BY <1>2, <1>3, <1>4, <1>5, <1>6 DEF IInv

LEMMA FinishKeepsInv ==
  ASSUME IInv, Finish
  PROVE  IInv'
<1>1. /\ pc = "send" /\ pc' = "done" /\ k > Len(regions)
      /\ UNCHANGED <<fields, size, call, i, current, currentEnd, regions, k, at, frames,
                     refused>>
  BY DEF Finish
<1>2. WithinBlock' /\ Assigned' /\ Covered' /\ Separated' /\ Tight'
  BY <1>1, CuttingLeavesAlone
<1>3. TypeOK' /\ Phases' /\ Aligned'
  BY <1>1 DEF IInv, TypeOK, Phases, Aligned
<1>4. Placed' /\ Queued' /\ Refusals'
  BY <1>1 DEF IInv, Placed, FramesFit, Writing, FramesApart, Sorted, Queued, InFrames,
              Refusals
<1> QED
  BY <1>2, <1>3, <1>4 DEF IInv

-----------------------------------------------------------------------------
\* IInv holds in every state, for every list of fields: the induction all
\* the theorems below rest on.
THEOREM Invariance == Spec => []IInv
<1>1. Init => IInv
  BY InitEstablishes
<1>2. IInv /\ [Next]_vars => IInv'
  <2> SUFFICES ASSUME IInv, [Next]_vars PROVE IInv'
    OBVIOUS
  <2>1. CASE UNCHANGED vars
    BY <2>1 DEF vars, IInv, TypeOK, Phases, Aligned, WithinBlock, Assigned,
                InSomeRegion, Covered, SortedIsCovered, FieldsInRegion, Sorted,
                Covers, Separated, RegionsApart, Tight, NoIdleWord, First, End,
                Placed, FramesFit, Writing, FramesApart, Queued, InFrames, Refusals
  <2> QED
    BY <2>1, NothingToDoKeepsInv, FirstFieldKeepsInv, ExtendKeepsInv,
       SplitKeepsInv, LastRegionKeepsInv, SendChunkKeepsInv, RefuseKeepsInv,
       NextRegionKeepsInv, FinishKeepsInv DEF Next
<1> QED
  BY <1>1, <1>2, PTL DEF Spec

\* Every variable keeps its type: the indices of both loops stay in range.
THEOREM TypeCorrect == Spec => []TypeOK
<1>1. IInv => TypeOK
  BY DEF IInv
<1> QED
  BY <1>1, Invariance, PTL

\* Merging a list in offset order leaves every field whole in its region.
THEOREM MergingCovers == Spec => []SortedIsCovered
<1>1. IInv => SortedIsCovered
  BY DEF IInv, Covered
<1> QED
  BY <1>1, Invariance, PTL

\* Merged in offset order, no two regions share or touch a word.
THEOREM MergingSeparates == Spec => []RegionsApart
<1>1. IInv => RegionsApart
  BY DEF IInv, Separated
<1> QED
  BY <1>1, Invariance, PTL

\* No region holds a word that none of its fields needs.
THEOREM MergingIsTight == Spec => []NoIdleWord
<1>1. IInv => NoIdleWord
  BY DEF IInv, Tight
<1> QED
  BY <1>1, Invariance, PTL

\* Every frame is word-aligned, in the buffer, and fits the serial buffer: a
\* write with its COBS bytes, a read's reply with them only if rounding spares
\* as many.
THEOREM CuttingFits == Spec => []FramesFit
<1>1. IInv => FramesFit
  BY DEF IInv, Placed
<1> QED
  BY <1>1, Invariance, PTL

\* No byte is put in two frames.
THEOREM CuttingSeparates == Spec => []FramesApart
<1>1. IInv => FramesApart
  BY DEF IInv, Placed
<1> QED
  BY <1>1, Invariance, PTL

\* A refused region ends with the last word of the buffer: that word is only
\* part of the buffer, or the region is empty.
LEMMA RefusedRegion ==
  ASSUME IInv, NEW r \in refused
  PROVE  /\ r \in DOMAIN regions /\ size \in Nat
         /\ regions[r].start + regions[r].length = AlignUp(size)
         /\ \/ regions[r].start + regions[r].length > size /\ size % 4 # 0
            \/ regions[r].start = size /\ regions[r].length = 0
<1>1. r \in DOMAIN regions /\ r \in 1 .. Len(regions) /\ size \in Nat
  BY DEF IInv, TypeOK
<1>2. regions[r] \in Region
  BY <1>1 DEF IInv, TypeOK
<1>3. regions[r].start \in Nat /\ regions[r].length \in Nat
  BY <1>2, RegionParts
<1>4. regions[r].start % 4 = 0 /\ regions[r].length % 4 = 0
  BY <1>1 DEF IInv, Aligned
<1> DEFINE end == regions[r].start + regions[r].length
<1>5. end \in Nat /\ end % 4 = 0
  BY <1>3, <1>4
<1>6. end > size \/ regions[r].start >= size
  BY DEF IInv, Refusals
<1>7. size <= end
  BY <1>1, <1>3, <1>6
<1>8. end <= AlignUp(size) /\ AlignUp(size) <= end /\ AlignUp(size) \in Nat
  BY <1>1, <1>5, <1>7, AlignUpLeast, AlignUpType DEF IInv, WithinBlock
<1>9. end = AlignUp(size)
  BY <1>5, <1>8
<1>10. CASE size % 4 = 0
  <2>1. end = size
    BY <1>1, <1>9, <1>10, AlignUpWhole
  <2> QED
    BY <1>1, <1>3, <1>6, <1>9, <2>1
<1>11. CASE size % 4 # 0
  <2>1. end # size
    BY <1>5, <1>11
  <2>2. end > size
    BY <1>1, <1>5, <1>7, <2>1
  <2> QED
    BY <1>1, <1>9, <1>11, <2>2
<1> QED
  BY <1>10, <1>11

\* Only the last region can be refused.
THEOREM RefusalsAtEnd == Spec => []RefusedOnlyAtEnd
<1>1. IInv => RefusedOnlyAtEnd
  <2> SUFFICES ASSUME IInv, Sorted, NEW r \in refused
               PROVE  /\ r = Len(regions)
                      /\ \/ /\ regions[r].start + regions[r].length > size
                            /\ size % 4 # 0
                         \/ regions[r].start = size /\ regions[r].length = 0
    BY DEF RefusedOnlyAtEnd
  <2>1. /\ r \in DOMAIN regions /\ size \in Nat
        /\ regions[r].start + regions[r].length = AlignUp(size)
        /\ \/ regions[r].start + regions[r].length > size /\ size % 4 # 0
           \/ regions[r].start = size /\ regions[r].length = 0
    BY RefusedRegion
  <2>3. ASSUME r # Len(regions) PROVE FALSE
    <3>1. regions \in Seq(Region) /\ Len(regions) \in Nat
      BY DEF IInv, TypeOK
    <3>2. /\ r \in DOMAIN regions /\ Len(regions) \in DOMAIN regions /\ r < Len(regions)
          /\ regions[Len(regions)] \in Region
      BY <2>1, <2>3, <3>1
    <3>3. regions[r].start + regions[r].length < regions[Len(regions)].start
      BY <3>2 DEF IInv, Separated, RegionsApart
    <3>4. regions[Len(regions)].start + regions[Len(regions)].length <= AlignUp(size)
      BY <3>2 DEF IInv, WithinBlock
    <3>5. /\ regions[Len(regions)].start \in Nat /\ regions[Len(regions)].length \in Nat
          /\ AlignUp(size) \in Nat
      BY <2>1, <3>2, RegionParts, AlignUpType
    <3> QED
      BY <2>1, <3>3, <3>4, <3>5
  <2> QED
    BY <2>1, <2>3
<1> QED
  BY <1>1, Invariance, PTL

\* Over a buffer of whole words, every byte of every field is in some frame
\* by the time the queue is built.
THEOREM NothingLeftOut == Spec => []WholeWordsQueued
<1>1. IInv => WholeWordsQueued
  <2> SUFFICES ASSUME IInv, Sorted, size % 4 = 0, pc = "done",
                      NEW x \in DOMAIN fields,
                      NEW byte \in fields[x].start .. fields[x].start + fields[x].bytes - 1
               PROVE  InFrames(byte)
    BY DEF WholeWordsQueued, EveryByteQueued
  <2>1. PICK r \in DOMAIN regions : x \in regions[r].fields
    BY DEF IInv, Assigned, InSomeRegion
  <2>2. Covers(regions[r].start, regions[r].start + regions[r].length, fields[x])
    BY <2>1 DEF IInv, Covered, SortedIsCovered, FieldsInRegion
  <2>4. /\ r \in 1 .. k - 1
        /\ regions[r] \in Region /\ fields[x] \in Field
    BY DEF IInv, TypeOK, Phases
  <2>5. /\ regions[r].start \in Nat /\ regions[r].length \in Nat
        /\ fields[x].start \in Nat /\ fields[x].bytes \in Nat
    BY <2>4, RegionParts, FieldParts
  <2>6. byte \in regions[r].start .. regions[r].start + regions[r].length - 1
    BY <2>2, <2>5 DEF Covers
  <2>7. r \notin refused
    <3>1. regions[r].length > 0
      BY <2>5, <2>6
    <3> QED
      BY <3>1, RefusedRegion
  <2> QED
    BY <2>4, <2>6, <2>7 DEF IInv, Queued
<1> QED
  BY <1>1, Invariance, PTL

\* buffer_sync.cpp:49-95: the regions made of a list in offset order cover it,
\* lie apart, and hold no word without a field.
THEOREM CoalescingIsExact == Spec => []RegionsExact
<1>1. SortedIsCovered /\ RegionsApart /\ NoIdleWord => RegionsExact
  BY DEF RegionsExact
<1> QED
  BY <1>1, MergingCovers, MergingSeparates, MergingIsTight, PTL

\* dartt_link.cpp:54-126, 368-437: the frames of a write fit with framing and
\* COBS, those of a read with framing; either way they move each byte once and
\* leave out only bytes of a partial last word.
THEOREM CuttingIsExact == Spec => []FramesExact
<1>1. FramesFit /\ FramesApart /\ WholeWordsQueued /\ RefusedOnlyAtEnd => FramesExact
  BY DEF FramesExact
<1> QED
  BY <1>1, CuttingFits, CuttingSeparates, NothingLeftOut, RefusalsAtEnd, PTL
=============================================================================
