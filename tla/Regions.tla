------------------------------ MODULE Regions ------------------------------
(***************************************************************************)
(* From a list of leaf fields to the frames that carry them.               *)
(*                                                                         *)
(* coalesce_fields (buffer_sync.cpp) walks the dirty or the subscribed     *)
(* leaves once and merges them into word-aligned regions; enqueue_writes   *)
(* and enqueue_read_requests (dartt_link.cpp) cut every region into chunks *)
(* that fit the peripheral's serial buffer, and create_write_frame and     *)
(* create_read_request_frame refuse a chunk that leaves the control        *)
(* buffer.  The two directions run the same loops, one action per turn of  *)
(* a loop here, over chunks of different sizes: enqueue_writes leaves room *)
(* for the COBS bytes besides the framing, enqueue_read_requests does not. *)
(* So which of the two it is, and the framing of the message format in     *)
(* use, are part of the state; neither changes during the call.            *)
(*                                                                         *)
(* A field is [start, bytes]; offsets and sizes are the code's bytes and a *)
(* word is four of them.                                                   *)
(***************************************************************************)
EXTENDS Integers, Sequences

CONSTANTS SerialBuffer,  \* target_serbuf_rx_size or target_serbuf_tx_size (64)
          Formats,       \* bytes of framing of each msg_type: 2, 4 and 5, of
                         \* a write message and of a read reply alike
          Cobs,          \* NUM_BYTES_COBS_OVERHEAD (2)
          Lists,         \* the lists of fields a run starts from
          BufferSizes    \* the sizes ctl_buf may have been allocated with

ASSUME SerialAssumption == /\ SerialBuffer \in Nat /\ Cobs \in Nat
                           /\ Formats \subseteq Nat

\* With less room the calls return DARTT_ERROR_MEMORY_OVERRUN and queue
\* nothing.
ASSUME RoomAssumption == \A f \in Formats : SerialBuffer >= f + Cobs + 4

Field == [start : Nat, bytes : Nat]
Calls == [direction : {"write", "read"}, framing : Formats]

ASSUME ListsAssumption == Lists \subseteq Seq(Field) /\ BufferSizes \subseteq Nat

VARIABLES pc,          \* "start", "merge", "send" or "done"
          fields,      \* config.dirty_list or config.subscribed_list
          size,        \* ctl_buf.size
          call,        \* which of the two it is, and the framing of msg_type:
                       \* [direction, framing]
          i,           \* the field the merging loop looks at
          current,     \* the region being extended: [start, fields]
          currentEnd,  \* current_end
          regions,     \* the finished regions: [start, length, fields]
          k,           \* the region being cut
          at,          \* bytes of it already in frames: wsize * i
          frames,      \* the frames queued, in order: [start, bytes]
          refused      \* the regions whose call returned an error

vars == <<pc, fields, size, call, i, current, currentEnd, regions, k, at,
          frames, refused>>

AlignDown(n) == n - (n % 4)

AlignUp(n) == AlignDown(n + 3)

First(f) == AlignDown(f.start)
End(f)   == AlignUp(f.start + f.bytes)

Writing == call.direction = "write"

\* Only the write path counts the COBS bytes (dartt_link.cpp:75).
Stuffing == IF Writing THEN Cobs ELSE 0

\* Mutations of ChunkBytes: a write leaves no room for COBS, as a read does;
\* the rounding is forgotten.
ChunkUnstuffed == AlignDown(SerialBuffer - call.framing)
ChunkOdd       == SerialBuffer - call.framing - Stuffing

\* The payload of a full chunk (wsize, rsize): what the framing leaves, in
\* whole words.
ChunkBytes == AlignDown(SerialBuffer - call.framing - Stuffing)

Upto(m, n) == IF m < n THEN n ELSE m

-----------------------------------------------------------------------------
\* byte_offset + nbytes of every leaf is within the block ctl_buf mirrors.
Init ==
  /\ pc = "start"
  /\ fields \in Lists
  /\ size \in BufferSizes
  /\ call \in Calls
  /\ \A x \in DOMAIN fields : fields[x].start + fields[x].bytes <= size
  /\ i = 1 /\ k = 1 /\ at = 0 /\ currentEnd = 0
  /\ current = [start |-> 0, fields |-> {}]
  /\ regions = <<>> /\ frames = <<>> /\ refused = {}

\* The early return for an empty list.
NothingToDo ==
  /\ pc = "start"
  /\ fields = <<>>
  /\ pc' = "send"
  /\ UNCHANGED <<fields, size, call, i, current, currentEnd, regions, k, at,
                 frames, refused>>

FirstField ==
  /\ pc = "start"
  /\ fields # <<>>
  /\ pc' = "merge"
  /\ current' = [start |-> First(fields[1]), fields |-> {1}]
  /\ currentEnd' = End(fields[1])
  /\ i' = 2
  /\ UNCHANGED <<fields, size, call, regions, k, at, frames, refused>>

\* Mutation of Joins: a field joins over a gap of a word.
JoinsOverGap(f) == First(f) <= currentEnd + 4

Joins(f) == First(f) <= currentEnd

Extend ==
  /\ pc = "merge"
  /\ i <= Len(fields)
  /\ Joins(fields[i])
  /\ currentEnd' = Upto(currentEnd, End(fields[i]))
  /\ current' = [start |-> current.start, fields |-> current.fields \cup {i}]
  /\ i' = i + 1
  /\ UNCHANGED <<pc, fields, size, call, regions, k, at, frames, refused>>

Finished == [start  |-> current.start,
             length |-> currentEnd - current.start,
             fields |-> current.fields]

Split ==
  /\ pc = "merge"
  /\ i <= Len(fields)
  /\ ~Joins(fields[i])
  /\ regions' = Append(regions, Finished)
  /\ current' = [start |-> First(fields[i]), fields |-> {i}]
  /\ currentEnd' = End(fields[i])
  /\ i' = i + 1
  /\ UNCHANGED <<pc, fields, size, call, k, at, frames, refused>>

LastRegion ==
  /\ pc = "merge"
  /\ i > Len(fields)
  /\ regions' = Append(regions, Finished)
  /\ pc' = "send"
  /\ UNCHANGED <<fields, size, call, i, current, currentEnd, k, at, frames,
                 refused>>

-----------------------------------------------------------------------------
\* Mutations of InBuffer: only the start of the chunk is checked; the chunk
\* that ends with the buffer is refused.
StartInBuffer(from, bytes)  == from < size
StrictInBuffer(from, bytes) == from < size /\ from + bytes < size

\* The bounds check of create_write_frame and create_read_request_frame.
InBuffer(from, bytes) == from < size /\ from + bytes <= size

\* create_read_request_frame also compares the reply with the peripheral's
\* buffer, without the COBS bytes as well.
Accepts(from, bytes) ==
  /\ InBuffer(from, bytes)
  /\ ~Writing => bytes + call.framing <= SerialBuffer

Cutting == pc = "send" /\ k <= Len(regions)

\* enqueue_read_requests refuses a region that starts outside of the buffer
\* before it cuts it, an empty one too; enqueue_writes leaves it to the frames.
Outside == ~Writing /\ at = 0 /\ regions[k].start >= size

Sending == Cutting /\ at < regions[k].length

\* The whole chunks first, then what is left of the region.
ChunkSize ==
  IF at + ChunkBytes <= regions[k].length THEN ChunkBytes
                                          ELSE regions[k].length - at

SendChunk ==
  /\ Sending
  /\ Accepts(regions[k].start + at, ChunkSize)
  /\ frames' = Append(frames, [start |-> regions[k].start + at,
                               bytes |-> ChunkSize])
  /\ at' = at + ChunkSize
  /\ UNCHANGED <<pc, fields, size, call, i, current, currentEnd, regions, k,
                 refused>>

Rejected == \/ Cutting /\ Outside
            \/ Sending /\ ~Accepts(regions[k].start + at, ChunkSize)

\* The error return: what is already queued stays queued.
Refuse ==
  /\ Rejected
  /\ refused' = refused \cup {k}
  /\ k' = k + 1
  /\ at' = 0
  /\ UNCHANGED <<pc, fields, size, call, i, current, currentEnd, regions,
                 frames>>

\* Mutation of NextRegion: the chunk offset is not reset.
NextKeepsOffset ==
  /\ Cutting
  /\ at >= regions[k].length
  /\ k' = k + 1
  /\ UNCHANGED <<pc, fields, size, call, i, current, currentEnd, regions, at,
                 frames, refused>>

NextRegion ==
  /\ Cutting
  /\ ~Outside
  /\ at = regions[k].length
  /\ k' = k + 1
  /\ at' = 0
  /\ UNCHANGED <<pc, fields, size, call, i, current, currentEnd, regions,
                 frames, refused>>

Finish ==
  /\ pc = "send"
  /\ k > Len(regions)
  /\ pc' = "done"
  /\ UNCHANGED <<fields, size, call, i, current, currentEnd, regions, k, at,
                 frames, refused>>

Next == \/ NothingToDo \/ FirstField \/ Extend \/ Split \/ LastRegion
        \/ SendChunk \/ Refuse \/ NextRegion \/ Finish

Spec == Init /\ [][Next]_vars

-----------------------------------------------------------------------------
\* The type invariant: lists of fields, regions and frames, indices in range.
Region == [start : Nat, length : Nat, fields : SUBSET Nat]
Frame  == [start : Nat, bytes : Nat]

TypeOK ==
  /\ pc \in {"start", "merge", "send", "done"}
  /\ fields \in Seq(Field) /\ size \in Nat
  /\ call \in Calls
  /\ i \in 1 .. Len(fields) + 1
  /\ current \in [start : Nat, fields : SUBSET Nat] /\ currentEnd \in Nat
  /\ regions \in Seq(Region) /\ frames \in Seq(Frame)
  /\ k \in 1 .. Len(regions) + 1 /\ refused \in SUBSET (1 .. Len(regions))
  /\ at \in Nat /\ (k <= Len(regions) => at <= regions[k].length)

\* Every list the program builds is in leaf order.  The leaves of a struct
\* come in the order of their offsets; those of a union restart at its base.
Sorted ==
  \A x, y \in DOMAIN fields : x < y => fields[x].start <= fields[y].start

Covers(start, end, f) == start <= f.start /\ f.start + f.bytes <= end

\* A field listed in a finished region lies inside it, whole: reading or
\* writing the region moves every byte of the field (buffer_sync.h:10).
FieldsInRegion ==
  \A r \in DOMAIN regions : \A x \in regions[r].fields :
    Covers(regions[r].start, regions[r].start + regions[r].length, fields[x])

\* Merging a list in offset order loses no byte of a field.
SortedIsCovered == Sorted => FieldsInRegion

\* Merged in offset order, two regions never share or even touch a word:
\* no word is moved twice, and no pair of regions should have been one.
RegionsApart ==
  Sorted => \A r, s \in DOMAIN regions :
              r < s => regions[r].start + regions[r].length < regions[s].start

\* A region holds no word that none of its fields needs.  Writing such a
\* word would overwrite variables nobody edited, reading it costs bus time.
NoIdleWord ==
  \A r \in DOMAIN regions :
    \A byte \in regions[r].start .. regions[r].start + regions[r].length - 1 :
      \E x \in regions[r].fields : First(fields[x]) <= byte /\ byte < End(fields[x])

\* The regions are exactly the words of the fields, cut where a word is idle.
RegionsExact == SortedIsCovered /\ RegionsApart /\ NoIdleWord

\* A frame starts on a word, is not empty, stays in the control buffer, and
\* fits the peripheral's serial buffer: a write as it goes over the line, a
\* read by its reply without the COBS bytes.  With them it fits too if the
\* rounding to whole words happens to cut off as much.
FramesFit ==
  \A n \in DOMAIN frames :
    /\ frames[n].start % 4 = 0
    /\ frames[n].bytes > 0
    /\ frames[n].start + frames[n].bytes <= size
    /\ frames[n].bytes + call.framing <= SerialBuffer
    /\ Writing \/ (SerialBuffer - call.framing) % 4 >= Cobs =>
         frames[n].bytes + call.framing + Cobs <= SerialBuffer

\* What dartt_link.h:20 says of both directions: the messages leave the COBS
\* layer room to operate.  The code keeps it for writes only.
LineFits ==
  \A n \in DOMAIN frames :
    frames[n].bytes + call.framing + Cobs <= SerialBuffer

\* No byte is put in two frames of one queue.
FramesApart ==
  Sorted => \A m, n \in DOMAIN frames :
              m < n => frames[m].start + frames[m].bytes <= frames[n].start

InFrames(byte) ==
  \E n \in DOMAIN frames :
    frames[n].start <= byte /\ byte < frames[n].start + frames[n].bytes

\* When the queue is built, every byte of every field is in some frame.
EveryByteQueued ==
  pc = "done" =>
    \A x \in DOMAIN fields :
      \A byte \in fields[x].start .. fields[x].start + fields[x].bytes - 1 :
        InFrames(byte)

\* So it is for a list in offset order over a buffer of whole words.
WholeWordsQueued == Sorted /\ size % 4 = 0 => EveryByteQueued

\* A call is refused only because its region ends beyond a buffer that is
\* not a whole number of words, or because it is an empty one at the very end
\* of the buffer.  So only the last region can be, and in whole words nothing
\* is lost by it.
RefusedOnlyAtEnd ==
  Sorted => \A r \in refused :
    /\ r = Len(regions)
    /\ \/ regions[r].start + regions[r].length > size /\ size % 4 # 0
       \/ regions[r].start = size /\ regions[r].length = 0

\* The frames a queue is made of can be received, move each byte once, and
\* miss none but those of a word that the block itself cuts off.
FramesExact == FramesFit /\ FramesApart /\ WholeWordsQueued /\ RefusedOnlyAtEnd
-----------------------------------------------------------------------------
\* The inductive invariant, one conjunct per idea.

\* The loops run one after the other over what the one before left.
Phases ==
  /\ pc \in {"start", "merge"} => frames = <<>> /\ k = 1 /\ at = 0 /\ refused = {}
  /\ pc = "start" => i = 1 /\ regions = <<>>
  /\ pc = "done" => k = Len(regions) + 1

Aligned ==
  /\ current.start % 4 = 0 /\ currentEnd % 4 = 0 /\ current.start <= currentEnd
  /\ \A r \in DOMAIN regions : regions[r].start % 4 = 0 /\ regions[r].length % 4 = 0
  /\ at % 4 = 0

\* Rounding up may leave the block, but by less than a word.
WithinBlock ==
  /\ \A x \in DOMAIN fields : fields[x].start + fields[x].bytes <= size
  /\ currentEnd <= AlignUp(size)
  /\ \A r \in DOMAIN regions : regions[r].start + regions[r].length <= AlignUp(size)

InSomeRegion(x) == \E r \in DOMAIN regions : x \in regions[r].fields

\* Every field met so far is in the region being extended or a finished one.
Assigned ==
  /\ current.fields \subseteq DOMAIN fields
  /\ \A r \in DOMAIN regions : regions[r].fields \subseteq DOMAIN fields
  /\ pc = "merge" =>
       \A x \in 1 .. i - 1 : x \in current.fields \/ InSomeRegion(x)
  /\ pc \in {"send", "done"} => \A x \in DOMAIN fields : InSomeRegion(x)

Covered ==
  /\ SortedIsCovered
  /\ Sorted /\ pc = "merge" =>
       /\ \A x \in current.fields : Covers(current.start, currentEnd, fields[x])
       /\ \A y \in i .. Len(fields) : current.start <= fields[y].start

Separated ==
  /\ RegionsApart
  /\ Sorted /\ pc = "merge" =>
       \A r \in DOMAIN regions : regions[r].start + regions[r].length < current.start

Tight ==
  /\ NoIdleWord
  /\ pc = "merge" =>
       \A byte \in current.start .. currentEnd - 1 :
         \E x \in current.fields : First(fields[x]) <= byte /\ byte < End(fields[x])

Placed ==
  /\ FramesFit
  /\ FramesApart
  /\ Sorted /\ k <= Len(regions) =>
       \A n \in DOMAIN frames :
         frames[n].start + frames[n].bytes <= regions[k].start + at

Queued ==
  /\ \A r \in (1 .. k - 1) \ refused :
       \A byte \in regions[r].start .. regions[r].start + regions[r].length - 1 :
         InFrames(byte)
  /\ k <= Len(regions) =>
       \A byte \in regions[k].start .. regions[k].start + at - 1 : InFrames(byte)

Refusals ==
  /\ refused \subseteq 1 .. k - 1
  /\ \A r \in refused : \/ regions[r].start + regions[r].length > size
                        \/ regions[r].start >= size

IInv == /\ TypeOK /\ Phases /\ Aligned /\ WithinBlock /\ Assigned
        /\ Covered /\ Separated /\ Tight /\ Placed /\ Queued /\ Refusals
=============================================================================
