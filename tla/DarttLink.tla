------------------------------ MODULE DarttLink ------------------------------
(***************************************************************************)
(* DarttLink (src/reader/dartt_link.cpp): the serial link between the      *)
(* dashboard and one device on a shared wire.  Four parties act:           *)
(*                                                                         *)
(*   main     the render loop: queues write frames, rebuilds the list of   *)
(*            read requests, renders under periph_buf_mutex, stops and     *)
(*            starts the link;                                             *)
(*   reader   read_loop(): decodes what arrives, hands each reply to the   *)
(*            callback, and sends the next read request;                   *)
(*   writer   write_loop(): sends the queued write frames;                 *)
(*   device   the peripheral (external): answers requests, or does not.    *)
(*                                                                         *)
(* A thread's program counter names the statement it is about to execute,  *)
(* and a step ends where another thread could observe or block it: at an   *)
(* access to a mutex, an atomic, the queue or the wire.                    *)
(*                                                                         *)
(* Frames are opaque to the link, so the transmit queue and the request    *)
(* list are their lengths.  A frame the device sends is two bytes: one     *)
(* that completes nothing ("part") and the delimiter that completes it,    *)
(* which says what was completed: a reply to the latest or to an older     *)
(* request, a frame nobody asked for, or one process_frame() rejects       *)
(* ("bad").  A byte at which the decoder overruns is a "part": it changes  *)
(* nothing but the decoder's own length.                                   *)
(***************************************************************************)
EXTENDS Integers, Sequences

CONSTANTS FullDuplex,   \* is_full_duplex
          Late,         \* may a reply arrive after its request timed out?
          Unsolicited,  \* may the device send without being asked?
          WritesMayFail,\* may create_write_frame() refuse a later chunk?
          MaxChunks,    \* most chunks one enqueue_writes() call makes
          MaxQueue,     \* bound on the transmit queue
          MaxRequests,  \* bound on the request list
          MaxOwed,      \* requests the device remembers; it loses others
          MaxRx         \* bound on the bytes in the receive buffer

ASSUME LinkAssumption ==
  /\ {FullDuplex, Late, Unsolicited, WritesMayFail} \subseteq BOOLEAN
  /\ MaxChunks \in Nat \ {0}
  /\ MaxQueue \in Nat
  /\ MaxRequests \in Nat \ {0}
  /\ MaxOwed \in Nat
  /\ MaxRx \in Nat

VARIABLES
  running_,             \* cleared by stop(), read by both loops
  main, chunks,         \* main: program counter; chunks left to queue
  tx_queue_, tx_queue_mutex_, write_pending_,
  request_count,        \* read_request_list_.size()
  read_request_index_, read_request_mutex_,
  bus_mutex_, periph_buf_mutex,
  awaiting_reply_,
  reader, chunk, return_to,     \* reader: pc, bytes in hand, caller of dispatch
  writer,                       \* writer: pc
  owed, half_sent, rx,          \* device: requests to answer; the receive buffer
  reply_due,            \* history: the latest request is neither answered
                        \* nor given up
  overtakes             \* history: requests sent since a write became
                        \* pending; many are 2

mainVars   == <<main, chunks>>
queueVars  == <<tx_queue_, tx_queue_mutex_, write_pending_>>
listVars   == <<request_count, read_request_index_, read_request_mutex_>>
readerVars == <<reader, chunk, return_to, awaiting_reply_>>
wireVars   == <<owed, half_sent, rx>>
history    == <<reply_due, overtakes>>

vars == <<running_, mainVars, queueVars, listVars, bus_mutex_,
          periph_buf_mutex, readerVars, writer, wireVars, history>>

Free  == "free"
Reply == {"latest", "older", "unasked"}
Byte  == {"part", "bad"} \cup Reply

MainPc   == {"stopped", "idle", "add", "push", "notify", "render",
             "notify_all", "join_reader", "join_writer"}
ReaderPc == {"none", "top", "read", "bytes", "parse", "parsed", "callback",
             "framed", "dispatch", "list", "relock", "send", "done"}
WriterPc == {"none", "top", "lock", "test", "block", "asleep", "take",
             "bus", "send", "count", "done"}

TypeOK ==
  /\ running_ \in BOOLEAN
  /\ main \in MainPc /\ chunks \in 0 .. MaxChunks
  /\ tx_queue_ \in 0 .. MaxQueue /\ write_pending_ \in Nat
  /\ tx_queue_mutex_ \in {Free, "writer"}
  /\ request_count \in 0 .. MaxRequests
  /\ read_request_index_ \in 0 .. MaxRequests - 1
  /\ read_request_mutex_ \in {Free, "reader"}
  /\ bus_mutex_ \in {Free, "reader", "writer"}
  /\ periph_buf_mutex \in {Free, "reader", "main"}
  /\ awaiting_reply_ \in BOOLEAN
  /\ reader \in ReaderPc /\ chunk \in Seq(Byte)
  /\ return_to \in {"top", "bytes"}
  /\ writer \in WriterPc
  /\ owed \in Seq(Reply) /\ half_sent \in BOOLEAN /\ rx \in Seq(Byte)
  /\ reply_due \in BOOLEAN /\ overtakes \in 0 .. 2

\* Before the first start(): nothing queued, no thread.
Init ==
  /\ running_ = FALSE
  /\ main = "stopped" /\ chunks = 0
  /\ tx_queue_ = 0 /\ tx_queue_mutex_ = Free /\ write_pending_ = 0
  /\ request_count = 0 /\ read_request_index_ = 0
  /\ read_request_mutex_ = Free
  /\ bus_mutex_ = Free /\ periph_buf_mutex = Free
  /\ awaiting_reply_ = FALSE
  /\ reader = "none" /\ chunk = <<>> /\ return_to = "top"
  /\ writer = "none"
  /\ owed = <<>> /\ half_sent = FALSE /\ rx = <<>>
  /\ reply_due = FALSE /\ overtakes = 0

-----------------------------------------------------------------------------
(* Main: the render loop.                                                  *)

\* start() keeps whatever an earlier run left in the queue, the list and
\* awaiting_reply_.
Start ==
  /\ main = "stopped"
  /\ main' = "idle"
  /\ running_' = TRUE
  /\ reader' = "top" /\ chunk' = <<>> /\ return_to' = "top"
  /\ writer' = "top"
  /\ IF Late
       THEN UNCHANGED wireVars
       ELSE owed' = <<>> /\ half_sent' = FALSE /\ rx' = <<>>
  /\ UNCHANGED <<chunks, queueVars, listVars, bus_mutex_, periph_buf_mutex,
                 awaiting_reply_, history>>

\* enqueue_writes() for a slice of n chunks.
BeginWrites ==
  /\ main = "idle"
  /\ \E n \in 1 .. MaxChunks :
       /\ tx_queue_ + n <= MaxQueue
       /\ chunks' = n
  /\ main' = "add"
  /\ UNCHANGED <<running_, queueVars, listVars, bus_mutex_, periph_buf_mutex,
                 readerVars, writer, wireVars, history>>

\* enqueue_write_frame(): count the frame, then queue it.
AddPending ==
  /\ main = "add"
  /\ write_pending_' = write_pending_ + 1
  /\ main' = "push"
  /\ UNCHANGED <<running_, chunks, tx_queue_, tx_queue_mutex_, listVars,
                 bus_mutex_, periph_buf_mutex, readerVars, writer, wireVars,
                 history>>

PushFrame ==
  /\ main = "push"
  /\ tx_queue_mutex_ = Free
  /\ tx_queue_' = tx_queue_ + 1
  /\ chunks' = chunks - 1
  /\ main' = IF chunks = 1 THEN "notify" ELSE "add"
  /\ UNCHANGED <<running_, tx_queue_mutex_, write_pending_, listVars,
                 bus_mutex_, periph_buf_mutex, readerVars, writer, wireVars,
                 history>>

\* create_write_frame() refuses the next chunk: enqueue_writes() returns at
\* once, with the earlier chunks queued.
WritesFail ==
  /\ WritesMayFail
  /\ main = "add"
  /\ main' = "idle"
  /\ chunks' = 0
  /\ UNCHANGED <<running_, queueVars, listVars, bus_mutex_, periph_buf_mutex,
                 readerVars, writer, wireVars, history>>

\* Mutation of Wake: the notification is forgotten.
WakeNobody == UNCHANGED writer

Wake == writer' = IF writer = "asleep" THEN "lock" ELSE writer

Notify ==
  /\ main = "notify"
  /\ main' = "idle"
  /\ Wake
  /\ UNCHANGED <<running_, chunks, queueVars, listVars, bus_mutex_,
                 periph_buf_mutex, readerVars, wireVars, history>>

\* Mutation of BuildReadRequests: the index is not reset.
BuildKeepsIndex ==
  /\ main = "idle"
  /\ read_request_mutex_ = Free
  /\ request_count' \in 0 .. MaxRequests
  /\ UNCHANGED <<running_, mainVars, queueVars, read_request_mutex_,
                 read_request_index_, bus_mutex_, periph_buf_mutex, readerVars,
                 writer, wireVars, history>>

BuildReadRequests ==
  /\ main = "idle"
  /\ read_request_mutex_ = Free
  /\ request_count' \in 0 .. MaxRequests
  /\ read_request_index_' = 0
  /\ UNCHANGED <<running_, mainVars, queueVars, read_request_mutex_,
                 bus_mutex_, periph_buf_mutex, readerVars, writer, wireVars,
                 history>>

\* Drawing the live expressions, under periph_buf_mutex.
RenderBegin ==
  /\ main = "idle"
  /\ periph_buf_mutex = Free
  /\ periph_buf_mutex' = "main"
  /\ main' = "render"
  /\ UNCHANGED <<running_, chunks, queueVars, listVars, bus_mutex_, readerVars,
                 writer, wireVars, history>>

RenderEnd ==
  /\ main = "render"
  /\ periph_buf_mutex' = Free
  /\ main' = "idle"
  /\ UNCHANGED <<running_, chunks, queueVars, listVars, bus_mutex_, readerVars,
                 writer, wireVars, history>>

Stop ==
  /\ main = "idle"
  /\ running_' = FALSE
  /\ main' = "notify_all"
  /\ UNCHANGED <<chunks, queueVars, listVars, bus_mutex_, periph_buf_mutex,
                 readerVars, writer, wireVars, history>>

\* Mutation of StopNotify: stop() goes on to the joins and notifies nobody.
StopQuietly ==
  /\ main = "notify_all"
  /\ main' = "join_reader"
  /\ UNCHANGED <<running_, chunks, queueVars, listVars, bus_mutex_,
                 periph_buf_mutex, readerVars, writer, wireVars, history>>

StopNotify ==
  /\ main = "notify_all"
  /\ main' = "join_reader"
  /\ Wake
  /\ UNCHANGED <<running_, chunks, queueVars, listVars, bus_mutex_,
                 periph_buf_mutex, readerVars, wireVars, history>>

JoinReader ==
  /\ main = "join_reader" /\ reader = "done"
  /\ main' = "join_writer"
  /\ UNCHANGED <<running_, chunks, queueVars, listVars, bus_mutex_,
                 periph_buf_mutex, readerVars, writer, wireVars, history>>

JoinWriter ==
  /\ main = "join_writer" /\ writer = "done"
  /\ main' = "stopped"
  /\ UNCHANGED <<running_, chunks, queueVars, listVars, bus_mutex_,
                 periph_buf_mutex, readerVars, writer, wireVars, history>>

-----------------------------------------------------------------------------
(* Reader: read_loop(), process_frame(), dispatch_read_requests().         *)

readerIdle == <<running_, mainVars, queueVars, writer>>

ReleaseBus == bus_mutex_' = IF bus_mutex_ = "reader" THEN Free ELSE bus_mutex_

ReadTop ==
  /\ reader = "top"
  /\ running_
  /\ reader' = "read"
  /\ UNCHANGED <<readerIdle, listVars, bus_mutex_, periph_buf_mutex, chunk,
                 return_to, awaiting_reply_, wireVars, history>>

\* The loop ends and its unique_lock with it.
ReadExit ==
  /\ reader = "top"
  /\ ~ running_
  /\ reader' = "done"
  /\ ReleaseBus
  /\ reply_due' = FALSE
  /\ UNCHANGED <<readerIdle, listVars, periph_buf_mutex, chunk, return_to,
                 awaiting_reply_, wireVars, overtakes>>

\* read_bytes() returns some of what has arrived.
ReadChunk ==
  /\ reader = "read"
  /\ \E n \in 1 .. Len(rx) :
       /\ chunk' = SubSeq(rx, 1, n)
       /\ rx' = SubSeq(rx, n + 1, Len(rx))
  /\ reader' = "bytes"
  /\ UNCHANGED <<readerIdle, listVars, bus_mutex_, periph_buf_mutex, return_to,
                 awaiting_reply_, owed, half_sent, history>>

\* read_bytes() returns nothing and the awaited reply is not overdue.
ReadNothing ==
  /\ reader = "read" /\ rx = <<>>
  /\ awaiting_reply_
  /\ reader' = "top"
  /\ UNCHANGED <<readerIdle, listVars, bus_mutex_, periph_buf_mutex, chunk,
                 return_to, awaiting_reply_, wireVars, history>>

Idle ==
  /\ reader = "read" /\ rx = <<>>
  /\ ReleaseBus
  /\ reader' = "dispatch" /\ return_to' = "top"
  /\ UNCHANGED <<readerIdle, listVars, periph_buf_mutex, chunk,
                 awaiting_reply_, wireVars, overtakes>>

ReadIdle ==
  /\ ~ awaiting_reply_
  /\ Idle
  /\ UNCHANGED reply_due

\* read_request_timeout_ms have passed since the request.  Unless replies may
\* be late, that means the device will not answer it.
ReadTimeout ==
  /\ awaiting_reply_
  /\ Late \/ \A i \in DOMAIN owed : owed[i] # "latest"
  /\ Idle
  /\ reply_due' = FALSE

\* The first byte takes the bus unless the reader still holds it.
LockBus ==
  /\ reader = "bytes" /\ chunk # <<>>
  /\ bus_mutex_ = Free
  /\ bus_mutex_' = "reader"
  /\ UNCHANGED <<readerIdle, listVars, periph_buf_mutex, readerVars, wireVars,
                 history>>

Decode ==
  /\ reader = "bytes" /\ chunk # <<>>
  /\ bus_mutex_ = "reader"
  /\ reader' = CASE Head(chunk) = "part" -> "bytes"
                 [] Head(chunk) = "bad"  -> "framed"
                 [] OTHER                -> "parse"
  /\ chunk' = IF Head(chunk) \in Reply THEN chunk ELSE Tail(chunk)
  /\ UNCHANGED <<readerIdle, listVars, bus_mutex_, periph_buf_mutex, return_to,
                 awaiting_reply_, wireVars, history>>

ChunkDone ==
  /\ reader = "bytes" /\ chunk = <<>>
  /\ reader' = "top"
  /\ UNCHANGED <<readerIdle, listVars, bus_mutex_, periph_buf_mutex, chunk,
                 return_to, awaiting_reply_, wireVars, history>>

\* process_frame() takes periph_buf_mutex for dartt_parse_read_reply().
ParseLock ==
  /\ reader = "parse"
  /\ periph_buf_mutex = Free
  /\ periph_buf_mutex' = "reader"
  /\ reader' = "parsed"
  /\ UNCHANGED <<readerIdle, listVars, bus_mutex_, chunk, return_to,
                 awaiting_reply_, wireVars, history>>

\* The reply does not fit the shadow copy: return the error.
ParseReject ==
  /\ reader = "parsed"
  /\ periph_buf_mutex' = Free
  /\ chunk' = Tail(chunk)
  /\ reader' = "framed"
  /\ UNCHANGED <<readerIdle, listVars, bus_mutex_, return_to, awaiting_reply_,
                 wireVars, history>>

ParseAccept ==
  /\ reader = "parsed"
  /\ periph_buf_mutex' = Free
  /\ awaiting_reply_' = FALSE
  /\ reply_due' = (reply_due /\ Head(chunk) # "latest")
  /\ chunk' = Tail(chunk)
  /\ reader' = "callback"
  /\ UNCHANGED <<readerIdle, listVars, bus_mutex_, return_to, wireVars,
                 overtakes>>

\* on_read_reply() only tries periph_buf_mutex: it never waits.
Callback ==
  /\ reader = "callback"
  /\ reader' = "framed"
  /\ UNCHANGED <<readerIdle, listVars, bus_mutex_, periph_buf_mutex, chunk,
                 return_to, awaiting_reply_, wireVars, history>>

\* Mutation of FrameDone: any frame, not only the reply, ends the wait.
FrameDoneAlways ==
  /\ reader = "framed"
  /\ reader' = "dispatch" /\ return_to' = "bytes"
  /\ ReleaseBus
  /\ UNCHANGED <<readerIdle, listVars, periph_buf_mutex, chunk,
                 awaiting_reply_, wireVars, history>>

\* After each frame: send the next request unless a reply is still awaited.
FrameDone ==
  /\ reader = "framed"
  /\ IF awaiting_reply_
       THEN reader' = "bytes" /\ UNCHANGED <<bus_mutex_, return_to>>
       ELSE reader' = "dispatch" /\ return_to' = "bytes" /\ ReleaseBus
  /\ UNCHANGED <<readerIdle, listVars, periph_buf_mutex, chunk,
                 awaiting_reply_, wireVars, history>>

\* Mutation of CheckPending: requests do not give way to writes.
CheckNothing ==
  /\ reader = "dispatch"
  /\ reader' = "list"
  /\ UNCHANGED <<readerIdle, listVars, bus_mutex_, periph_buf_mutex, chunk,
                 return_to, awaiting_reply_, wireVars, history>>

\* dispatch_read_requests(): writes first.
CheckPending ==
  /\ reader = "dispatch"
  /\ reader' = IF write_pending_ > 0 THEN return_to ELSE "list"
  /\ UNCHANGED <<readerIdle, listVars, bus_mutex_, periph_buf_mutex, chunk,
                 return_to, awaiting_reply_, wireVars, history>>

NothingToRequest ==
  /\ reader = "list"
  /\ read_request_mutex_ = Free
  /\ request_count = 0
  /\ reader' = return_to
  /\ UNCHANGED <<readerIdle, listVars, bus_mutex_, periph_buf_mutex, chunk,
                 return_to, awaiting_reply_, wireVars, history>>

\* Mutation of PickRequest: the index does not advance.
PickSame ==
  /\ reader = "list"
  /\ read_request_mutex_ = Free
  /\ request_count > 0
  /\ read_request_mutex_' = "reader"
  /\ reader' = "relock"
  /\ UNCHANGED <<readerIdle, request_count, read_request_index_, bus_mutex_,
                 periph_buf_mutex, chunk, return_to, awaiting_reply_, wireVars,
                 history>>

\* Round robin over the list; read_request_mutex_ is kept until the send.
PickRequest ==
  /\ reader = "list"
  /\ read_request_mutex_ = Free
  /\ request_count > 0
  /\ read_request_mutex_' = "reader"
  /\ read_request_index_' = (read_request_index_ + 1) % request_count
  /\ reader' = "relock"
  /\ UNCHANGED <<readerIdle, request_count, bus_mutex_, periph_buf_mutex, chunk,
                 return_to, awaiting_reply_, wireVars, history>>

Relock ==
  /\ reader = "relock"
  /\ bus_mutex_ = Free
  /\ bus_mutex_' = "reader"
  /\ reader' = "send"
  /\ UNCHANGED <<readerIdle, listVars, periph_buf_mutex, chunk, return_to,
                 awaiting_reply_, wireVars, history>>

\* Replies on their way are to an older request from now on.
Older(s) == [i \in DOMAIN s |-> IF s[i] = "latest" THEN "older" ELSE s[i]]

\* The request reaches the device, or is lost.
SendRequest ==
  /\ reader = "send"
  /\ \/ Len(owed) < MaxOwed /\ owed' = Append(Older(owed), "latest")
     \/ owed' = Older(owed)
  /\ rx' = Older(rx) /\ chunk' = Older(chunk)
  /\ read_request_mutex_' = Free
  /\ awaiting_reply_' = TRUE
  /\ reader' = return_to
  /\ reply_due' = TRUE
  /\ overtakes' = IF write_pending_ = 0 THEN 0
                  ELSE IF overtakes < 2 THEN overtakes + 1 ELSE 2
  /\ UNCHANGED <<readerIdle, request_count, read_request_index_, bus_mutex_,
                 periph_buf_mutex, return_to, half_sent>>

-----------------------------------------------------------------------------
(* Writer: write_loop().                                                   *)

writerIdle == <<running_, mainVars, listVars, periph_buf_mutex, readerVars,
                wireVars, reply_due>>

WriteTop ==
  /\ writer = "top"
  /\ writer' = IF running_ THEN "lock" ELSE "done"
  /\ UNCHANGED <<writerIdle, queueVars, bus_mutex_, overtakes>>

\* Also how tx_cv_.wait() returns to its predicate once woken.
LockQueue ==
  /\ writer = "lock"
  /\ tx_queue_mutex_ = Free
  /\ tx_queue_mutex_' = "writer"
  /\ writer' = "test"
  /\ UNCHANGED <<writerIdle, tx_queue_, write_pending_, bus_mutex_, overtakes>>

TestPredicate ==
  /\ writer = "test"
  /\ writer' = IF tx_queue_ > 0 \/ ~ running_ THEN "take" ELSE "block"
  /\ UNCHANGED <<writerIdle, queueVars, bus_mutex_, overtakes>>

\* Releasing the mutex and falling asleep are one step of wait().
Block ==
  /\ writer = "block"
  /\ tx_queue_mutex_' = Free
  /\ writer' = "asleep"
  /\ UNCHANGED <<writerIdle, tx_queue_, write_pending_, bus_mutex_, overtakes>>

\* A condition variable may wake up by itself.
SpuriousWakeup ==
  /\ writer = "asleep"
  /\ writer' = "lock"
  /\ UNCHANGED <<writerIdle, queueVars, bus_mutex_, overtakes>>

TakeFrame ==
  /\ writer = "take"
  /\ running_
  /\ tx_queue_' = tx_queue_ - 1
  /\ tx_queue_mutex_' = Free
  /\ writer' = IF FullDuplex THEN "send" ELSE "bus"
  /\ UNCHANGED <<writerIdle, write_pending_, bus_mutex_, overtakes>>

\* Stopped: the frames still queued stay queued.
TakeBreak ==
  /\ writer = "take"
  /\ ~ running_
  /\ tx_queue_mutex_' = Free
  /\ writer' = "done"
  /\ UNCHANGED <<writerIdle, tx_queue_, write_pending_, bus_mutex_, overtakes>>

\* Mutation of LockBusForWrite: send without the bus.
SkipBusForWrite ==
  /\ writer = "bus"
  /\ writer' = "send"
  /\ UNCHANGED <<writerIdle, queueVars, bus_mutex_, overtakes>>

LockBusForWrite ==
  /\ writer = "bus"
  /\ bus_mutex_ = Free
  /\ bus_mutex_' = "writer"
  /\ writer' = "send"
  /\ UNCHANGED <<writerIdle, queueVars, overtakes>>

SendFrame ==
  /\ writer = "send"
  /\ bus_mutex_' = IF FullDuplex THEN bus_mutex_ ELSE Free
  /\ writer' = "count"
  /\ UNCHANGED <<writerIdle, queueVars, overtakes>>

\* Mutation of CountSent: the counter is cleared, not decremented.
CountCleared ==
  /\ writer = "count"
  /\ write_pending_' = 0
  /\ overtakes' = 0
  /\ writer' = "top"
  /\ UNCHANGED <<writerIdle, tx_queue_, tx_queue_mutex_, bus_mutex_>>

CountSent ==
  /\ writer = "count"
  /\ write_pending_' = write_pending_ - 1
  /\ overtakes' = IF write_pending_ = 1 THEN 0 ELSE overtakes
  /\ writer' = "top"
  /\ UNCHANGED <<writerIdle, tx_queue_, tx_queue_mutex_, bus_mutex_>>

-----------------------------------------------------------------------------
(* Device (external).                                                      *)

deviceIdle == <<running_, mainVars, queueVars, listVars, bus_mutex_,
                periph_buf_mutex, readerVars, writer, history>>

DeviceSends ==
  /\ owed # <<>> /\ Len(rx) < MaxRx
  /\ half_sent' = ~ half_sent
  /\ IF half_sent
       THEN /\ \E b \in {Head(owed), "bad"} : rx' = Append(rx, b)
            /\ owed' = Tail(owed)
       ELSE /\ rx' = Append(rx, "part")
            /\ UNCHANGED owed
  /\ UNCHANGED deviceIdle

DeviceForgets ==
  /\ owed # <<>> /\ ~ half_sent
  /\ owed' = Tail(owed)
  /\ UNCHANGED <<deviceIdle, half_sent, rx>>

DeviceStreams ==
  /\ Unsolicited
  /\ Len(owed) < MaxOwed
  /\ owed' = Append(owed, "unasked")
  /\ UNCHANGED <<deviceIdle, half_sent, rx>>

-----------------------------------------------------------------------------

\* What main does when the user asks for it, and what it then has to finish.
MainStarts   == Start \/ BeginWrites \/ BuildReadRequests \/ RenderBegin \/ Stop
MainFinishes == \/ AddPending \/ PushFrame \/ WritesFail \/ Notify
                \/ RenderEnd \/ StopNotify \/ JoinReader \/ JoinWriter

ReaderStep ==
  \/ ReadTop \/ ReadExit
  \/ ReadChunk \/ ReadNothing \/ ReadIdle \/ ReadTimeout
  \/ LockBus \/ Decode \/ ChunkDone
  \/ ParseLock \/ ParseReject \/ ParseAccept \/ Callback \/ FrameDone
  \/ CheckPending \/ NothingToRequest \/ PickRequest \/ Relock \/ SendRequest

WriterStep ==
  \/ WriteTop \/ LockQueue \/ TestPredicate \/ Block
  \/ TakeFrame \/ TakeBreak \/ LockBusForWrite \/ SendFrame \/ CountSent

Next ==
  \/ MainStarts \/ MainFinishes
  \/ ReaderStep
  \/ WriterStep \/ SpuriousWakeup
  \/ DeviceSends \/ DeviceForgets \/ DeviceStreams

Spec == Init /\ [][Next]_vars

\* Every thread that can run runs; the clock advances, so a reply that does
\* not come is in the end overdue; a device that has begun to answer goes on;
\* the render loop, which leaves periph_buf_mutex alone while it waits for the
\* display, lets the reader have it in the end.  Nothing makes the user act, a
\* condition variable wake up by itself, or the bus mutex prefer a waiter.
Fairness ==
  /\ WF_vars(MainFinishes)
  /\ WF_vars(ReaderStep)
  /\ SF_vars(ReadTimeout)
  /\ SF_vars(ParseLock)
  /\ WF_vars(WriterStep)
  /\ WF_vars(DeviceSends)

FairSpec == Spec /\ Fairness

-----------------------------------------------------------------------------
(* Safety.                                                                 *)

\* On a half-duplex wire the two threads never transmit at the same time.
OneTransmits == ~ FullDuplex => ~ (reader = "send" /\ writer = "send")

\* From sending a request until its reply is in, or it is given up, the bus
\* stays with the read thread, so that no write meets the reply on the wire
\* (dartt_link.cpp:562-564).
ReservedForReply == reply_due => bus_mutex_ = "reader"

\* dispatch_read_requests() never locks a bus its thread already owns, on any
\* of its call paths: unique_lock::lock() would throw.
NoSelfLock == reader \in {"dispatch", "list", "relock"} => bus_mutex_ # "reader"

\* write_pending_ counts every frame from before it is queued until after it
\* is sent, over restarts too, so it is 0 only when no write is on its way and
\* never goes below.
PendingCounts ==
  write_pending_ = tx_queue_
                     + (IF main = "push" THEN 1 ELSE 0)
                     + (IF writer \in {"bus", "send", "count"} THEN 1 ELSE 0)

\* The index is in range whenever dispatch uses it, though the list may have
\* been rebuilt shorter since it was set.
IndexInRange == request_count > 0 => read_request_index_ < request_count

\* A request may slip out between the check of write_pending_ and the send,
\* but writes that stay pending are overtaken by one request at most.
OneOvertake == overtakes <= 1

\* The write thread never sleeps over a queued frame, unless the notification
\* is on its way (dartt_link.h:113: it "blocks here when idle").
AsleepOnlyWhenIdle ==
  writer = "asleep" /\ main \notin {"add", "push", "notify"} /\ running_
    => tx_queue_ = 0

\* Once stop() has joined the threads no mutex is left locked, so start() and
\* the render loop can go on.
StoppedUnlocked ==
  main = "stopped" =>
    /\ bus_mutex_ = Free /\ tx_queue_mutex_ = Free
    /\ read_request_mutex_ = Free /\ periph_buf_mutex = Free

\* Through polls, writes, stops and restarts the two threads share the half-
\* duplex wire by handing bus_mutex_ over: never both on the wire, never a
\* thread that waits for itself, never a lock that outlives its thread.
BusDiscipline ==
  /\ OneTransmits
  /\ NoSelfLock
  /\ StoppedUnlocked

\* Why they hold.  Who owns each mutex shows in the program counters; main's
\* own tells which threads live; write_pending_ and the queue are in step with
\* the counters of the threads that change them.
Owners ==
  /\ tx_queue_mutex_ = "writer" <=> writer \in {"test", "block", "take"}
  /\ read_request_mutex_ = "reader" <=> reader \in {"relock", "send"}
  /\ periph_buf_mutex = "reader" <=> reader = "parsed"
  /\ periph_buf_mutex = "main" <=> main = "render"
  /\ bus_mutex_ = "writer" <=> writer = "send" /\ ~ FullDuplex
  /\ reader \in {"send", "parse", "parsed", "callback", "framed"} =>
       bus_mutex_ = "reader"
  /\ reader \in {"none", "dispatch", "list", "relock", "done"} =>
       bus_mutex_ # "reader"

Threads ==
  /\ running_ <=> main \notin {"stopped", "notify_all", "join_reader",
                                "join_writer"}
  /\ main = "stopped" => reader \in {"none", "done"}
                         /\ writer \in {"none", "done"}
  /\ main = "join_writer" => reader = "done"
  /\ reader = "none" \/ writer = "none" => main = "stopped"
  /\ reader = "done" \/ writer = "done" => ~ running_

Work ==
  /\ main \in {"add", "push"} => chunks > 0 /\ tx_queue_ + chunks <= MaxQueue
  /\ writer = "block" => tx_queue_ = 0
  /\ writer = "bus" => ~ FullDuplex
  /\ writer = "take" => tx_queue_ > 0 \/ ~ running_
  /\ reader \in {"parse", "parsed"} => chunk # <<>>

\* A write that has been overtaken is pending, and the reader is not past its
\* check of write_pending_.
Overtaken ==
  overtakes > 0 =>
    /\ overtakes = 1
    /\ write_pending_ > 0
    /\ reader \notin {"list", "relock", "send"}

NoLostWakeup == WritesMayFail \/ AsleepOnlyWhenIdle

LinkInv ==
  /\ TypeOK
  /\ Owners
  /\ Threads
  /\ Work
  /\ PendingCounts
  /\ IndexInRange
  /\ Overtaken
  /\ NoLostWakeup

\* Why ReservedForReply holds when replies come in time and only on request:
\* at most one reply to the latest request is on its way, and none to another
\* one; there is none once the reader waits for no reply or has begun to send
\* the next request; and the reader does that from a whole chunk's end, or
\* with the rest of the chunk in hand.
Holds(s)  == \E i \in DOMAIN s : s[i] = "latest"
Timely(s) ==
  /\ \A i \in DOMAIN s : s[i] \notin {"older", "unasked"}
  /\ \A i, j \in DOMAIN s : s[i] = "latest" /\ s[j] = "latest" => i = j

Dispatching == reader \in {"dispatch", "list", "relock", "send"}

AnswerInv ==
  /\ owed \in {<<>>, <<"latest">>} /\ Timely(rx) /\ Timely(chunk)
  /\ owed # <<>> => ~ Holds(rx) /\ ~ Holds(chunk)
  /\ Holds(rx) => ~ Holds(chunk)
  /\ Dispatching \/ ~ awaiting_reply_ =>
       owed = <<>> /\ ~ Holds(rx) /\ ~ Holds(chunk)
  /\ reply_due => awaiting_reply_
  /\ reader \in {"top", "read"} \/ (Dispatching /\ return_to = "top") =>
       chunk = <<>>
  /\ reader \in {"parse", "parsed"} => Head(chunk) \in Reply
  /\ ReservedForReply

-----------------------------------------------------------------------------
(* Liveness.                                                               *)

\* In polling mode a queued frame is sent, or the link is stopped, though the
\* reader takes the bus again and again and nothing makes the mutex fair:
\* dispatch backs off while a write is pending, a lost reply times out.
QueueDrains == tx_queue_ > 0 /\ running_ ~> writer = "send" \/ ~ running_

\* Polling goes on for every entry of the list, whatever is lost, as long as
\* no write is pending and nobody stops the link or rebuilds the list.
EveryRequestSent ==
  \A i \in 0 .. MaxRequests - 1 :
    <>[](running_ /\ write_pending_ = 0 /\ i < request_count)
      => \/ []<>(reader = "send" /\ read_request_index_ = i)
         \/ []<><<BuildReadRequests>>_vars

\* stop() returns: "wake write thread so it can exit" (dartt_link.cpp:38).
StopReturns == main = "notify_all" ~> main = "stopped"

\* It does unless the notification falls between the write thread's test of
\* its predicate and its sleep, where it is missed: a thread that is asleep by
\* then is woken, and neither the bus nor a queued frame nor a reply that never
\* comes keeps the two threads from their end (dartt_link.cpp:35-42).
StopReturnsIfHeard == main = "notify_all" /\ writer # "block" ~> main = "stopped"

-----------------------------------------------------------------------------
(* What comments and documents say and the code does not do.               *)

\* "Hold the lock for the rest of the chunk regardless" (dartt_link.cpp:218).
HeldForChunk ==
  [][running_ /\ bus_mutex_ = "reader" /\ bus_mutex_' = Free
       => chunk = <<>>]_vars

\* "both threads skip bus_mutex_ entirely" (dartt_link.h:49).
FullDuplexSkipsBus == FullDuplex => bus_mutex_ = Free
=============================================================================
