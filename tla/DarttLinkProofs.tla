--------------------------- MODULE DarttLinkProofs ---------------------------
(***************************************************************************)
(* Proofs about DarttLink, for every value of its constants: the safety    *)
(* properties of the bus, the queue and the list, whatever the device      *)
(* does; and that the bus stays reserved for a reply, if the device        *)
(* answers in time and only when asked.                                    *)
(*                                                                         *)
(* LinkInv is inductive, and so is AnswerInv together with it.  One lemma per party shows that its steps keep    *)
(* it; a step is one action, and where the provers need it, one conjunct   *)
(* of LinkInv at a time.                                                   *)
(***************************************************************************)
EXTENDS DarttLink, SequenceTheorems, TLAPS

USE DEF Free, vars, mainVars, queueVars, listVars, readerVars, wireVars,
        history, readerIdle, writerIdle, deviceIdle, Wake, ReleaseBus

\* Marking replies as answers to an older request keeps a sequence of bytes,
\* or of replies, one.
LEMMA OlderType ==
  ASSUME NEW S, "older" \in S, NEW s \in Seq(S)
  PROVE  Older(s) \in Seq(S)
<1>1. /\ DOMAIN s = 1 .. Len(s)
      /\ Len(s) \in Nat
      /\ \A i \in 1 .. Len(s) : s[i] \in S
  OBVIOUS
<1>2. Older(s) = [i \in 1 .. Len(s) |-> IF s[i] = "latest" THEN "older"
                                                         ELSE s[i]]
  BY <1>1 DEF Older
<1>3. \A i \in 1 .. Len(s) :
        (IF s[i] = "latest" THEN "older" ELSE s[i]) \in S
  BY <1>1
<1>4. QED
  BY <1>1, <1>2, <1>3, IsASeq

\* Every step of the render loop keeps LinkInv.
LEMMA MainKeepsInv ==
  ASSUME LinkInv, MainStarts \/ MainFinishes
  PROVE  LinkInv'
<1>1. CASE Start
  <2>1. running_' \in BOOLEAN /\ half_sent' \in BOOLEAN
    BY <1>1 DEF LinkInv, TypeOK, Start
  <2>2. owed' \in Seq(Reply) /\ rx' \in Seq(Byte) /\ chunk' \in Seq(Byte)
    <3>1. CASE Late
      BY <1>1, <3>1, EmptySeq DEF LinkInv, TypeOK, Start
    <3>2. CASE ~ Late
      BY <1>1, <3>2, EmptySeq DEF Start
    <3>3. QED
      BY <3>1, <3>2
  <2>3. TypeOK'
    <3>1. /\ main' \in MainPc /\ reader' \in ReaderPc /\ writer' \in WriterPc
          /\ return_to' \in {"top", "bytes"}
      BY <1>1 DEF Start, MainPc, ReaderPc, WriterPc
    <3>2. QED
      BY <1>1, <2>1, <2>2, <3>1 DEF LinkInv, TypeOK, Start
  <2>4. Owners' /\ Threads'
    BY <1>1 DEF LinkInv, TypeOK, Owners, Threads, Start
  <2>5. Work' /\ PendingCounts' /\ IndexInRange'
    BY <1>1 DEF LinkInv, TypeOK, Threads, Work, PendingCounts, IndexInRange,
                Start
  <2>6. Overtaken' /\ NoLostWakeup'
    BY <1>1 DEF LinkInv, TypeOK, Overtaken, NoLostWakeup, AsleepOnlyWhenIdle,
                Start
  <2>7. QED
    BY <2>3, <2>4, <2>5, <2>6 DEF LinkInv
<1>2. CASE BeginWrites
  BY <1>2, LinkAssumption DEF LinkInv, TypeOK, Owners, Threads, Work,
     PendingCounts, IndexInRange, Overtaken, NoLostWakeup,
     AsleepOnlyWhenIdle, MainPc, ReaderPc, WriterPc, BeginWrites
<1>3. CASE AddPending
  BY <1>3, LinkAssumption DEF LinkInv, TypeOK, Owners, Threads, Work,
     PendingCounts, IndexInRange, Overtaken, NoLostWakeup,
     AsleepOnlyWhenIdle, MainPc, ReaderPc, WriterPc, AddPending
<1>4. CASE PushFrame
  BY <1>4, LinkAssumption DEF LinkInv, TypeOK, Owners, Threads, Work,
     PendingCounts, IndexInRange, Overtaken, NoLostWakeup,
     AsleepOnlyWhenIdle, MainPc, ReaderPc, WriterPc, PushFrame
<1>5. CASE WritesFail
  BY <1>5, LinkAssumption DEF LinkInv, TypeOK, Owners, Threads, Work,
     PendingCounts, IndexInRange, Overtaken, NoLostWakeup,
     AsleepOnlyWhenIdle, MainPc, ReaderPc, WriterPc, WritesFail
<1>6. CASE Notify
  BY <1>6, LinkAssumption DEF LinkInv, TypeOK, Owners, Threads, Work,
     PendingCounts, IndexInRange, Overtaken, NoLostWakeup,
     AsleepOnlyWhenIdle, MainPc, ReaderPc, WriterPc, Notify
<1>7. CASE BuildReadRequests
  BY <1>7, LinkAssumption DEF LinkInv, TypeOK, Owners, Threads, Work,
     PendingCounts, IndexInRange, Overtaken, NoLostWakeup,
     AsleepOnlyWhenIdle, MainPc, ReaderPc, WriterPc, BuildReadRequests
<1>8. CASE RenderBegin
  BY <1>8, LinkAssumption DEF LinkInv, TypeOK, Owners, Threads, Work,
     PendingCounts, IndexInRange, Overtaken, NoLostWakeup,
     AsleepOnlyWhenIdle, MainPc, ReaderPc, WriterPc, RenderBegin
<1>9. CASE RenderEnd
  BY <1>9, LinkAssumption DEF LinkInv, TypeOK, Owners, Threads, Work,
     PendingCounts, IndexInRange, Overtaken, NoLostWakeup,
     AsleepOnlyWhenIdle, MainPc, ReaderPc, WriterPc, RenderEnd
<1>10. CASE Stop
  <2>0. running_' \in BOOLEAN
    BY <1>10 DEF LinkInv, TypeOK, Stop
  <2>1. TypeOK'
    BY <2>0, <1>10, LinkAssumption DEF LinkInv, TypeOK, Threads, Work,
       PendingCounts, IndexInRange, Overtaken, MainPc, ReaderPc, WriterPc,
       Reply, Byte, Stop
  <2>2. Owners' /\ Threads'
    BY <1>10 DEF LinkInv, TypeOK, Owners, Threads, Work, MainPc, ReaderPc,
       WriterPc, Stop
  <2>3. Work' /\ PendingCounts' /\ IndexInRange'
    BY <1>10 DEF LinkInv, TypeOK, Owners, Threads, Work, PendingCounts,
       IndexInRange, MainPc, ReaderPc, WriterPc, Stop
  <2>4. Overtaken' /\ NoLostWakeup'
    BY <1>10 DEF LinkInv, TypeOK, Threads, Work, PendingCounts, Overtaken,
       NoLostWakeup, AsleepOnlyWhenIdle, MainPc, ReaderPc, WriterPc, Stop
  <2>5. QED
    BY <2>1, <2>2, <2>3, <2>4 DEF LinkInv
<1>11. CASE StopNotify
  BY <1>11, LinkAssumption DEF LinkInv, TypeOK, Owners, Threads, Work,
     PendingCounts, IndexInRange, Overtaken, NoLostWakeup,
     AsleepOnlyWhenIdle, MainPc, ReaderPc, WriterPc, StopNotify
<1>12. CASE JoinReader
  BY <1>12, LinkAssumption DEF LinkInv, TypeOK, Owners, Threads, Work,
     PendingCounts, IndexInRange, Overtaken, NoLostWakeup,
     AsleepOnlyWhenIdle, MainPc, ReaderPc, WriterPc, JoinReader
<1>13. CASE JoinWriter
  BY <1>13, LinkAssumption DEF LinkInv, TypeOK, Owners, Threads, Work,
     PendingCounts, IndexInRange, Overtaken, NoLostWakeup,
     AsleepOnlyWhenIdle, MainPc, ReaderPc, WriterPc, JoinWriter
<1>14. QED
  BY <1>1, <1>2, <1>3, <1>4, <1>5, <1>6, <1>7, <1>8, <1>9, <1>10, <1>11,
     <1>12, <1>13 DEF MainStarts, MainFinishes

\* Every step of the read thread keeps LinkInv.
LEMMA ReaderKeepsInv ==
  ASSUME LinkInv, ReaderStep
  PROVE  LinkInv'
<1>1. CASE ReadTop
  BY <1>1, LinkAssumption DEF LinkInv, TypeOK, Owners, Threads, Work,
     PendingCounts, IndexInRange, Overtaken, NoLostWakeup,
     AsleepOnlyWhenIdle, MainPc, ReaderPc, WriterPc, ReadTop
<1>2. CASE ReadExit
  <2>0. reply_due' \in BOOLEAN
    BY <1>2 DEF LinkInv, TypeOK, ReadExit
  <2>1. TypeOK'
    BY <2>0, <1>2, LinkAssumption DEF LinkInv, TypeOK, Threads, Work,
       PendingCounts, IndexInRange, Overtaken, MainPc, ReaderPc, WriterPc,
       Reply, Byte, ReadExit
  <2>2. Owners' /\ Threads'
    BY <1>2 DEF LinkInv, TypeOK, Owners, Threads, Work, MainPc, ReaderPc,
       WriterPc, ReadExit
  <2>3. Work' /\ PendingCounts' /\ IndexInRange'
    BY <1>2 DEF LinkInv, TypeOK, Owners, Threads, Work, PendingCounts,
       IndexInRange, MainPc, ReaderPc, WriterPc, ReadExit
  <2>4. Overtaken' /\ NoLostWakeup'
    BY <1>2 DEF LinkInv, TypeOK, Threads, Work, PendingCounts, Overtaken,
       NoLostWakeup, AsleepOnlyWhenIdle, MainPc, ReaderPc, WriterPc,
       ReadExit
  <2>5. QED
    BY <2>1, <2>2, <2>3, <2>4 DEF LinkInv
<1>3. CASE ReadChunk
  BY <1>3, LinkAssumption DEF LinkInv, TypeOK, Owners, Threads, Work,
     PendingCounts, IndexInRange, Overtaken, NoLostWakeup,
     AsleepOnlyWhenIdle, MainPc, ReaderPc, WriterPc, ReadChunk
<1>4. CASE ReadNothing
  BY <1>4, LinkAssumption DEF LinkInv, TypeOK, Owners, Threads, Work,
     PendingCounts, IndexInRange, Overtaken, NoLostWakeup,
     AsleepOnlyWhenIdle, MainPc, ReaderPc, WriterPc, ReadNothing
<1>5. CASE ReadIdle
  <2>1. TypeOK'
    BY <1>5, LinkAssumption DEF LinkInv, TypeOK, Threads, Work,
       PendingCounts, IndexInRange, Overtaken, MainPc, ReaderPc, WriterPc,
       Reply, Byte, ReadIdle, Idle
  <2>2. Owners' /\ Threads'
    BY <1>5 DEF LinkInv, TypeOK, Owners, Threads, Work, MainPc, ReaderPc,
       WriterPc, ReadIdle, Idle
  <2>3. Work' /\ PendingCounts' /\ IndexInRange'
    BY <1>5 DEF LinkInv, TypeOK, Owners, Threads, Work, PendingCounts,
       IndexInRange, MainPc, ReaderPc, WriterPc, ReadIdle, Idle
  <2>4. Overtaken' /\ NoLostWakeup'
    BY <1>5 DEF LinkInv, TypeOK, Threads, Work, PendingCounts, Overtaken,
       NoLostWakeup, AsleepOnlyWhenIdle, MainPc, ReaderPc, WriterPc,
       ReadIdle, Idle
  <2>5. QED
    BY <2>1, <2>2, <2>3, <2>4 DEF LinkInv
<1>6. CASE ReadTimeout
  <2>0. reply_due' \in BOOLEAN
    BY <1>6 DEF LinkInv, TypeOK, ReadTimeout, Idle
  <2>1. TypeOK'
    BY <2>0, <1>6, LinkAssumption DEF LinkInv, TypeOK, Threads, Work,
       PendingCounts, IndexInRange, Overtaken, MainPc, ReaderPc, WriterPc,
       Reply, Byte, ReadTimeout, Idle
  <2>2. Owners' /\ Threads'
    BY <1>6 DEF LinkInv, TypeOK, Owners, Threads, Work, MainPc, ReaderPc,
       WriterPc, ReadTimeout, Idle
  <2>3. Work' /\ PendingCounts' /\ IndexInRange'
    BY <1>6 DEF LinkInv, TypeOK, Owners, Threads, Work, PendingCounts,
       IndexInRange, MainPc, ReaderPc, WriterPc, ReadTimeout, Idle
  <2>4. Overtaken' /\ NoLostWakeup'
    BY <1>6 DEF LinkInv, TypeOK, Threads, Work, PendingCounts, Overtaken,
       NoLostWakeup, AsleepOnlyWhenIdle, MainPc, ReaderPc, WriterPc,
       ReadTimeout, Idle
  <2>5. QED
    BY <2>1, <2>2, <2>3, <2>4 DEF LinkInv
<1>7. CASE LockBus
  BY <1>7, LinkAssumption DEF LinkInv, TypeOK, Owners, Threads, Work,
     PendingCounts, IndexInRange, Overtaken, NoLostWakeup,
     AsleepOnlyWhenIdle, MainPc, ReaderPc, WriterPc, LockBus
<1>8. CASE Decode
  <2>h. Head(chunk) \in Byte
    BY <1>8, HeadTailProperties DEF LinkInv, TypeOK, Decode
  <2>1. TypeOK'
    BY <1>8, LinkAssumption DEF LinkInv, TypeOK, Threads, Work,
       PendingCounts, IndexInRange, Overtaken, MainPc, ReaderPc, WriterPc,
       Reply, Byte, Decode
  <2>2. Owners' /\ Threads'
    BY <1>8 DEF LinkInv, TypeOK, Owners, Threads, Work, MainPc, ReaderPc,
       WriterPc, Decode
  <2>3. Work' /\ PendingCounts' /\ IndexInRange'
    BY <2>h, <1>8 DEF LinkInv, TypeOK, Owners, Threads, Work,
       PendingCounts, IndexInRange, Byte, Reply, MainPc, ReaderPc,
       WriterPc, Decode
  <2>4. Overtaken' /\ NoLostWakeup'
    BY <1>8 DEF LinkInv, TypeOK, Threads, Work, PendingCounts, Overtaken,
       NoLostWakeup, AsleepOnlyWhenIdle, MainPc, ReaderPc, WriterPc,
       Decode
  <2>5. QED
    BY <2>1, <2>2, <2>3, <2>4 DEF LinkInv
<1>9. CASE ChunkDone
  BY <1>9, LinkAssumption DEF LinkInv, TypeOK, Owners, Threads, Work,
     PendingCounts, IndexInRange, Overtaken, NoLostWakeup,
     AsleepOnlyWhenIdle, MainPc, ReaderPc, WriterPc, ChunkDone
<1>10. CASE ParseLock
  BY <1>10, LinkAssumption DEF LinkInv, TypeOK, Owners, Threads, Work,
     PendingCounts, IndexInRange, Overtaken, NoLostWakeup,
     AsleepOnlyWhenIdle, MainPc, ReaderPc, WriterPc, ParseLock
<1>11. CASE ParseReject
  BY <1>11, LinkAssumption DEF LinkInv, TypeOK, Owners, Threads, Work,
     PendingCounts, IndexInRange, Overtaken, NoLostWakeup,
     AsleepOnlyWhenIdle, MainPc, ReaderPc, WriterPc, ParseReject
<1>12. CASE ParseAccept
  <2>0. awaiting_reply_' \in BOOLEAN /\ reply_due' \in BOOLEAN
    BY <1>12 DEF LinkInv, TypeOK, ParseAccept
  <2>1. TypeOK'
    BY <2>0, <1>12, LinkAssumption DEF LinkInv, TypeOK, Threads, Work,
       PendingCounts, IndexInRange, Overtaken, MainPc, ReaderPc, WriterPc,
       Reply, Byte, ParseAccept
  <2>2. Owners' /\ Threads'
    BY <1>12 DEF LinkInv, TypeOK, Owners, Threads, Work, MainPc, ReaderPc,
       WriterPc, ParseAccept
  <2>3. Work' /\ PendingCounts' /\ IndexInRange'
    BY <1>12 DEF LinkInv, TypeOK, Owners, Threads, Work, PendingCounts,
       IndexInRange, MainPc, ReaderPc, WriterPc, ParseAccept
  <2>4. Overtaken' /\ NoLostWakeup'
    BY <1>12 DEF LinkInv, TypeOK, Threads, Work, PendingCounts, Overtaken,
       NoLostWakeup, AsleepOnlyWhenIdle, MainPc, ReaderPc, WriterPc,
       ParseAccept
  <2>5. QED
    BY <2>1, <2>2, <2>3, <2>4 DEF LinkInv
<1>13. CASE Callback
  BY <1>13, LinkAssumption DEF LinkInv, TypeOK, Owners, Threads, Work,
     PendingCounts, IndexInRange, Overtaken, NoLostWakeup,
     AsleepOnlyWhenIdle, MainPc, ReaderPc, WriterPc, Callback
<1>14. CASE FrameDone
  BY <1>14, LinkAssumption DEF LinkInv, TypeOK, Owners, Threads, Work,
     PendingCounts, IndexInRange, Overtaken, NoLostWakeup,
     AsleepOnlyWhenIdle, MainPc, ReaderPc, WriterPc, FrameDone
<1>15. CASE CheckPending
  BY <1>15, LinkAssumption DEF LinkInv, TypeOK, Owners, Threads, Work,
     PendingCounts, IndexInRange, Overtaken, NoLostWakeup,
     AsleepOnlyWhenIdle, MainPc, ReaderPc, WriterPc, CheckPending
<1>16. CASE NothingToRequest
  BY <1>16, LinkAssumption DEF LinkInv, TypeOK, Owners, Threads, Work,
     PendingCounts, IndexInRange, Overtaken, NoLostWakeup,
     AsleepOnlyWhenIdle, MainPc, ReaderPc, WriterPc, NothingToRequest
<1>17. CASE PickRequest
  BY <1>17, LinkAssumption DEF LinkInv, TypeOK, Owners, Threads, Work,
     PendingCounts, IndexInRange, Overtaken, NoLostWakeup,
     AsleepOnlyWhenIdle, MainPc, ReaderPc, WriterPc, PickRequest
<1>18. CASE Relock
  BY <1>18, LinkAssumption DEF LinkInv, TypeOK, Owners, Threads, Work,
     PendingCounts, IndexInRange, Overtaken, NoLostWakeup,
     AsleepOnlyWhenIdle, MainPc, ReaderPc, WriterPc, Relock
<1>19. CASE SendRequest
  <2>1. awaiting_reply_' \in BOOLEAN /\ reply_due' \in BOOLEAN
    BY <1>19 DEF SendRequest
  <2>2. owed' \in Seq(Reply)
    <3>1. Older(owed) \in Seq(Reply)
      BY OlderType DEF LinkInv, TypeOK, Reply
    <3>2. Append(Older(owed), "latest") \in Seq(Reply)
      BY <3>1, AppendProperties DEF Reply
    <3>3. QED
      BY <1>19, <3>1, <3>2 DEF SendRequest
  <2>3. rx' \in Seq(Byte) /\ chunk' \in Seq(Byte)
    <3>1. Older(rx) \in Seq(Byte) /\ Older(chunk) \in Seq(Byte)
      BY OlderType DEF LinkInv, TypeOK, Byte, Reply
    <3>2. QED
      BY <1>19, <3>1 DEF SendRequest
  <2>4. /\ overtakes' \in {0, 1}
        /\ overtakes' = 1 => write_pending_ > 0
    <3>1. overtakes = 0 /\ write_pending_ \in Nat
      BY <1>19 DEF LinkInv, TypeOK, Overtaken, SendRequest
    <3>2. overtakes' = IF write_pending_ = 0 THEN 0 ELSE 1
      BY <1>19, <3>1 DEF SendRequest
    <3>3. QED
      BY <3>1, <3>2
  <2>5. reader' \in {"top", "bytes"}
    BY <1>19 DEF LinkInv, TypeOK, SendRequest
  <2>6. TypeOK'
    BY <1>19, <2>1, <2>2, <2>3, <2>4, <2>5
    DEF LinkInv, TypeOK, ReaderPc, SendRequest
  <2>7. Owners' /\ Threads'
    BY <1>19, <2>5 DEF LinkInv, Owners, Threads, SendRequest
  <2>8. Work' /\ PendingCounts' /\ IndexInRange'
    BY <1>19, <2>5
    DEF LinkInv, Work, PendingCounts, IndexInRange, SendRequest
  <2>9. Overtaken'
    BY <1>19, <2>4, <2>5 DEF Overtaken, SendRequest
  <2>10. NoLostWakeup'
    BY <1>19 DEF LinkInv, NoLostWakeup, AsleepOnlyWhenIdle, SendRequest
  <2>11. QED
    BY <2>6, <2>7, <2>8, <2>9, <2>10 DEF LinkInv
<1>20. QED
  BY <1>1, <1>2, <1>3, <1>4, <1>5, <1>6, <1>7, <1>8, <1>9, <1>10, <1>11,
     <1>12, <1>13, <1>14, <1>15, <1>16, <1>17, <1>18, <1>19 DEF ReaderStep

\* Every step of the write thread keeps LinkInv, one it takes on waking up by
\* itself included.
LEMMA WriterKeepsInv ==
  ASSUME LinkInv, WriterStep \/ SpuriousWakeup
  PROVE  LinkInv'
<1>1. CASE WriteTop
  BY <1>1, LinkAssumption DEF LinkInv, TypeOK, Owners, Threads, Work,
     PendingCounts, IndexInRange, Overtaken, NoLostWakeup,
     AsleepOnlyWhenIdle, MainPc, ReaderPc, WriterPc, WriteTop
<1>2. CASE LockQueue
  BY <1>2, LinkAssumption DEF LinkInv, TypeOK, Owners, Threads, Work,
     PendingCounts, IndexInRange, Overtaken, NoLostWakeup,
     AsleepOnlyWhenIdle, MainPc, ReaderPc, WriterPc, LockQueue
<1>3. CASE TestPredicate
  BY <1>3, LinkAssumption DEF LinkInv, TypeOK, Owners, Threads, Work,
     PendingCounts, IndexInRange, Overtaken, NoLostWakeup,
     AsleepOnlyWhenIdle, MainPc, ReaderPc, WriterPc, TestPredicate
<1>4. CASE Block
  BY <1>4, LinkAssumption DEF LinkInv, TypeOK, Owners, Threads, Work,
     PendingCounts, IndexInRange, Overtaken, NoLostWakeup,
     AsleepOnlyWhenIdle, MainPc, ReaderPc, WriterPc, Block
<1>5. CASE TakeFrame
  BY <1>5, LinkAssumption DEF LinkInv, TypeOK, Owners, Threads, Work,
     PendingCounts, IndexInRange, Overtaken, NoLostWakeup,
     AsleepOnlyWhenIdle, MainPc, ReaderPc, WriterPc, TakeFrame
<1>6. CASE TakeBreak
  BY <1>6, LinkAssumption DEF LinkInv, TypeOK, Owners, Threads, Work,
     PendingCounts, IndexInRange, Overtaken, NoLostWakeup,
     AsleepOnlyWhenIdle, MainPc, ReaderPc, WriterPc, TakeBreak
<1>7. CASE LockBusForWrite
  <2>1. TypeOK'
    BY <1>7, LinkAssumption DEF LinkInv, TypeOK, Threads, Work,
       PendingCounts, IndexInRange, Overtaken, MainPc, ReaderPc, WriterPc,
       Reply, Byte, LockBusForWrite
  <2>2. Owners' /\ Threads'
    BY <1>7 DEF LinkInv, TypeOK, Owners, Threads, Work, MainPc, ReaderPc,
       WriterPc, LockBusForWrite
  <2>3. Work' /\ PendingCounts' /\ IndexInRange'
    BY <1>7 DEF LinkInv, TypeOK, Owners, Threads, Work, PendingCounts,
       IndexInRange, MainPc, ReaderPc, WriterPc, LockBusForWrite
  <2>4. Overtaken' /\ NoLostWakeup'
    BY <1>7 DEF LinkInv, TypeOK, Threads, Work, PendingCounts, Overtaken,
       NoLostWakeup, AsleepOnlyWhenIdle, MainPc, ReaderPc, WriterPc,
       LockBusForWrite
  <2>5. QED
    BY <2>1, <2>2, <2>3, <2>4 DEF LinkInv
<1>8. CASE SendFrame
  BY <1>8, LinkAssumption DEF LinkInv, TypeOK, Owners, Threads, Work,
     PendingCounts, IndexInRange, Overtaken, NoLostWakeup,
     AsleepOnlyWhenIdle, MainPc, ReaderPc, WriterPc, SendFrame
<1>9. CASE CountSent
  BY <1>9, LinkAssumption DEF LinkInv, TypeOK, Owners, Threads, Work,
     PendingCounts, IndexInRange, Overtaken, NoLostWakeup,
     AsleepOnlyWhenIdle, MainPc, ReaderPc, WriterPc, CountSent
<1>10. CASE SpuriousWakeup
  BY <1>10, LinkAssumption DEF LinkInv, TypeOK, Owners, Threads, Work,
     PendingCounts, IndexInRange, Overtaken, NoLostWakeup,
     AsleepOnlyWhenIdle, MainPc, ReaderPc, WriterPc, SpuriousWakeup
<1>11. QED
  BY <1>1, <1>2, <1>3, <1>4, <1>5, <1>6, <1>7, <1>8, <1>9, <1>10 DEF
     WriterStep

\* Whatever the device does keeps LinkInv.
LEMMA DeviceKeepsInv ==
  ASSUME LinkInv, DeviceSends \/ DeviceForgets \/ DeviceStreams
  PROVE  LinkInv'
<1>1. CASE DeviceSends
  <2>1. half_sent' \in BOOLEAN
    BY <1>1 DEF DeviceSends
  <2>2. owed' \in Seq(Reply) /\ rx' \in Seq(Byte)
    <3>1. owed \in Seq(Reply) /\ owed # <<>> /\ rx \in Seq(Byte)
      BY <1>1 DEF LinkInv, TypeOK, DeviceSends
    <3>2. Head(owed) \in Byte /\ Tail(owed) \in Seq(Reply)
      BY <3>1, HeadTailProperties DEF Byte
    <3>3. \A b \in {Head(owed), "bad", "part"} : Append(rx, b) \in Seq(Byte)
      BY <3>1, <3>2, AppendProperties DEF Byte
    <3>4. CASE half_sent
      BY <1>1, <3>2, <3>3, <3>4 DEF DeviceSends
    <3>5. CASE ~ half_sent
      BY <1>1, <3>1, <3>3, <3>5 DEF DeviceSends
    <3>6. QED
      BY <3>4, <3>5
  <2>3. TypeOK'
    BY <1>1, <2>1, <2>2 DEF LinkInv, TypeOK, DeviceSends
  <2>4. Owners' /\ Threads' /\ Work'
    BY <1>1 DEF LinkInv, Owners, Threads, Work, DeviceSends
  <2>5. PendingCounts' /\ IndexInRange' /\ Overtaken' /\ NoLostWakeup'
    BY <1>1 DEF LinkInv, PendingCounts, IndexInRange, Overtaken, NoLostWakeup,
                AsleepOnlyWhenIdle, DeviceSends
  <2>6. QED
    BY <2>3, <2>4, <2>5 DEF LinkInv
<1>2. CASE DeviceForgets
  BY <1>2, LinkAssumption DEF LinkInv, TypeOK, Owners, Threads, Work,
     PendingCounts, IndexInRange, Overtaken, NoLostWakeup,
     AsleepOnlyWhenIdle, MainPc, ReaderPc, WriterPc, DeviceForgets
<1>3. CASE DeviceStreams
  <2>1. TypeOK'
    BY <1>3, LinkAssumption DEF LinkInv, TypeOK, Threads, Work,
       PendingCounts, IndexInRange, Overtaken, MainPc, ReaderPc, WriterPc,
       Reply, Byte, DeviceStreams
  <2>2. Owners' /\ Threads'
    BY <1>3 DEF LinkInv, TypeOK, Owners, Threads, Work, MainPc, ReaderPc,
       WriterPc, DeviceStreams
  <2>3. Work' /\ PendingCounts' /\ IndexInRange'
    BY <1>3 DEF LinkInv, TypeOK, Owners, Threads, Work, PendingCounts,
       IndexInRange, MainPc, ReaderPc, WriterPc, DeviceStreams
  <2>4. Overtaken' /\ NoLostWakeup'
    BY <1>3 DEF LinkInv, TypeOK, Threads, Work, PendingCounts, Overtaken,
       NoLostWakeup, AsleepOnlyWhenIdle, MainPc, ReaderPc, WriterPc,
       DeviceStreams
  <2>5. QED
    BY <2>1, <2>2, <2>3, <2>4 DEF LinkInv
<1>4. QED
  BY <1>1, <1>2, <1>3

-----------------------------------------------------------------------------

\* LinkInv is an invariant of the link: who owns a mutex shows in the program
\* counters, and the counters agree with what the threads have in hand.
THEOREM Invariance == Spec => []LinkInv
<1>1. Init => LinkInv
  <2>1. SUFFICES ASSUME Init
                 PROVE  LinkInv
    OBVIOUS
  <2>2. chunk \in Seq(Byte) /\ owed \in Seq(Reply) /\ rx \in Seq(Byte)
    BY <2>1, EmptySeq DEF Init
  <2>3. running_ \in BOOLEAN /\ awaiting_reply_ \in BOOLEAN
        /\ half_sent \in BOOLEAN /\ reply_due \in BOOLEAN
    BY <2>1 DEF Init
  <2>4. TypeOK
    BY <2>1, <2>2, <2>3, LinkAssumption
    DEF Init, TypeOK, MainPc, ReaderPc, WriterPc
  <2>5. Owners /\ Threads /\ Work
    BY <2>1 DEF Init, Owners, Threads, Work
  <2>6. PendingCounts /\ IndexInRange /\ Overtaken /\ NoLostWakeup
    BY <2>1 DEF Init, PendingCounts, IndexInRange, Overtaken, NoLostWakeup,
                AsleepOnlyWhenIdle
  <2>7. QED
    BY <2>4, <2>5, <2>6 DEF LinkInv
<1>2. LinkInv /\ [Next]_vars => LinkInv'
  <2>1. SUFFICES ASSUME LinkInv, [Next]_vars
                 PROVE  LinkInv'
    OBVIOUS
  <2>2. CASE Next
    BY <2>1, <2>2, MainKeepsInv, ReaderKeepsInv, WriterKeepsInv,
       DeviceKeepsInv DEF Next
  <2>3. CASE UNCHANGED vars
    BY <2>1, <2>3
    DEF LinkInv, TypeOK, Owners, Threads, Work, PendingCounts, IndexInRange,
        Overtaken, NoLostWakeup, AsleepOnlyWhenIdle
  <2>4. QED
    BY <2>1, <2>2, <2>3
<1>3. QED
  BY <1>1, <1>2, PTL DEF Spec

\* Every variable keeps its type; in particular the queue, the index and the
\* counters stay within their bounds.
THEOREM TypeCorrect == Spec => []TypeOK
<1>1. LinkInv => TypeOK
  BY DEF LinkInv
<1>2. QED
  BY <1>1, Invariance, PTL

\* dartt_link.cpp:478-480 and 562-564: on a half-duplex wire the read and the
\* write thread are never both in send_raw().
THEOREM OneTransmitter == Spec => []OneTransmits
<1>1. LinkInv => OneTransmits
  BY DEF LinkInv, Owners, OneTransmits
<1>2. QED
  BY <1>1, Invariance, PTL

\* dartt_link.cpp:562: whenever dispatch_read_requests() locks the bus its own
\* thread does not hold it.
THEOREM RelockIsLegal == Spec => []NoSelfLock
<1>1. LinkInv => NoSelfLock
  BY DEF LinkInv, Owners, NoSelfLock
<1>2. QED
  BY <1>1, Invariance, PTL

\* dartt_link.cpp:46, 465-466, 481: write_pending_ counts exactly the frames
\* that are announced, queued, or taken and not yet counted as sent.
THEOREM PendingIsExact == Spec => []PendingCounts
<1>1. LinkInv => PendingCounts
  BY DEF LinkInv
<1>2. QED
  BY <1>1, Invariance, PTL

\* dartt_link.cpp:445, 559-560: the round-robin index never leaves the list,
\* however often it is rebuilt.
THEOREM IndexStaysInRange == Spec => []IndexInRange
<1>1. LinkInv => IndexInRange
  BY DEF LinkInv
<1>2. QED
  BY <1>1, Invariance, PTL

\* dartt_link.cpp:552-563: the check of write_pending_ and the send are not
\* atomic, and still pending writes are overtaken by one request at most.
THEOREM AtMostOneOvertakes == Spec => []OneOvertake
<1>1. LinkInv => OneOvertake
  BY DEF LinkInv, TypeOK, Overtaken, OneOvertake
<1>2. QED
  BY <1>1, Invariance, PTL

\* dartt_link.cpp:35-42: after stop() every mutex is free.
THEOREM StopReleases == Spec => []StoppedUnlocked
<1>1. LinkInv => StoppedUnlocked
  BY DEF LinkInv, TypeOK, Owners, Threads, StoppedUnlocked
<1>2. QED
  BY <1>1, Invariance, PTL

\* The three together: the threads hand bus_mutex_ over without ever sharing
\* the wire, waiting for themselves or leaving a lock behind.
THEOREM BusIsDisciplined == Spec => []BusDiscipline
<1>1. OneTransmits /\ NoSelfLock /\ StoppedUnlocked => BusDiscipline
  BY DEF BusDiscipline
<1>2. QED
  BY <1>1, OneTransmitter, RelockIsLegal, StopReleases, PTL

\* dartt_link.cpp:44-49, 124, 462-466: if no later chunk is refused, the write
\* thread never sleeps while a frame is queued, unless it is being notified.
THEOREM WakesForFrames ==
  ASSUME ~ WritesMayFail
  PROVE  Spec => []AsleepOnlyWhenIdle
<1>1. LinkInv => AsleepOnlyWhenIdle
  BY DEF LinkInv, NoLostWakeup
<1>2. QED
  BY <1>1, Invariance, PTL

-----------------------------------------------------------------------------
(* The bus during an exchange.                                             *)

\* A byte more in the receive buffer.
LEMMA HoldsAppend ==
  ASSUME NEW s \in Seq(Byte), NEW b \in Byte \ {"older", "unasked"},
         Timely(s), b = "latest" => ~ Holds(s)
  PROVE  /\ Timely(Append(s, b))
         /\ Holds(Append(s, b)) <=> Holds(s) \/ b = "latest"
<1>1. /\ DOMAIN s = 1 .. Len(s) /\ Len(s) \in Nat
      /\ DOMAIN Append(s, b) = 1 .. Len(s) + 1
      /\ \A i \in 1 .. Len(s) : Append(s, b)[i] = s[i]
      /\ Append(s, b)[Len(s) + 1] = b
  OBVIOUS
<1>2. QED
  BY <1>1 DEF Holds, Timely

\* The byte the decoder is done with.
LEMMA HoldsTail ==
  ASSUME NEW s \in Seq(Byte), s # <<>>, Timely(s)
  PROVE  /\ Timely(Tail(s))
         /\ Holds(Tail(s)) => Holds(s)
         /\ Head(s) = "latest" => ~ Holds(Tail(s))
         /\ Head(s) \notin {"older", "unasked"}
<1>1. /\ DOMAIN s = 1 .. Len(s) /\ Len(s) \in Nat /\ Len(s) # 0
      /\ DOMAIN Tail(s) = 1 .. Len(s) - 1
      /\ \A i \in 1 .. Len(s) - 1 : Tail(s)[i] = s[i + 1]
      /\ Head(s) = s[1]
  OBVIOUS
<1>2. QED
  BY <1>1 DEF Holds, Timely

\* What read_bytes() takes, and what it leaves.
LEMMA HoldsSplit ==
  ASSUME NEW s \in Seq(Byte), NEW n \in 1 .. Len(s), Timely(s)
  PROVE  LET first == SubSeq(s, 1, n)
             rest  == SubSeq(s, n + 1, Len(s))
         IN  /\ Timely(first) /\ Timely(rest)
             /\ Holds(first) \/ Holds(rest) => Holds(s)
             /\ Holds(rest) => ~ Holds(first)
<1> DEFINE first == SubSeq(s, 1, n)
           rest  == SubSeq(s, n + 1, Len(s))
<1>1. /\ DOMAIN s = 1 .. Len(s) /\ Len(s) \in Nat /\ n \in Nat
      /\ n \in 1 .. Len(s)
  OBVIOUS
<1>2. /\ DOMAIN first = 1 .. n
      /\ \A i \in 1 .. n : first[i] = s[i]
  BY <1>1, SubSeqProperties
<1>3. /\ DOMAIN rest = 1 .. Len(s) - n
      /\ \A i \in 1 .. Len(s) - n : rest[i] = s[n + i]
  BY <1>1, SubSeqProperties
<1> HIDE DEF first, rest
<1>4. Timely(first) /\ Timely(rest)
  <2>1. \A i \in 1 .. n : i \in DOMAIN s
    BY <1>1
  <2>2. Timely(first)
    BY <1>2, <2>1 DEF Timely
  <2>3. \A i \in 1 .. Len(s) - n : n + i \in DOMAIN s
    BY <1>1
  <2>4. \A i, j \in 1 .. Len(s) - n : n + i = n + j => i = j
    BY <1>1
  <2>5. Timely(rest)
    BY <1>3, <2>3, <2>4 DEF Timely
  <2>6. QED
    BY <2>2, <2>5
<1>5. Holds(first) \/ Holds(rest) => Holds(s)
  BY <1>1, <1>2, <1>3 DEF Holds
<1>6. Holds(rest) => ~ Holds(first)
  BY <1>1, <1>2, <1>3 DEF Timely, Holds
<1>7. QED
  BY <1>4, <1>5, <1>6 DEF first, rest

\* With no reply on its way a new request makes none an answer to an older
\* one.
LEMMA OlderSame ==
  ASSUME NEW S, NEW s \in Seq(S), ~ Holds(s)
  PROVE  Older(s) = s
BY DEF Older, Holds

\* The render loop leaves the reader's wait alone; start() with nothing late
\* finds the wire and the chunk empty.
LEMMA MainKeepsAnswers ==
  ASSUME LinkInv, AnswerInv, ~ Late, MainStarts \/ MainFinishes
  PROVE  AnswerInv'
<1>1. CASE Start
  <2>1. owed' = <<>> /\ rx' = <<>> /\ chunk' = <<>> /\ reader' = "top"
        /\ UNCHANGED <<awaiting_reply_, reply_due, bus_mutex_>>
    BY <1>1 DEF Start
  <2>2. ~ Holds(<<>>) /\ Timely(<<>>)
    BY DEF Holds, Timely
  <2>3. ~ reply_due
    BY <1>1 DEF LinkInv, Threads, Owners, AnswerInv, ReservedForReply, Start
  <2>4. QED
    BY <2>1, <2>2, <2>3 DEF AnswerInv, ReservedForReply, Dispatching
<1>2. CASE BeginWrites
  BY <1>2 DEF LinkInv, TypeOK, Owners, AnswerInv, ReservedForReply,
     Dispatching, BeginWrites
<1>3. CASE AddPending
  BY <1>3 DEF LinkInv, TypeOK, Owners, AnswerInv, ReservedForReply,
     Dispatching, AddPending
<1>4. CASE PushFrame
  BY <1>4 DEF LinkInv, TypeOK, Owners, AnswerInv, ReservedForReply,
     Dispatching, PushFrame
<1>5. CASE WritesFail
  BY <1>5 DEF LinkInv, TypeOK, Owners, AnswerInv, ReservedForReply,
     Dispatching, WritesFail
<1>6. CASE Notify
  BY <1>6 DEF LinkInv, TypeOK, Owners, AnswerInv, ReservedForReply,
     Dispatching, Notify
<1>7. CASE BuildReadRequests
  BY <1>7 DEF LinkInv, TypeOK, Owners, AnswerInv, ReservedForReply,
     Dispatching, BuildReadRequests
<1>8. CASE RenderBegin
  BY <1>8 DEF LinkInv, TypeOK, Owners, AnswerInv, ReservedForReply,
     Dispatching, RenderBegin
<1>9. CASE RenderEnd
  BY <1>9 DEF LinkInv, TypeOK, Owners, AnswerInv, ReservedForReply,
     Dispatching, RenderEnd
<1>10. CASE Stop
  BY <1>10 DEF LinkInv, TypeOK, Owners, AnswerInv, ReservedForReply,
     Dispatching, Stop
<1>11. CASE StopNotify
  BY <1>11 DEF LinkInv, TypeOK, Owners, AnswerInv, ReservedForReply,
     Dispatching, StopNotify
<1>12. CASE JoinReader
  BY <1>12 DEF LinkInv, TypeOK, Owners, AnswerInv, ReservedForReply,
     Dispatching, JoinReader
<1>13. CASE JoinWriter
  BY <1>13 DEF LinkInv, TypeOK, Owners, AnswerInv, ReservedForReply,
     Dispatching, JoinWriter
<1>14. QED
  BY <1>1, <1>2, <1>3, <1>4, <1>5, <1>6, <1>7, <1>8, <1>9, <1>10, <1>11, <1>12, <1>13
  DEF MainStarts, MainFinishes

\* The write thread takes the bus only when it is free, and returns only what
\* it took.
LEMMA WriterKeepsAnswers ==
  ASSUME LinkInv, AnswerInv, WriterStep \/ SpuriousWakeup
  PROVE  AnswerInv'
<1>1. CASE WriteTop
  BY <1>1 DEF LinkInv, TypeOK, Owners, AnswerInv, ReservedForReply,
     Dispatching, WriteTop
<1>2. CASE LockQueue
  BY <1>2 DEF LinkInv, TypeOK, Owners, AnswerInv, ReservedForReply,
     Dispatching, LockQueue
<1>3. CASE TestPredicate
  BY <1>3 DEF LinkInv, TypeOK, Owners, AnswerInv, ReservedForReply,
     Dispatching, TestPredicate
<1>4. CASE Block
  BY <1>4 DEF LinkInv, TypeOK, Owners, AnswerInv, ReservedForReply,
     Dispatching, Block
<1>5. CASE TakeFrame
  BY <1>5 DEF LinkInv, TypeOK, Owners, AnswerInv, ReservedForReply,
     Dispatching, TakeFrame
<1>6. CASE TakeBreak
  BY <1>6 DEF LinkInv, TypeOK, Owners, AnswerInv, ReservedForReply,
     Dispatching, TakeBreak
<1>7. CASE LockBusForWrite
  BY <1>7 DEF LinkInv, TypeOK, Owners, AnswerInv, ReservedForReply,
     Dispatching, LockBusForWrite
<1>8. CASE SendFrame
  BY <1>8 DEF LinkInv, TypeOK, Owners, AnswerInv, ReservedForReply,
     Dispatching, SendFrame
<1>9. CASE CountSent
  BY <1>9 DEF LinkInv, TypeOK, Owners, AnswerInv, ReservedForReply,
     Dispatching, CountSent
<1>10. CASE SpuriousWakeup
  BY <1>10 DEF LinkInv, TypeOK, Owners, AnswerInv, ReservedForReply,
     Dispatching, SpuriousWakeup
<1>11. QED
  BY <1>1, <1>2, <1>3, <1>4, <1>5, <1>6, <1>7, <1>8, <1>9, <1>10 DEF
     WriterStep

\* The device answers the one request it has, or does not.
LEMMA DeviceKeepsAnswers ==
  ASSUME LinkInv, AnswerInv, ~ Unsolicited,
         DeviceSends \/ DeviceForgets \/ DeviceStreams
  PROVE  AnswerInv'
<1>1. CASE DeviceSends
  <2>1. owed = <<"latest">> /\ ~ Holds(rx) /\ ~ Holds(chunk)
        /\ rx \in Seq(Byte)
    BY <1>1 DEF DeviceSends, AnswerInv, LinkInv, TypeOK
  <2>2. /\ awaiting_reply_ /\ ~ Dispatching
        /\ UNCHANGED <<readerVars, bus_mutex_, history>>
    BY <1>1, <2>1 DEF DeviceSends, AnswerInv
  <2>3. Head(owed) = "latest" /\ Tail(owed) = <<>>
    BY <2>1
  <2>4. PICK b \in {"part", "bad", "latest"} :
          /\ rx' = Append(rx, b)
          /\ owed' \in {owed, <<>>}
          /\ b = "latest" => owed' = <<>>
    BY <1>1, <2>3 DEF DeviceSends
  <2>5. /\ Timely(rx')
        /\ Holds(rx') <=> b = "latest"
    BY <2>1, <2>4, HoldsAppend DEF AnswerInv, Byte, Reply
  <2>6. owed' # <<>> => ~ Holds(rx')
    BY <2>1, <2>4, <2>5
  <2>7. QED
    BY <2>1, <2>2, <2>4, <2>5, <2>6
    DEF AnswerInv, ReservedForReply, Dispatching
<1>2. CASE DeviceForgets
  <2>1. owed = <<"latest">>
    BY <1>2 DEF DeviceForgets, AnswerInv
  <2>2. Tail(owed) = <<>>
    BY <2>1
  <2>3. QED
    BY <1>2, <2>2
    DEF AnswerInv, ReservedForReply, Dispatching, DeviceForgets
<1>3. CASE DeviceStreams
  BY <1>3 DEF DeviceStreams
<1>4. QED
  BY <1>1, <1>2, <1>3

\* The reader: a reply that is in ends the wait, and the next request goes out
\* only when no reply can be on its way.
LEMMA ReaderKeepsAnswers ==
  ASSUME LinkInv, AnswerInv, ~ Late, ReaderStep
  PROVE  AnswerInv'
<1>1. CASE ReadTop
  BY <1>1 DEF LinkInv, TypeOK, Owners, AnswerInv, ReservedForReply,
     Dispatching, ReadTop
<1>2. CASE ReadExit
  BY <1>2 DEF LinkInv, TypeOK, Owners, AnswerInv, ReservedForReply,
     Dispatching, ReadExit
<1>3. CASE ReadChunk
  <2>1. /\ rx \in Seq(Byte) /\ Timely(rx)
        /\ UNCHANGED <<owed, awaiting_reply_, reply_due, bus_mutex_>>
        /\ reader' = "bytes" /\ chunk = <<>>
    BY <1>3 DEF ReadChunk, LinkInv, TypeOK, AnswerInv
  <2>2. PICK n \in 1 .. Len(rx) :
          /\ chunk' = SubSeq(rx, 1, n)
          /\ rx' = SubSeq(rx, n + 1, Len(rx))
    BY <1>3 DEF ReadChunk
  <2>3. /\ Timely(chunk') /\ Timely(rx')
        /\ Holds(chunk') \/ Holds(rx') => Holds(rx)
        /\ Holds(rx') => ~ Holds(chunk')
    BY <2>1, <2>2, HoldsSplit
  <2>4. QED
    BY <2>1, <2>3 DEF AnswerInv, ReservedForReply, Dispatching
<1>4. CASE ReadNothing
  BY <1>4 DEF LinkInv, TypeOK, Owners, AnswerInv, ReservedForReply,
     Dispatching, ReadNothing
<1>5. CASE ReadIdle
  BY <1>5 DEF AnswerInv, ReservedForReply, Dispatching, ReadIdle, Idle
<1>6. CASE ReadTimeout
  <2>1. /\ chunk = <<>> /\ rx = <<>> /\ reader' = "dispatch" /\ ~ reply_due'
        /\ UNCHANGED <<chunk, rx, owed, awaiting_reply_>>
    BY <1>6 DEF AnswerInv, ReadTimeout, Idle
  <2>2. owed = <<>>
    BY <1>6 DEF AnswerInv, ReadTimeout
  <2>3. ~ Holds(<<>>)
    BY DEF Holds
  <2>4. QED
    BY <2>1, <2>2, <2>3 DEF AnswerInv, ReservedForReply, Dispatching
<1>7. CASE LockBus
  BY <1>7 DEF LinkInv, TypeOK, Owners, AnswerInv, ReservedForReply,
     Dispatching, LockBus
<1>8. CASE Decode
  <2>1. /\ chunk \in Seq(Byte) /\ chunk # <<>> /\ Timely(chunk)
        /\ UNCHANGED <<owed, rx, awaiting_reply_, reply_due, bus_mutex_>>
    BY <1>8 DEF Decode, LinkInv, TypeOK, AnswerInv
  <2>2. Head(chunk) \in Byte
    BY <2>1, HeadTailProperties
  <2>3. /\ reader' \in {"bytes", "framed", "parse"}
        /\ reader' = "parse" => Head(chunk) \in Reply /\ chunk' = chunk
    BY <1>8, <2>2 DEF Decode, Byte, Reply
  <2>4. Timely(chunk') /\ (Holds(chunk') => Holds(chunk))
    BY <1>8, <2>1, HoldsTail DEF Decode
  <2>5. QED
    BY <2>1, <2>3, <2>4 DEF AnswerInv, ReservedForReply, Dispatching
<1>9. CASE ChunkDone
  BY <1>9 DEF LinkInv, TypeOK, Owners, AnswerInv, ReservedForReply,
     Dispatching, ChunkDone
<1>10. CASE ParseLock
  BY <1>10 DEF LinkInv, TypeOK, Owners, AnswerInv, ReservedForReply,
     Dispatching, ParseLock
<1>11. CASE ParseReject
  <2>1. Timely(Tail(chunk)) /\ (Holds(Tail(chunk)) => Holds(chunk))
    BY <1>11, HoldsTail DEF ParseReject, LinkInv, TypeOK, Work, AnswerInv
  <2>2. QED
    BY <1>11, <2>1 DEF AnswerInv, ReservedForReply, Dispatching, ParseReject
<1>12. CASE ParseAccept
  <2>1. /\ Timely(Tail(chunk)) /\ Head(chunk) = "latest"
        /\ ~ Holds(Tail(chunk))
    BY <1>12, HoldsTail
    DEF ParseAccept, LinkInv, TypeOK, Work, AnswerInv, Reply
  <2>2. Holds(chunk)
    <3>1. chunk \in Seq(Byte) /\ chunk # <<>>
      BY <1>12 DEF ParseAccept, LinkInv, TypeOK, Work
    <3>2. 1 \in DOMAIN chunk /\ chunk[1] = Head(chunk)
      BY <3>1
    <3>3. QED
      BY <2>1, <3>2 DEF Holds
  <2>3. owed = <<>> /\ ~ Holds(rx)
    BY <2>2 DEF AnswerInv
  <2>4. QED
    BY <1>12, <2>1, <2>3
    DEF AnswerInv, ReservedForReply, Dispatching, ParseAccept
<1>13. CASE Callback
  BY <1>13 DEF LinkInv, TypeOK, Owners, AnswerInv, ReservedForReply,
     Dispatching, Callback
<1>14. CASE FrameDone
  BY <1>14 DEF LinkInv, TypeOK, Owners, AnswerInv, ReservedForReply,
     Dispatching, FrameDone
<1>15. CASE CheckPending
  BY <1>15 DEF LinkInv, TypeOK, Owners, AnswerInv, ReservedForReply,
     Dispatching, CheckPending
<1>16. CASE NothingToRequest
  BY <1>16 DEF LinkInv, TypeOK, Owners, AnswerInv, ReservedForReply,
     Dispatching, NothingToRequest
<1>17. CASE PickRequest
  BY <1>17 DEF LinkInv, TypeOK, Owners, AnswerInv, ReservedForReply,
     Dispatching, PickRequest
<1>18. CASE Relock
  BY <1>18 DEF LinkInv, TypeOK, Owners, AnswerInv, ReservedForReply,
     Dispatching, Relock
<1>19. CASE SendRequest
  <2>1. /\ owed = <<>> /\ ~ Holds(rx) /\ ~ Holds(chunk)
        /\ rx \in Seq(Byte) /\ chunk \in Seq(Byte)
        /\ bus_mutex_ = "reader" /\ return_to \in {"top", "bytes"}
    BY <1>19 DEF SendRequest, LinkInv, TypeOK, Owners, AnswerInv, Dispatching
  <2>2. Older(rx) = rx /\ Older(chunk) = chunk
    BY <2>1, OlderSame
  <2>3. Older(owed) = <<>> /\ Append(<<>>, "latest") = <<"latest">>
    BY <2>1 DEF Older
  <2>4. /\ owed' \in {<<>>, <<"latest">>} /\ UNCHANGED <<rx, chunk>>
        /\ reader' = return_to /\ awaiting_reply_' /\ bus_mutex_' = "reader"
    BY <1>19, <2>1, <2>2, <2>3 DEF SendRequest
  <2>5. return_to = "top" => chunk = <<>>
    BY <1>19 DEF SendRequest, AnswerInv, Dispatching
  <2>6. QED
    BY <2>1, <2>4, <2>5 DEF AnswerInv, ReservedForReply, Dispatching
<1>20. QED
  BY <1>1, <1>2, <1>3, <1>4, <1>5, <1>6, <1>7, <1>8, <1>9, <1>10, <1>11,
     <1>12, <1>13, <1>14, <1>15, <1>16, <1>17, <1>18, <1>19 DEF ReaderStep

\* dartt_link.cpp:562-564: from sending a request until its reply is in, or it
\* is given up, the bus stays with the read thread, if the device answers
\* within the timeout or not at all, and only when asked.  Without either
\* hypothesis it does not hold.
THEOREM BusStaysReserved ==
  ASSUME ~ Late, ~ Unsolicited
  PROVE  Spec => []ReservedForReply
<1>1. Init => AnswerInv
  <2>1. ~ Holds(<<>>) /\ Timely(<<>>)
    BY DEF Holds, Timely
  <2>2. QED
    BY <2>1 DEF Init, AnswerInv, ReservedForReply, Dispatching
<1>2. LinkInv /\ AnswerInv /\ [Next]_vars => AnswerInv'
  <2>1. SUFFICES ASSUME LinkInv, AnswerInv, [Next]_vars
                 PROVE  AnswerInv'
    OBVIOUS
  <2>2. CASE Next
    BY <2>1, <2>2, MainKeepsAnswers, ReaderKeepsAnswers, WriterKeepsAnswers,
       DeviceKeepsAnswers DEF Next
  <2>3. CASE UNCHANGED vars
    BY <2>1, <2>3 DEF AnswerInv, ReservedForReply, Dispatching
  <2>4. QED
    BY <2>1, <2>2, <2>3
<1>3. AnswerInv => ReservedForReply
  BY DEF AnswerInv
<1>4. QED
  BY <1>1, <1>2, <1>3, Invariance, PTL DEF Spec

=============================================================================
