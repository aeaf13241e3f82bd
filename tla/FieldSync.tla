----------------------------- MODULE FieldSync -----------------------------
(***************************************************************************)
(* The life of a field's value between the user, the dashboard and the     *)
(* peripheral.  The main loop (main.cpp) turns the edits of one frame into *)
(* write frames in the next; the read thread copies each reply into        *)
(* periph_buf and, in on_read_reply(), from there into the fields, except  *)
(* those whose edit has not been sent; the peripheral applies writes,      *)
(* answers requests and changes its variables itself.                      *)
(*                                                                         *)
(* Memory is a function from byte offsets to values, a chunk is the set of *)
(* words it moves, and the cutting of field lists into regions and chunks, *)
(* which module Regions follows step by step, is given by its result.  The *)
(* link is reduced to what it promises: writes go out in order, one        *)
(* request is outstanding at a time (module DarttLink).  Reads and writes  *)
(* are cut alike here; in the code each has its own chunk size.  An edit   *)
(* is the frame that ends it, where ImGui assigns the typed value and the  *)
(* handler raises the flag; base_offset is 0.                              *)
(***************************************************************************)
EXTENDS Integers, Sequences, FiniteSetsExt, SequencesExt

CONSTANTS Fields, Off, Size,   \* the leaves, their byte_offset and nbytes
          Word,                \* bytes in a word (4)
          ChunkWords,          \* words in a full chunk (14)
          BufferSize,          \* size of ctl_buf, periph_buf and the block
          Subscribed,          \* the fields of config.subscribed_list
          Scaled,              \* the fields with use_display_scale
          Val,                 \* what a byte may hold; 0 after calloc
          MaxEdits, MaxChanges, MaxLosses   \* bounds

ASSUME LayoutAssumption ==
  /\ Word \in Nat \ {0} /\ ChunkWords \in Nat \ {0} /\ BufferSize \in Nat
  /\ Off \in [Fields -> Nat] /\ Size \in [Fields -> Nat \ {0}]
  /\ \A f \in Fields : Off[f] + Size[f] <= BufferSize
  /\ Subscribed \subseteq Fields /\ Scaled \subseteq Fields
  /\ 0 \in Val

VARIABLES main,        \* the main loop: "collect", "write", "clear", "render"
          todo,        \* regions of this frame's write_queue still to do
          sent,        \* the last enqueue_writes() returned success
          value,       \* DarttField::value, by field
          dirty,       \* the fields with state.dirty
          ctl, periph, \* ctl_buf and periph_buf
          tx,          \* tx_queue_: write frames in order
          next,        \* read_request_index_
          wire,        \* the request or reply under way
          reader,      \* the read thread: "read" or "callback"
          device,      \* the peripheral's block
          typed,       \* history: what the user typed, by field, the last at the end
          held,        \* history: the values a field had on the device
          edits, changes, losses

mainVars   == <<main, todo, sent>>
fieldVars  == <<value, dirty, typed>>
linkVars   == <<next, wire, reader>>
countVars  == <<edits, changes, losses>>

vars == <<mainVars, fieldVars, ctl, periph, tx, linkVars, device, held, countVars>>

Buffer == 0 .. BufferSize - 1
BytesOf(f) == Off[f] .. Off[f] + Size[f] - 1
Part(memory, f) == [b \in BytesOf(f) |-> memory[b]]
Uniform(f, v) == [b \in BytesOf(f) |-> v]

\* Memory with some of its bytes replaced.
Patched(memory, bytes) == [b \in DOMAIN memory |->
                             IF b \in DOMAIN bytes THEN bytes[b] ELSE memory[b]]

-----------------------------------------------------------------------------
WordsOf(F)   == {b \div Word : b \in UNION {BytesOf(f) : f \in F}}
BytesIn(c)   == {b \in 0 .. Word * (BufferSize + 1) : b \div Word \in c}

Runs(W) == {lo .. hi : lo \in W, hi \in W}

\* The regions of a set of fields: maximal runs of the words they touch.
RegionsOf(F) ==
  LET W == WordsOf(F)
  IN  {r \in Runs(W) :
         r # {} /\ r \subseteq W /\ Min(r) - 1 \notin W /\ Max(r) + 1 \notin W}

First(rs) == CHOOSE r \in rs : \A s \in rs : Min(r) <= Min(s)

\* Mutation of ChunksOf: every word travels alone.
ChunksOfOne(r) == [n \in 1 .. Cardinality(r) |-> {Min(r) + n - 1}]

\* A region cut into chunks of ChunkWords words and a rest.
ChunksOf(r) ==
  [n \in 1 .. (Cardinality(r) + ChunkWords - 1) \div ChunkWords |->
     {w \in r : (w - Min(r)) \div ChunkWords = n - 1}]

\* The chunks of a region in front of the first that the bounds check refuses.
InBuffer(c) == BytesIn(c) \subseteq Buffer
Refused(r)  == {n \in DOMAIN ChunksOf(r) : ~InBuffer(ChunksOf(r)[n])}
Accepted(r) == IF Refused(r) = {} THEN ChunksOf(r)
               ELSE SubSeq(ChunksOf(r), 1, Min(Refused(r)) - 1)

\* read_request_list_: one request per chunk of the subscribed regions.
Requests == FlattenSeq([n \in 1 .. Cardinality(RegionsOf(Subscribed)) |->
              Accepted(SetToSortSeq(RegionsOf(Subscribed),
                                    LAMBDA r, s : Min(r) < Min(s))[n])])

NoMessage == [kind |-> "none"]

Init ==
  /\ main = "collect" /\ todo = {} /\ sent = TRUE
  /\ value = [f \in Fields |-> Uniform(f, 0)] /\ dirty = {}
  /\ ctl = [b \in Buffer |-> 0] /\ periph = [b \in Buffer |-> 0]
  /\ tx = <<>> /\ next = 1 /\ wire = NoMessage /\ reader = "read"
  /\ device \in {[b \in Buffer |-> v] : v \in Val}
  /\ typed = [f \in Fields |-> <<>>]
  /\ held = [f \in Fields |-> {Part(device, f), Uniform(f, 0)}]
  /\ edits = 0 /\ changes = 0 /\ losses = 0

-----------------------------------------------------------------------------
\* The main loop, one frame after another.

\* collect_dirty_fields() and build_write_queue().
CollectDirty ==
  /\ main = "collect"
  /\ todo' = RegionsOf(dirty)
  /\ main' = IF dirty = {} THEN "render" ELSE "write"
  /\ UNCHANGED <<sent, fieldVars, ctl, periph, tx, linkVars, device, held, countVars>>

\* The fields whose value goes into the region: the dirty ones, only.
Synced(r) == {f \in dirty : WordsOf({f}) \subseteq r}

\* Mutation of SyncToCtl: enqueue_writes() runs before the values are copied.
SyncNothing(r) == ctl

\* sync_fields_to_ctl_buf().
SyncToCtl(r) ==
  [b \in Buffer |->
     IF \E f \in Synced(r) : b \in BytesOf(f)
     THEN value[CHOOSE f \in Synced(r) : b \in BytesOf(f)][b]
     ELSE ctl[b]]

\* One region: its fields go into ctl_buf, its words from there into frames.
EnqueueRegion ==
  /\ main = "write"
  /\ LET r == First(todo)
         ctl_buf == SyncToCtl(r)
         frames == [n \in DOMAIN Accepted(r) |->
                      [b \in BytesIn(Accepted(r)[n]) |-> ctl_buf[b]]]
     IN  /\ ctl' = ctl_buf
         /\ tx' = tx \o frames
         /\ sent' = (Len(Accepted(r)) = Len(ChunksOf(r)))
  /\ main' = "clear"
  /\ UNCHANGED <<todo, fieldVars, periph, linkVars, device, held, countVars>>

\* clear_dirty_flags(), unless enqueue_writes() failed.
ClearDirty ==
  /\ main = "clear"
  /\ dirty' = IF sent THEN dirty \ Synced(First(todo)) ELSE dirty
  /\ todo' = todo \ {First(todo)}
  /\ main' = IF todo' = {} THEN "render" ELSE "write"
  /\ UNCHANGED <<sent, value, typed, ctl, periph, tx, linkVars, device, held, countVars>>

\* The fields a frame leaves dirty when it shows the rows of "shown" and the
\* user ends the edit of those in "edited".  Without display scaling the flag
\* is assigned on every frame the row is shown; with it, it is only ever set.
StillDirty(shown, edited) == (dirty \ (shown \ Scaled)) \cup edited

\* render_live_expressions() under periph_buf_mutex, with at most one edit.
RenderUI ==
  /\ main = "render"
  /\ \E shown \in SUBSET Fields : \E edited \in {{}} \cup {{f} : f \in shown} :
       \E v \in Val :
         /\ edited # {} => edits < MaxEdits
         /\ value' = [f \in Fields |-> IF f \in edited THEN Uniform(f, v) ELSE value[f]]
         /\ typed' = [f \in Fields |-> IF f \in edited THEN Append(typed[f], Uniform(f, v)) ELSE typed[f]]
         /\ dirty' = StillDirty(shown, edited)
         /\ edits' = edits + Cardinality(edited)
  /\ main' = "collect"
  /\ UNCHANGED <<todo, sent, ctl, periph, tx, linkVars, device, held, changes, losses>>

MainStep == CollectDirty \/ EnqueueRegion \/ ClearDirty \/ RenderUI

-----------------------------------------------------------------------------
\* The link.

HeldNow(memory) == [f \in Fields |-> held[f] \cup {Part(memory, f)}]

\* The write thread sends a frame and the peripheral applies it.
SendWrite ==
  /\ tx # <<>>
  /\ device' = Patched(device, Head(tx))
  /\ tx' = Tail(tx)
  /\ held' = HeldNow(device')
  /\ UNCHANGED <<mainVars, fieldVars, ctl, periph, linkVars, countVars>>

\* Mutation of SendRequest: the index is not advanced.
SendSameRequest ==
  /\ reader = "read" /\ wire = NoMessage
  /\ Requests # <<>>
  /\ wire' = [kind |-> "request", chunk |-> Requests[next]]
  /\ UNCHANGED <<mainVars, fieldVars, ctl, periph, tx, next, reader, device, held, countVars>>

\* dispatch_read_requests().
SendRequest ==
  /\ reader = "read" /\ wire = NoMessage
  /\ Requests # <<>>
  /\ wire' = [kind |-> "request", chunk |-> Requests[next]]
  /\ next' = (next % Len(Requests)) + 1
  /\ UNCHANGED <<mainVars, fieldVars, ctl, periph, tx, reader, device, held, countVars>>

\* The peripheral answers with what the words hold now.
Answer ==
  /\ wire.kind = "request"
  /\ wire' = [kind |-> "reply", chunk |-> wire.chunk,
              bytes |-> [b \in BytesIn(wire.chunk) |-> device[b]]]
  /\ UNCHANGED <<mainVars, fieldVars, ctl, periph, tx, next, reader, device, held, countVars>>

\* A request or a reply is lost, and the timeout lets the next one go.
Lose ==
  /\ wire # NoMessage /\ reader = "read"
  /\ losses < MaxLosses
  /\ losses' = losses + 1
  /\ wire' = NoMessage
  /\ UNCHANGED <<mainVars, fieldVars, ctl, periph, tx, next, reader, device, held, edits, changes>>

\* process_frame() up to the callback: dartt_parse_read_reply() into periph_buf.
ParseReply ==
  /\ reader = "read" /\ wire.kind = "reply"
  /\ periph' = Patched(periph, wire.bytes)
  /\ reader' = "callback"
  /\ UNCHANGED <<mainVars, fieldVars, ctl, tx, next, wire, device, held, countVars>>

\* Mutation of UpdatedBy: the dirty flag is not looked at.
UpdatedEvenDirty(c) == {f \in Subscribed : Off[f] \in BytesIn(c)}

\* The fields on_read_reply() refreshes: those that start in the reply.
UpdatedBy(c) == {f \in Subscribed \ dirty : Off[f] \in BytesIn(c)}

\* on_read_reply() with periph_buf_mutex.
Callback ==
  /\ reader = "callback"
  /\ value' = [f \in Fields |-> IF f \in UpdatedBy(wire.chunk) THEN Part(periph, f)
                                                              ELSE value[f]]
  /\ reader' = "read" /\ wire' = NoMessage
  /\ UNCHANGED <<mainVars, dirty, typed, ctl, periph, tx, next, device, held, countVars>>

\* on_read_reply() when try_lock() fails: the main loop renders, or it fails
\* for no reason, as it may.
CallbackSkips ==
  /\ reader = "callback"
  /\ reader' = "read" /\ wire' = NoMessage
  /\ UNCHANGED <<mainVars, fieldVars, ctl, periph, tx, next, device, held, countVars>>

ReaderStep == SendRequest \/ Lose \/ ParseReply \/ Callback \/ CallbackSkips

\* The peripheral's own program assigns a variable.
DeviceChange ==
  /\ changes < MaxChanges
  /\ \E f \in Fields, v \in Val :
       device' = Patched(device, Uniform(f, v))
  /\ held' = HeldNow(device')
  /\ changes' = changes + 1
  /\ UNCHANGED <<mainVars, fieldVars, ctl, periph, tx, linkVars, edits, losses>>

Next == MainStep \/ SendWrite \/ ReaderStep \/ Answer \/ DeviceChange

Spec == Init /\ [][Next]_vars

\* Each thread keeps running, the peripheral answers, and on_read_reply() gets
\* the lock again and again for each request of the list: the main loop holds
\* it only while it renders, and the two threads' periods are unrelated.
FairSpec ==
  /\ Spec
  /\ WF_vars(MainStep) /\ WF_vars(SendWrite)
  /\ WF_vars(SendRequest) /\ WF_vars(Answer) /\ WF_vars(ParseReply)
  /\ WF_vars(CallbackSkips)
  /\ \A c \in ToSet(Requests) : SF_vars(Callback /\ wire.chunk = c)

-----------------------------------------------------------------------------
\* The type invariant.
Content(f) == [BytesOf(f) -> Val]

TypeOK ==
  /\ main \in {"collect", "write", "clear", "render"}
  /\ \A r \in todo : r # {} /\ r \subseteq WordsOf(Fields)
  /\ sent \in BOOLEAN
  /\ \A f \in Fields : value[f] \in Content(f) /\ typed[f] \in Seq(Content(f))
  /\ dirty \subseteq Fields
  /\ ctl \in [Buffer -> Val] /\ periph \in [Buffer -> Val] /\ device \in [Buffer -> Val]
  /\ \A n \in DOMAIN tx : DOMAIN tx[n] \subseteq Buffer
  /\ next = 1 \/ next \in DOMAIN Requests
  /\ reader \in {"read", "callback"}
  /\ wire.kind \in {"none", "request", "reply"}
  /\ reader = "callback" => wire.kind = "reply"

\* A reply never overwrites what the user typed before it has been put into
\* a write frame, whatever the order of the two threads' steps (main.cpp:90-93
\* against 410-426).
EditSurvives == \A f \in dirty : value[f] = Last(typed[f])

\* What a subscribed field shows was at some time the field's value on the
\* peripheral, or typed by the user: never a half of one and a half of
\* another (docs/DataLogger.md:8, main.cpp:85-98).
NotTorn ==
  \A f \in Subscribed : value[f] \in held[f] \cup ToSet(typed[f])

\* Writing changes a variable of the peripheral only to what the user typed
\* for it (config.h:130, main.cpp:413-426).
OnlyEditsWritten ==
  [][changes' = changes =>
       \A f \in Fields : Part(device', f) # Part(device, f) =>
                         Part(device', f) \in ToSet(typed[f])]_vars

\* Every edit the main loop finds at the head of a frame reaches the
\* peripheral (docs/usage.md:25).
EditArrives ==
  \A f \in Fields : \A v \in Val :
    (main = "collect" /\ f \in dirty /\ value[f] = Uniform(f, v))
      ~> (Part(device, f) = Uniform(f, v))

\* Once nobody edits and the peripheral's variables rest, every subscribed
\* field shows what the peripheral holds, whatever replies were lost, or
\* sampled before a write and applied after it.
Converges ==
  <>[](\A f \in Subscribed : value[f] = Part(device, f))
=============================================================================
