------------------------------ MODULE Recorder ------------------------------
(***************************************************************************)
(* From a reply to a sound file: the reply callback scales the subscribed  *)
(* fields for display and records what is displayed (main.cpp), the user   *)
(* edits values through their scales and starts and closes the recording   *)
(* (ui.cpp), WavWriter (wav_writer.cpp) keeps the samples and writes them  *)
(* out through dr_wav.h when the recording is closed.                      *)
(*                                                                         *)
(* The callback and the window exclude each other by periph_buf_mutex, so  *)
(* WavWriter's own mutex is never contended; while the file is written     *)
(* the window holds the lock and replies are not recorded.  A sample       *)
(* stands for display_value / 32767 * 100.  The frame counter and the      *)
(* clock, on which only the sample rate in the header depends, are left    *)
(* out.                                                                    *)
(***************************************************************************)
EXTENDS DisplayScale, Sequences, SequencesExt

CONSTANTS
  Leaves,       \* subscribed_list, in order
  Edited,       \* the leaves whose rows the user edits
  TypeOf,       \* the type of each leaf; "enum" has no display value
  Received,     \* the values the peripheral may report
  Typed,        \* the numbers the user may type into a scaled box
  Scales,       \* the display scales the user may type
  DiskRoom,     \* the bytes a new file may have room for, one chosen per file
  MaxSize,      \* the largest number a size field holds
  MaxSamples    \* bound

Fields == Range(Leaves)
One    == Unit   \* a scale of 1

ASSUME RecorderAssumption ==
  /\ Leaves \in Seq(Fields) /\ IsInjective(Leaves) /\ Edited \subseteq Fields
  /\ \A f \in Fields : Received[f] \subseteq Ranges[TypeOf[f]]
  /\ One \in Scales
  /\ {MaxSize, MaxSamples} \subseteq Nat /\ DiskRoom \subseteq Nat

\* drwav_init_write__internal(): what each write of the header takes, up to and
\* with the data chunk's size.
Tag == 4
U32 == 4
U16 == 2
RiffHeader  == Tag + U32 + Tag
FmtChunk    == Tag + U32 + U16 + U16 + U32 + U32 + U16 + U16
DataHeader  == Tag + U32
HeaderBytes == RiffHeader + FmtChunk + DataHeader
SampleBytes == 4

NoFile == [len |-> 0, riff |-> 0, data |-> 0, samples |-> <<>>, cut |-> FALSE]

VARIABLES
  value, display_value, display_scale, use_display_scale,  \* of each field
  dirty,         \* the fields with an edit that is not queued yet
  open_, samples_,
  at,            \* "ui", the step of drwav that close() has come to, "unopened", "ended"
  wav,           \* the drwav object and its FILE
  file,          \* output.wav as it was last closed
  recording,     \* history: Start was clicked, Close was not
  heard          \* history: what the replies since Start reported, as displayed

display == <<value, display_value, display_scale, use_display_scale, dirty>>
tape    == <<open_, samples_, recording, heard>>
vars    == <<display, tape, at, wav, file>>

\* The steps of close(), in order.
Steps == {"header", "frames", "pad", "riff", "data"}

NoWav == [room |-> 0, taken |-> 0, riff |-> 0, dataChunkDataSize |-> 0, dataChunkDataPos |-> 0]

Init ==
  /\ value = [f \in Fields |-> 0] /\ display_value = [f \in Fields |-> 0]
  /\ display_scale = [f \in Fields |-> One]
  /\ use_display_scale = [f \in Fields |-> FALSE]
  /\ dirty = {}
  /\ open_ = FALSE /\ samples_ = <<>>
  /\ at = "ui" /\ wav = NoWav /\ file = NoFile
  /\ recording = FALSE /\ heard = <<>>

----------------------------------------------------------------------------
(* The read thread's callback.                                             *)

\* calculate_display_value() has no case for ENUM.
DisplayOf(f, v) ==
  IF TypeOf[f] = "enum" THEN display_value[f] ELSE Displayed(TypeOf[f], v, display_scale[f])

Place(f) == CHOOSE i \in DOMAIN Leaves : Leaves[i] = f

\* Some of the leaves, in the order of subscribed_list.
InOrder(F) ==
  {list \in SeqOf(F, Len(Leaves)) :
     /\ Range(list) = F
     /\ \A i, j \in DOMAIN list : i < j => Place(list[i]) < Place(list[j])}

\* Mutation of Written: the test of open_ the wrong way round.
WrittenWhenClosed(more) == IF open_ THEN samples_ ELSE samples_ \o more

\* write_sample(), of each sample in turn: a writer that is closed drops it.
Written(more) == IF open_ THEN samples_ \o more ELSE samples_

\* History: a reported value as the scale of then displays it.
Noted(f, v) == Displayed(TypeOf[f], v, display_scale[f])

\* on_read_reply(): the leaves in the reply's window that are not being
\* edited, in the list's order.
Reply ==
  /\ at = "ui"
  /\ open_ => Len(samples_) + Len(Leaves) <= MaxSamples
  /\ \E window \in SUBSET Fields \ {{}}, reported \in [Fields -> UNION {Received[f] : f \in Fields}] :
       LET updated == window \ dirty
           shown == [f \in Fields |-> IF f \in updated THEN DisplayOf(f, reported[f]) ELSE display_value[f]]
       IN /\ \A f \in Fields : reported[f] \in IF f \in updated THEN Received[f] ELSE {value[f]}
          /\ value' = [f \in Fields |-> IF f \in updated THEN reported[f] ELSE value[f]]
          /\ display_value' = shown
          /\ \E list \in InOrder(updated) :
               /\ samples_' = Written([i \in DOMAIN list |-> shown[list[i]]])
               /\ heard' = IF recording
                           THEN heard \o [i \in DOMAIN list |-> Noted(list[i], reported[list[i]])]
                           ELSE heard
  /\ UNCHANGED <<display_scale, use_display_scale, dirty, open_, recording, at, wav, file>>

----------------------------------------------------------------------------
(* The field's row in the window: *_field_handler(), the scale's box.      *)

\* What the scaled box shows when it is not being edited.
Shown(f) == Text(display_value[f])

\* An edit of the scaled box that ends.
EditScaled(f, typed) ==
  /\ at = "ui" /\ use_display_scale[f]
  /\ display_value' = [display_value EXCEPT ![f] = typed]
  /\ \E v \in Stored(TypeOf[f], typed, display_scale[f]) : value' = [value EXCEPT ![f] = v]
  /\ dirty' = dirty \union {f}
  /\ UNCHANGED <<display_scale, use_display_scale, tape, at, wav, file>>

\* An edit of the plain box: the value itself.
EditPlain(f, v) ==
  /\ at = "ui" /\ ~use_display_scale[f]
  /\ value' = [value EXCEPT ![f] = v] /\ dirty' = dirty \union {f}
  /\ UNCHANGED <<display_value, display_scale, use_display_scale, tape, at, wav, file>>

\* Main queues the edit as a write and clears the flag.
Queue(f) ==
  /\ at = "ui" /\ f \in dirty /\ dirty' = dirty \ {f}
  /\ UNCHANGED <<value, display_value, display_scale, use_display_scale, tape, at, wav, file>>

ClickUseScale(f) ==
  /\ at = "ui" /\ use_display_scale' = [use_display_scale EXCEPT ![f] = ~@]
  /\ UNCHANGED <<value, display_value, display_scale, dirty, tape, at, wav, file>>

\* The shown value is not computed again before the next reply.
EditScale(f, scale) ==
  /\ at = "ui" /\ display_scale' = [display_scale EXCEPT ![f] = scale]
  /\ UNCHANGED <<value, display_value, use_display_scale, dirty, tape, at, wav, file>>

----------------------------------------------------------------------------
(* Loads, and the recording's buttons.                           *)

\* config = DarttConfig() while a recording may be open.
LoadConfig ==
  /\ at = "ui"
  /\ value' = [f \in Fields |-> 0] /\ display_value' = [f \in Fields |-> 0]
  /\ display_scale' = [f \in Fields |-> One]
  /\ use_display_scale' = [f \in Fields |-> FALSE]
  /\ dirty' = {}
  /\ UNCHANGED <<tape, at, wav, file>>

StartWav ==
  /\ at = "ui" /\ ~open_ /\ open_' = TRUE /\ samples_' = <<>>
  /\ recording' = TRUE /\ heard' = <<>>
  /\ UNCHANGED <<display, at, wav, file>>

\* close(): drwav_init_file_write() opens the file and truncates it, or cannot.
CloseWav ==
  /\ at = "ui" /\ open_ /\ open_' = FALSE /\ recording' = FALSE
  /\ \/ /\ at' = "header"
        /\ \E room \in DiskRoom : wav' = [NoWav EXCEPT !.room = room]
     \/ at' = "unopened" /\ UNCHANGED wav
  /\ UNCHANGED <<display, samples_, heard, file>>

\* The samples are given up, the old file stays.
CloseFails ==
  /\ at = "unopened" /\ at' = "ui" /\ samples_' = <<>> /\ heard' = <<>>
  /\ UNCHANGED <<display, open_, recording, wav, file>>

\* fwrite(): the bytes the FILE may take of n: all, as its buffer may take what
\* the disk then has no room for, or as many as there is room for.
Taken(n) ==
  LET left == IF wav.taken < wav.room THEN wav.room - wav.taken ELSE 0
  IN IF n <= left THEN {n} ELSE {n, left}

\* fseek() writes the buffer out first, and fails if that fails.
Seeks == wav.taken <= wav.room

\* drwav_init_write__internal(): sizes as of an empty file, to be patched;
\* dataChunkDataPos is the sum of what the writes returned.
Header ==
  /\ at = "header" /\ at' = "frames"
  /\ \E written \in Taken(HeaderBytes) :
       wav' = [wav EXCEPT !.taken = written, !.dataChunkDataPos = written,
                          !.riff = IF written >= 8 THEN 36 ELSE 0]
  /\ UNCHANGED <<display, tape, file>>

DataBytes == Len(samples_) * SampleBytes

\* Mutation of Frames: what was to be written is counted.
FramesAsked ==
  /\ at = "frames" /\ at' = "pad"
  /\ \E written \in Taken(DataBytes) :
       wav' = [wav EXCEPT !.taken = @ + written, !.dataChunkDataSize = DataBytes]
  /\ UNCHANGED <<display, tape, file>>

\* drwav_write_pcm_frames_le(): until all is written or a write takes nothing;
\* what was taken is counted, a part of a sample too.
Frames ==
  /\ at = "frames" /\ at' = "pad"
  /\ \E written \in Taken(DataBytes) :
       wav' = [wav EXCEPT !.taken = @ + written, !.dataChunkDataSize = written]
  /\ UNCHANGED <<display, tape, file>>

PaddingSize(size) == size % 2

\* drwav_uninit(): a byte of padding for an odd chunk ...
Pad ==
  /\ at = "pad" /\ at' = "riff"
  /\ \E written \in Taken(PaddingSize(wav.dataChunkDataSize)) :
       wav' = [wav EXCEPT !.taken = @ + written]
  /\ UNCHANGED <<display, tape, file>>

\* drwav__riff_chunk_size_riff(), drwav__data_chunk_size_riff(): each clamped
\* on its own.
RiffChunkSize(size) ==
  LET whole == 4 + 24 + 8 + size + PaddingSize(size)
  IN IF whole > MaxSize THEN MaxSize ELSE whole

DataChunkSize(size) == IF size <= MaxSize THEN size ELSE MaxSize

\* ... the RIFF size at byte 4, if the file is that long ...
PatchRiff ==
  /\ at = "riff" /\ at' = "data"
  /\ wav' = IF Seeks /\ wav.taken >= 8
            THEN [wav EXCEPT !.riff = RiffChunkSize(wav.dataChunkDataSize)] ELSE wav
  /\ UNCHANGED <<display, tape, file>>

\* ... and the data size before the data; a header cut short has no such
\* field.  The file is closed and the samples are dropped.
PatchData ==
  /\ at = "data" /\ at' = "ui" /\ samples_' = <<>> /\ heard' = <<>> /\ wav' = NoWav
  /\ file' =
       LET len == IF Seeks THEN wav.taken ELSE wav.room
           whole == IF len > HeaderBytes THEN (len - HeaderBytes) \div SampleBytes ELSE 0
       IN [len |-> len, riff |-> wav.riff, cut |-> ~Seeks,
           data |-> IF Seeks /\ wav.dataChunkDataPos = HeaderBytes
                    THEN DataChunkSize(wav.dataChunkDataSize) ELSE 0,
           samples |-> SubSeq(samples_, 1, IF whole < Len(samples_) THEN whole ELSE Len(samples_))]
  /\ UNCHANGED <<display, open_, recording>>

\* main() returns: nothing closes a recording that is open.
Quit ==
  /\ at = "ui" /\ at' = "ended" /\ UNCHANGED <<wav, file>>
  /\ value' = [f \in Fields |-> 0] /\ display_value' = [f \in Fields |-> 0]
  /\ display_scale' = [f \in Fields |-> One]
  /\ use_display_scale' = [f \in Fields |-> FALSE] /\ dirty' = {}
  /\ open_' = FALSE /\ samples_' = <<>> /\ recording' = FALSE /\ heard' = <<>>

\* The program starts again.
Boot == at = "ended" /\ at' = "ui" /\ UNCHANGED <<display, tape, wav, file>>

Drwav == Header \/ Frames \/ Pad \/ PatchRiff \/ PatchData

Next ==
  \/ Reply \/ LoadConfig \/ Quit \/ Boot
  \/ StartWav \/ CloseWav \/ CloseFails \/ Drwav
  \/ \E f \in Edited :
       \/ Queue(f) \/ ClickUseScale(f)
       \/ \E s \in Scales : EditScale(f, s)
       \/ \E v \in Received[f] : EditPlain(f, v)
       \/ \E d \in Typed \union {Shown(f)} : EditScaled(f, d)

Spec == Init /\ [][Next]_vars

----------------------------------------------------------------------------
(* Properties.                                                             *)

\* Every variable keeps its type; a value is one its field's type has.
TypeOK ==
  /\ \A f \in Fields : value[f] \in Ranges[TypeOf[f]] /\ display_value[f] \in Int
  /\ display_scale \in [Fields -> Scales] /\ use_display_scale \in [Fields -> BOOLEAN]
  /\ dirty \subseteq Fields
  /\ open_ \in BOOLEAN /\ Len(samples_) <= MaxSamples
  /\ at \in {"ui", "unopened", "ended"} \union Steps

\* What a recording may hold: a reported value through a scale the user set.
Heard ==
  UNION {{Displayed(TypeOf[f], v, s) : v \in Received[f], s \in Scales} : f \in Fields}

\* The samples a file has room for behind its header.
WholeSamples(bytes) == IF bytes < HeaderBytes THEN 0 ELSE (bytes - HeaderBytes) \div SampleBytes

Mode ==
  CASE at = "ended" -> "down"
    [] at = "unopened" -> "unopened"
    [] at \in Steps -> "closing"
    [] OTHER -> IF recording THEN "recording" ELSE "idle"

\* The recorder implements a tape: a closed file holds every value replies
\* reported from Start to Close, in order, as its scale of then displayed it,
\* as far as that file has room, whatever edits and loads did meanwhile; only
\* a file that cannot be opened and the program's end lose it, and leave the
\* last one alone (main.cpp:106-111, wav_writer.cpp:7-53).
Recording ==
  INSTANCE Tape WITH
    Sample <- Heard, Rooms <- {WholeSamples(r) : r \in DiskRoom},
    mode <- Mode, tape <- heard, room <- WholeSamples(wav.room), saved <- file.samples
ImplementsTape == Recording!Spec

\* The sizes in a file that has a whole header are those of what is behind
\* it, also when a write fell short, up to the largest size the fields hold,
\* unless the disk had no room for what the FILE had taken (dr_wav.h:5690,
\* 6136, 4421).
SizesMatch ==
  LET bytes == file.len - HeaderBytes IN
  /\ file.data = IF bytes <= MaxSize THEN bytes ELSE MaxSize
  /\ file.data \div SampleBytes = Len(file.samples) \/ bytes > MaxSize
  /\ file.riff = IF 36 + bytes + (bytes % 2) <= MaxSize THEN 36 + bytes + (bytes % 2) ELSE MaxSize

SizesMatchContent == file.len >= HeaderBytes /\ ~file.cut => SizesMatch

\* Entering the number the scaled box shows changes an integer by one at
\* most, if a float holds the value, a step of the box is at most half the
\* scale, and the value is not an end of its type's range (ui.cpp:112-170,
\* 216-376).  With a smaller scale the error of the box alone may reach one.
RetypeKeeps ==
  \A f \in Fields :
    LET s == display_scale[f] range == Ranges[TypeOf[f]] IN
    /\ TypeOf[f] \notin {"float", "enum"}
    /\ display_value[f] = Displayed(TypeOf[f], value[f], s)
    /\ value[f] \in -(2^Precision) + 1..2^Precision - 1
    /\ {value[f] - 1, value[f] + 1} \subseteq range
    /\ s * Decimals >= 2 * Unit
    => \A v \in Stored(TypeOf[f], Shown(f), s) : v - value[f] \in {-1, 0, 1}

----------------------------------------------------------------------------
(* What the code does not promise.                                         *)

\* Entering the number that is shown changes nothing: truncation loses one.
RetypeExact ==
  \A f \in Fields :
    /\ TypeOf[f] \notin {"float", "enum"}
    /\ display_value[f] = Displayed(TypeOf[f], value[f], display_scale[f])
    => Stored(TypeOf[f], Shown(f), display_scale[f]) = {value[f]}

\* The sizes also match when the last bytes the FILE took did not fit.
SizesAlwaysMatch == file.len >= HeaderBytes => SizesMatch

\* A recording that was open is in the file, whenever the program ends.
RecordingKept == [][at' = "ended" => ~open_]_vars
=============================================================================
