# Verification of the dartt dashboard

TLA+ models of the dartt dashboard (`src/src/`), the TLC runs that check them,
and TLAPS proofs of their main properties.  The dashboard is a desktop program
that reads and writes the variables of an embedded device (the *peripheral*)
over a serial wire, draws and logs them.  Paths below are relative to the
repository's `src/` directory, so `logger.cpp:139` is `src/src/logger.cpp`.

Contents: [the system](#the-system) - [modules](#modules) - [runs](#runs) -
[what the code does otherwise](#what-the-code-does-otherwise) -
[proofs](#proofs) - [not modelled](#not-modelled) - [plan](#plan).

## The system

Three threads share one address space, a fourth party is at the other end of
the wire.

| thread | code | does |
|---|---|---|
| main | `main.cpp`, `ui.cpp`, `config.cpp`, `elf_parser.cpp`, `buffer_sync.cpp` | one loop per displayed frame: collects edits and queues write frames, rebuilds the request list when a subscription changed, draws, loads and saves configurations, starts and stops the link and the log |
| read | `DarttLink::read_loop` and, inside it, `on_read_reply` (`main.cpp:73`) | decodes bytes, copies each reply into `periph_buf` and the fields, pushes samples to the log rings and the plot, sends the next read request |
| write | `DarttLink::write_loop` | takes queued write frames and sends them, on a half-duplex wire under `bus_mutex_` |
| file writer | `DataLogger::file_writer_loop` | drains the log rings into `.npy` files |
| peripheral | not in the repository | answers requests, late, wrongly or not at all; applies writes; changes its own variables |

| a crash | the system | may end the process between any two steps; what is on disk then is what the next start reads |

### Components, their state, and what makes them correct

**DarttLink** (`reader/dartt_link.cpp`).  State: `running_`, the transmit queue
with its mutex, condition variable and the atomic `write_pending_`; the request
list with its round-robin index; `bus_mutex_`; `periph_buf_mutex`;
`awaiting_reply_`.  Operations: `start`, `stop`, `enqueue_writes`,
`build_read_requests`, the two loops.  Hard: five mutexes, atomics and a
condition variable shared by three threads, replies that are late or lost, a
bus lock that is kept across iterations of a loop.  Correct when the two
threads never transmit together, nobody waits for himself, every queued write
is sent, every entry of the list keeps being asked for, and `stop()` returns.

**Regions and frames** (`buffer_sync.cpp:50-97`, `dartt_link.cpp:54-126,
368-450`).  Pure: leaf fields are merged into word-aligned regions, regions cut
into frames that fit the peripheral's buffer.  Hard: boundaries, in two copies of
one loop that differ in what they leave room for.  Correct when regions cover the
fields exactly, frames carry each byte once, and what goes over the line fits.

**Field synchronisation** (`main.cpp:409-446` against `main.cpp:73-120`).
State: each field's `value` and `dirty` flag, `ctl_buf`, `periph_buf`.  Hard:
flags changed by main without a lock while the callback tests them, replies
sampled before a write and applied after it.  Correct when an edit survives
until it is queued and reaches the peripheral, nothing else is written, and the
display converges.

**Log channel ring** (`log_channel.cpp`).  State: `head_`, `tail_`, `buf_`.
Lock-free, one producer, one consumer.  Correct when it is a bounded queue.

**DataLogger** (`logger.cpp` with its callers).  State: `channels_`,
`running_`, the raw pointers `DarttField::log_ring`.  Hard: rings destroyed
while a thread may still hold a pointer, joins under a mutex the other side
needs, notifications without a predicate.  Correct when no pointer dangles, a
stopped log has written what it accepted, and stopping returns.

**Plot line** (`plotting.cpp`).  State: a ring of points with `head_`,
`count_`, resized when the next sample comes.  Correct when it is the window of
the last samples.

**Configuration tree** (`config.cpp`, `elf_parser.cpp:860-1185`, checkboxes of
`ui.cpp`).  State: the tree of fields, the list of leaves, the settings in the
JSON file.  Hard: traversals keep pointers into vectors they resize.  Correct
when leaves are those the compiler laid out and settings come back.

**ELF loader and type resolver** (`elf_parser.cpp`).  State: a stack of DIEs
while the variable is looked for, a stack of work whose items point into the
tree being built.  Correct when a variable is found wherever it is, every
failure is reported as what it is, the tree is the type, and the JSON file
written beside the ELF file describes what was loaded.

**Session** (`main.cpp:296-407, 447-509`, load and save of `config.cpp`).
State: the files, the path dropped last, the popup, the configuration in force
with the path it belongs to, the bases the callback copies through, the
requests in use and the flag that has them rebuilt.  Operations: a drop, both
loads step by step, the clicks that change what a request has baked in, Save,
quitting and starting again.  Hard: a load has nine steps of which any may fail
or be the last before a crash, and its steps outlive the state they were
decided on (one path for all drops).  Correct when the link never runs on
buffers that were replaced, the requests are those of the settings, files keep
to their own layout, and a start brings back what was saved.

**Scaled values and recording** (`main.cpp:85-111`, `ui.cpp:100-380, 985-1010`,
`wav_writer.cpp`, the writer of `dr_wav.h`).  State: value and displayed value
of each field with its scale; the samples of an open recording; the sizes and
positions the library keeps while it writes.  Hard: two conversions between
integers and floats of 24 bits, sizes patched into a file that may be cut
short.  Correct when a file holds what was displayed from Start to Close, its
sizes describe it, and an edit that changes nothing costs at most one step.

Interactions: main calls `enqueue_writes` (regions into the transmit queue)
and `build_read_requests` (regions into the request list); the read thread
calls back into `on_read_reply`, which takes `periph_buf_mutex` by `try_lock`
because main may hold it for a whole frame, and pushes to the rings main may be
replacing; `notify()` wakes the file writer; loading a configuration stops the
link, which joins the read thread; the flag `subscribed_dirty` is how the
window, the loads and the end of a frame agree on a new list of requests; files
are how one run of the program speaks to the next.

The full list of parts, the ones left out included, is under `components` in
`PROJECT.json`; what is hard to test is under `hazards`, each at its line.

## Modules

| module | models | relation |
|---|---|---|
| `LoggerFifo` | what a log channel promises: a bounded queue | abstract specification |
| `LoggerRing` | `push` and `pop`, split at each shared access | implements `LoggerFifo` (`ImplementsFifo`) |
| `DarttLink` | the link's threads and the wire | |
| `DataLogger` | log channels, the file writer, main's log actions, the callback's pushes | rings reduced to counts, justified by `LoggerRing` |
| `Regions` | coalescing and cutting, one action per loop turn | |
| `FieldSync` | values between user, dashboard and peripheral | uses the result of `Regions` and the promises of `DarttLink` |
| `PlotWindow` | what a plot line promises | abstract specification |
| `PlotLine` | the ring of points, one action per critical section | implements `PlotWindow` (`ImplementsWindow`) |
| `ConfigTree` | conversion, JSON parsing, expansion, leaves, subscriptions, settings | |
| `ElfTypes` | the resolver with the records it builds; members' locations and arrays' bounds decoded | operators and actions for `ElfLoad` |
| `ElfLoad` | a load from an ELF file and the JSON file written after it: symbol table, search of the debug information, resolution, errors | extends `ElfTypes` |
| `Session` | drops, loads, clicks, saves, crashes and starts, over files, configuration and requests | composes `ConfigTree` and `DarttLink` reduced to sets of leaves and to running or not |
| `DisplayScale` | the arithmetic of a scaled value | operators for `Recorder` |
| `Tape` | what a recording promises | abstract specification |
| `Recorder` | callback, value boxes, `WavWriter` and the part of `dr_wav.h` that `close()` runs, on a disk that may fill up | implements `Tape` (`ImplementsTape`) |
| `ConfigTreeProofs`, `DarttLinkProofs`, `RegionsProofs`, `FieldSyncProofs`, `SessionProofs` | theorems about the module each is named after | |
| `LoggingProofs` | theorems about `LoggerRing` and `DataLogger` | extends both, which is why the names of the first begin with `Ring` |
| `SamplesProofs` | theorems about `PlotLine` and `Recorder` | extends both, which is why the names of the first begin with `Plot` |
| `ElfProofs` | theorems about `ElfLoad` with `ElfTypes` | |
| `MCConfigTree`, `MCElfLoad`, `MCFieldSync`, `MCRecorder`, `MCRegions`, `MCSession` | values for the constants | |

Operators whose comment says "Mutation of ..." are wrong on purpose and used by
no specification.  Put in the place of the operator they follow, they break
the property `mutants` names in `PROJECT.json`: they show that a property can
fail.

### How the state corresponds to the code

*DarttLink.*  `main`, `reader` and `writer` are program counters; a step ends
where another thread could see or block the thread.  `unique_lock bus_lock` of
`read_loop` is `bus_mutex_ = "reader"`, held over from a request until its
reply or timeout, as in the code.  `enqueue_writes` is `BeginWrites`, then
`AddPending` and `PushFrame` per chunk, then `Notify` (or `WritesFail`, which
returns before it).  `tx_cv_.wait(lock, predicate)` is `LockQueue`,
`TestPredicate`, `Block` (release and sleep at once), and back to `LockQueue`
when woken; `stop()` sets `running_` and notifies without the queue's mutex, so
`Stop` and `StopNotify` may fall between `TestPredicate` and `Block`.  The
queue and the list are their lengths: the link never looks into a frame.  A
frame from the peripheral is two bytes, one that completes nothing and the
delimiter; this is the least with which a read can return part of a frame.
`reply_due` and `overtakes` are history variables no guard reads.

*LoggerRing.*  `head_` and `tail_` count modulo `SizeMod` as `size_t` does.
The release stores and acquire loads of the code make the interleaving of
whole accesses a faithful picture of its memory order.

*DataLogger.*  `log_ring[f]` is `"null"`, `"live"` or `"dangling"`; the callback
reads the pointer (`LookAt`) and pushes (`Push`) in different steps.
`ClearLock` and `ClearChannels`, `AddLock`, `AddChannel` and `AddDone` are the
critical sections of `clear_channels` and `add_channel`, so that the file
writer's `try_lock` can fail in between.  `clear_for` says which caller called.

*Regions.*  `current`, `currentEnd` and `i` are the locals of
`coalesce_fields`; `k` and `at` those of the chunk loops.  `call` says which of
the two loops runs and in which message format, which decide how much of the
peripheral's buffer a chunk may take: a write leaves room for the framing and the
COBS bytes, a read for the framing of the reply only.

*FieldSync.*  Memory is a function from byte offsets to values; a chunk is the
set of words it moves.  `typed` and `held` are history.

*PlotLine.*  A point is its x value; `span` is `screen_width / xscale`.  The
callback's `try_lock` that fails is the action that does not happen.

*ConfigTree, ElfTypes.*  A pointer is the path of the node it points to, live
while the path is in the tree; a JSON file is a tree with absolute offsets.

*ElfLoad.*  `phase` is how far the load has come; `die_stack` and `unit` are the
locals of `find_variable_die`.  The same steps serve `elf_parser_load_config`
and `elf_parser_generate_json` (`call`), as the code parses the file twice.
`TypeOf`, `TypeAt` and `Within`, the references the properties compare with, are
recursive functions over the DIEs or the records.

*Session.*  `at` is the place in `main()`'s loop; a step ends wherever a file or
the link is touched, so that `Crash` may fall between any two, also between the
truncation of a file and its writing.  `bases` says whether `ctl_base` and
`periph_base` are null, point at the buffers of the configuration in force, or
at old ones.  A configuration is the set of its leaves with those subscribed; a
leaf stands for its key.  `frame` stands for what every request has baked in:
format, address, base offset.  `unflagged`, `fresh` and `kept` are history: was
something changed that raises no flag, has the user touched anything since the
start, what was last saved and not overwritten since.

*Recorder.*  A float is a whole number of `Unit`s with a mantissa of `Precision`
bits, so that rounding is the code's with a shorter mantissa.  `at` is `"ui"`, a
step of `close()` (header, frames, padding, the two sizes), `"unopened"` when
`close()` could not open its file, or `"ended"` between one run of the program and
the next.  `recording` and `heard` are history, which no guard reads: whether Start
was clicked and Close was not, and what every reply since has reported, as the
scale of then displays it.  `Tape` is told `heard`, so that a recorder that leaves
out, repeats or distorts a sample does not implement it, and the room of the very
file that is written, so that a `close()` that writes less than fits does not
either.  `wav` is the `drwav` object with its `FILE`: `fwrite` may take bytes into its buffer
that the disk then has no room for, and `fseek` fails when that comes out.

## Runs

| run | configuration | distinct states | question |
|---|---|---|---|
| `ring` | Capacity 3, index modulo 6, 9 samples | 11,814 | is the ring a bounded queue, through wraps of both moduli |
| `link_unruly` | late and unsolicited and bad frames, refused writes, restarts | 1.6 million | bus discipline, exact counts, index, overtaking |
| `link_live` | a punctual peripheral, 2 chunks, 2 requests | 89,812 | reservation of the bus, no lost frame, progress of writes, polls and `stop()` |
| `logger` | 2 fields, capacity 2 | 192,614 | rings and the vector of channels under four actors, samples kept, joins return |
| `logger_lost` | 1 field | violated | `StopLogReturns`: the lost wakeup |
| `regions` | every ordered list of up to 3 of 31 fields, blocks of 26, 28, 32 bytes, writes and reads in three formats | 1.1 million | exact regions, exact frames |
| `fields` | 2 fields with a gap, 1 edit, 1 change, 1 loss | 22,815 | edits survive, arrive, and are all that is written; nothing torn; the display converges |
| `plot` | depths 0, 2, 3, x in 0..2 | 227,079 | the ring is the window |
| `tree` | five C types, 4 clicks | 142,940 | leaves, live stacks, settings |
| `elf` | programs with a variable of each of 30 types, with and without symbols and debug information | 3,092 | the variable is found, the tree is the type, errors are named, every load ends |
| `session` | two layouts, two JSON files and an ELF file, two link settings | 4.8 million | live buffers, requests that fit, files of their own layout, restarts that restore |
| `recorder` | floats of 4 bits, 3 samples, disks with room for 20, 49 or 1000 bytes | 4.4 million | the recording is the tape, sizes match, retyping keeps |

`FieldSyncEdits.cfg` is an extra configuration that passes: the safety
properties of `fields` with three fields and two edits (196,682 states).

The type invariant of a module that has proofs is a theorem (`TypeCorrect`,
`RingTypeCorrect`, `TypesAreKept`; `Recorder` and `ElfLoad` have the part their
proofs need) and is not repeated in the runs; for the other modules add `TypeOK`
to the configuration's invariants.

Why the bounds are enough:

- `ring`: the indices wrap three times over the slots and once over `SizeMod`;
  the proofs cover every capacity and width.
- `link_*`: the interesting interleavings need one frame in each state (queued,
  taken, being sent), two requests (so that round robin and rebuilding shorter
  matter), one reply under way.  `link_unruly` has a queue of one so that full
  unruliness fits; `link_live` has calls of two chunks, so that a notification
  follows several frames.  Late replies are in `link_unruly` only: with them
  `ReservedForReply` is false (below).
- `logger`: two channels, so that a walk over the vector can be disturbed in
  the middle; two slots, so that full, partly full and empty rings differ.
- `regions`: the framings are those of the code, 2, 4 and 5 bytes, and a serial
  buffer of 16 has their remainders in the 64 of the code, so that rounding a chunk
  to words cuts off as much: chunks are of 8 or 12 bytes.  There are regions of less
  than one, one and several chunks, and fields that touch, overlap, lie a word apart
  and are empty, also at the very end of the block; the block of 26 bytes ends in
  half a word.
- `fields`: words of two bytes and chunks of two words keep what matters, more
  than one byte in a word and more than one word in a chunk; the loss is a
  request that is never answered.  The proofs cover any number of edits.
- `plot`: depths above, at and below the number of points in the ring, and 0,
  with which the ring is emptied and takes no sample (`plotting.cpp:187`).
- `tree`: structs with padding, an array of structs with arrays, arrays in
  arrays, a union, a struct with a member named `none`.  `elf`: chains of typedefs and qualifiers, pointers to
  structs and to void, arrays of arrays, an empty struct; variables at the top,
  in namespaces, functions and blocks, in a second unit; names that no symbol,
  or no DIE, has; files without symbols, without debug information, and files
  that are no ELF files.
- `session`: nothing is counted, the state space is whole.  Two layouts with no
  leaf in common make any mixture of two configurations visible; one JSON file
  lies beside the ELF file and is overwritten by a load from it, the other is
  not; a second setting of the link is enough to tell a stale request.
- `recorder`: four bits of mantissa make integers above 16 inexact, which is
  where rounding begins to matter (2^24 in the program); a disk may end within
  the header, within a sample after an odd number of bytes, so that padding is
  asked for, or not at all; a size field holds at most 42, so that the RIFF size is
  clamped (with three samples the data size is not: `SizesAreRight` has both, for
  every largest size); three samples come in one reply or in several, from an
  integer that is edited and a float that is not.

`regions` and `elf` end by design, so deadlock is not checked there; in every
other run it is.

### Fairness

- `DarttLink`: weak fairness of each thread (they are preemptively scheduled
  and each step of theirs stays enabled or is retried); strong fairness of
  `ReadTimeout`, because the clock goes on and `read_bytes` returns within its
  own timeout; strong fairness of `ParseLock`, because the render loop leaves
  `periph_buf_mutex` free while it waits for the display.  **No** fairness
  between the two contenders for `bus_mutex_`: `std::mutex` promises none, so
  `QueueDrains` rests on `dispatch_read_requests` backing off.  Users do not
  have to act; condition variables do not have to wake up by themselves.
  A peripheral that has begun to answer goes on, but may lose any answer.
- `DataLogger`: weak fairness of each thread.
- `ElfLoad`: weak fairness of the next step: both parsers run in the main thread
  (`main.cpp:378, 394`), which waits for nothing there and which nothing stops.
- `FieldSync`: weak fairness of each step, strong fairness of the callback's
  `try_lock` succeeding, for each request of the list: main does not hold the
  mutex all the time, and a request comes round again and again.  Without it a
  reply could be dropped for ever; `todo/ArchitecturalConcerns.md` discusses
  just that.

## What the code does otherwise

The findings in `PROJECT.json` are the first three rows.  The first is a run
there; TLC finds the others violated as well.  A row with a file name of its
own is a configuration kept beside the runs (`tlc -config X.cfg M`); a row "with
..." is a run's configuration with the property added and the constants given
another value.

| configuration | module | property | what happens | against |
|---|---|---|---|---|
| `DataLoggerLost.cfg` (run) | `DataLogger` | `StopLogReturns` | `stop()` notifies without `cv_mutex_`, the wait (`logger.cpp:139`) has no predicate: a stop between the test of `running_` and the wait is missed, and main joins for ever with `periph_buf_mutex` held | `docs/DataLogger.md:41` |
| `FieldSyncPair.cfg` | `MCFieldSync` | `OnlyEditsWritten` | a write sends whole words of which only the dirty field's bytes are fresh: a neighbour in the word is overwritten with what `ctl_buf` holds, zero at first | `config.h:130` |
| `ElfLoad.cfg` with `Files <- WithLocal` or `Files <- WithExtern` | `MCElfLoad` | `DescribesGlobal` | the first variable of the name is taken, also a local or a declaration in an earlier unit: the address is the global's, the layout is not | `elf_parser.h:109` |
| `DarttLinkStop.cfg` | `DarttLink` | `StopReturns` | the same lost wakeup in the link: `running_` is cleared and the notification sent between the write thread's test and its sleep | `dartt_link.cpp:38` |
| `DarttLinkLate.cfg` | `DarttLink` | `ReservedForReply` | a reply later than its timeout clears `awaiting_reply_` of the next request; the bus is released while that one is unanswered | `dartt_link.cpp:562-564` |
| `DarttLinkLive.cfg` with `Unsolicited = TRUE` | `DarttLink` | `ReservedForReply` | a frame nobody asked for is taken for the reply, as it carries no sign of which request it answers, and ends the wait | `dartt_link.cpp:562-564` |
| `DarttLinkPartial.cfg` | `DarttLink` | `AsleepOnlyWhenIdle` | a refused later chunk returns before `notify_one()`: chunks already queued wait for the next write | `dartt_link.h:113` |
| `DarttLinkChunk.cfg` | `DarttLink` | `HeldForChunk` | the bus is released with bytes of the chunk still to decode | comment at `dartt_link.cpp:218` |
| `DarttLinkDuplex.cfg` | `DarttLink` | `FullDuplexSkipsBus` | the read thread takes `bus_mutex_` in full duplex too | `dartt_link.h:49` |
| `DataLoggerNotify.cfg` | `DataLogger` | `NotifyWakes` | a notification that comes while the file writer drains is forgotten; samples wait for the next reply | `docs/DataLogger.md:41` |
| `RegionsLost.cfg` | `MCRegions` | `FieldsInRegion` | a list that is not in offset order, as a union's leaves are not, loses a leaf from its region | `buffer_sync.h:10` |
| `Regions.cfg` with `EveryByteQueued` | `MCRegions` | `EveryByteQueued` | in a block whose size is no multiple of four the last frame leaves `ctl_buf` and is refused | `docs/usage.md:25` |
| `Regions.cfg` with `LineFits` | `MCRegions` | `LineFits` | reads do not count the COBS bytes (`dartt_link.cpp:381-400`, the check at 311-323 neither): with `TYPE_ADDR_MESSAGE` a full chunk is 60 bytes, 64 with its framing and 66 as it goes over the line to a buffer of 64; in the other two formats the rounding to words leaves enough | `dartt_link.h:20` |
| `FieldSyncTail.cfg` | `MCFieldSync` | `EditArrives` | the same seen by the user: an edit there never arrives, and its flag is reset by the next frame (`ui.cpp:201`) | `docs/usage.md:25` |
| `FieldSyncAcross.cfg` | `MCFieldSync` | `NotTorn` | a field across two chunks is copied when only its first half is new (`main.cpp:88`) | `docs/DataLogger.md:8` |
| `ConfigTreeTwins.cfg` | `MCConfigTree` | `SettingsSurvive` | elements of two arrays of a union share the key offset:name; save and load mix them up | `docs/usage.md:71` |
| `ConfigTree.cfg` with `SourcesSurvive` | `MCConfigTree` | `SourcesSurvive` | a plotted field whose name is `none` is taken for no source when its file is loaded (`config.cpp:641`, for the x source 610) | `docs/usage.md:71` |
| `ConfigTreeMixed.cfg` | `MCConfigTree` | `MixedMeansSome` | a parent ticked once and emptied child by child stays "mixed" | `ui.cpp:496` |
| `ConfigTreeTicks.cfg` | `MCConfigTree` | `ElementTypes` | array elements of a user's typedef become UNKNOWN | `config.cpp:234` |
| `ElfLoadLinked.cfg` | `MCElfLoad` | `ResolvedOnce` | the type cache is never filled: a struct that points to its own type is resolved again and again, into records ever further from the root, and the load does not end | `elf_parser.cpp:489` |
| `ConfigTree.cfg` with `Symbols <- OnlyRows` | `MCConfigTree` | `LeavesMatchType` | an array of a typedef of an array loses its elements | |
| `Session.cfg` with `SavePreserves` | `MCSession` | `SavePreserves` | a load that fails leaves an empty tree with the old path, and Save then wipes that file's settings | `config.cpp:499` |
| `Session.cfg` with `RequestsFit` | `MCSession` | `RequestsFit` | a new address or base offset, and a load from an ELF file, do not flag the requests for a rebuild: the old ones go on | `ui.cpp:852` |
| `Session.cfg` with `JsonLoadsJson` | `MCSession` | `JsonLoadsJson` | two files dropped in one frame: the ELF file is read as JSON | |
| `Session.cfg` with `RestartFindsSave` | `MCSession` | `RestartFindsSave` | the ini names the JSON file loaded last, not the one saved last: a load from an ELF file does not change it | |
| `Session.cfg` with `CrashLosesNothing` | `MCSession` | `CrashLosesNothing` | a save, or the JSON file written after an ELF load, truncates the file first; a crash before it is written loses the configuration | |
| `Session.cfg` with `BootsAgain`, `Wild <- Maybe` | `MCSession` | `BootsAgain` | a scale too large for a float is saved as null, which the load at the next start does not survive | |
| `Session.cfg` with `Layouts <- WithEmpty`, `Symbols <- OrNothing` | `MCSession` | `BuffersLive` | a configuration without leaves has no buffers, and the link is started all the same | |
| `Session.cfg` with `Writable <- Maybe` | `MCSession` | `KeysMatchLayout`, `RestartRestores` | a JSON file that could not be written beside the ELF file is taken for the configuration's, and a save puts the settings of one layout into the file of another; the next start finds no leaf to restore them to | |
| `Recorder.cfg` with `RetypeExact` | `MCRecorder` | `RetypeExact` | typing the number a scaled box shows may lower an integer by one, as the quotient is truncated | |
| `Recorder.cfg` with `SizesAlwaysMatch` | `MCRecorder` | `SizesAlwaysMatch` | bytes taken by the stream that did not fit are counted in the sizes | |
| `Recorder.cfg` with `RecordingKept` | `MCRecorder` | `RecordingKept` | quitting does not close a recording that is open: it is lost | |
| `Recorder.cfg` with `TypeOf <- Enums` | `MCRecorder` | `ImplementsTape` | an enum's display value is never computed from its value: an old number is recorded | |

Some comments the models answer without a run: `docs/usage.md:33` says that the
peripheral needs a buffer of 32 bytes, "the hardcoded uart buffer size in this
software"; both sizes are 64 in `dartt_link.h:100-101`, which `SerialBuffer` stands
for, and a peripheral with 32 is sent frames twice as long.  `dartt_link.h:64` says the reply
callback is "fired under periph_buf_mutex"; `process_frame` releases the mutex
at line 538 and calls back at 544, which `DarttLink` follows (`ParseAccept`,
then `Callback`).  `todo/async-read-thread.md:98` says a request without a
reply is retransmitted; `dispatch_read_requests` goes on to the next one.

Each passing run says where its property holds all the same:
`StopReturnsIfHeard` and `JoinsReturn` that a stop returns in every case but the
lost wakeup: whenever the thread that is to be woken is not between its test and
its sleep at the moment of the notification, `ReservedForReply` for replies in time and on request, `FramesExact` that no byte but
those of a partial last word is left out, and that a read fits with its COBS bytes
where the rounding leaves them room, `NotTorn` and `OnlyEditsWritten` for
layouts without a shared word or a field across chunks, `ListFits` for the
changes that raise the flag, `BuffersLive` for configurations with a leaf,
`SettingsSurvive` for every plotted field of another name than `none`,
`LoadReturns` for types that do not lead back to themselves,
`ImplementsTape` that only a file that cannot be opened and the end of the program
lose a recording,
`RestartRestores` for crashes outside a write and files that can be written,
`RetypeKeeps` that truncation costs one at most while a step of the box
(a millionth) is no more than half the scale, `SizesMatchContent` for a
stream that could be written out.

## Proofs

The theorems hold for every value of the constants that satisfies the named
assumptions; nothing else is assumed:

- `LoggerRing`: `CapacityAssumption` (a capacity above 0), `SizeModAssumption`
  (the capacity divides the number of index values and is less than it: 256
  and 2^64), `MaxSamplesAssumption`;
- `DarttLink`: `LinkAssumption` (types of the bounds, no more);
- `Regions`: `SerialAssumption`, `RoomAssumption` (a word fits a frame in every
  format; otherwise the code returns an error before the loop), `ListsAssumption`;
- `DataLogger`: `LoggerAssumption` (a capacity above 0);
- `ConfigTree`: `TypesAssumption` (types have the fields
  `resolve_type_iterative` gives to their kind, and none contains itself:
  `Nesting` ranks a type above those of its fields; a type that did would not be
  in hand, `ElfLoadLinked.cfg` above); `LeavesAreTheTypes` and `SettingsAreRestored` are
  about debug information that is `Expandable`, the second about symbols whose
  `KeysDiffer`, both explained below;
- `PlotLine`: `PlotAssumption` (there is a least x value and a largest depth:
  a float and an `int` have them);
- `FieldSync`: `LayoutAssumption` (types, and fields inside the block);
- `Recorder`: `RecorderAssumption` (types, leaves listed once, a disk's room and
  the largest size are numbers);
- `ElfLoad`: `DiesAssumption` (what a DIE refers to and its children are DIEs,
  as libdwarf hands out no others), `FilesAssumption` (units are DIEs, and the
  types of variables may be asked for); `TypeIsResolved` and `LoadsTheType` are
  about debug information that is `WellFormed`, as a compiler writes it: base
  types and typedefs have names, arrays and members have types, a member's
  location decodes to its offset and an array's bounds multiply to its elements,
  and `depth` ranks a type above the types of its members and elements and above
  the one it is another name of (not above what a pointer leads to: cycles
  through pointers are allowed).  `MCElfLoad` has TLC check that the program
  checked is such a one (`WellFormedPrograms`);
- `Session`: `SessionAssumption` (types, and that paths and settings are not
  confused with their absence).

**LoggerRing** (`IInv`).  *Indices*: `head_` and `tail_` are the numbers of
samples accepted and delivered, reduced modulo `SizeMod`, and their difference
is at most `Capacity`.  *Window*: the slots between them hold the accepted
samples not yet delivered.  *PushInProgress*, *PopInProgress*: what a thread
loaded is still true enough when it is used, since the other thread can only
have moved its index the harmless way.  The wrapped difference is the true
distance because the distance is less than `SizeMod` (`Distance`), and two
samples in the window never share a slot because their distance is less than
`Capacity`, which divides `SizeMod` (`SlotsDiffer`).  From `IInv`: types, no
slot is touched by both threads (`RaceFree`), delivery in order
(`FifoDelivery`), exact count, exact emptiness, and the refinement
(`Refinement`): `PushStore` maps to the abstract enqueue, a `PushLoad` that finds the ring full
to the drop, `PopStore` to the dequeue, every other step to a stutter.

**DarttLink** (`LinkInv`).  *Owners*: who holds each mutex shows in the program
counters.  *Threads*: main's counter tells which threads live and `running_`.
*Work*: what a thread has in hand.  *PendingCounts*, *IndexInRange*,
*Overtaken*, *NoLostWakeup*.  The properties say nothing of program counters,
so none is inductive alone: `BusDiscipline` follows from *Owners* and
*Threads*, `OneOvertake` from *Overtaken* (a write that has been overtaken
finds the reader before its check of `write_pending_`, which is not 0, so it
will not send again).  One lemma per thread, one step per action.
`AsleepOnlyWhenIdle` is proved under the assumption that no write is refused.

`ReservedForReply` compares two threads and the wire, and takes an invariant of
its own, `AnswerInv`: at most one reply to the latest request is anywhere (owed
by the peripheral, on the wire, or in the chunk in hand), none to an older one,
and there is none once the reader waits no longer or is on its way to send the
next request.  So what clears `awaiting_reply_` is always the answer to the
request it was set for.  `BusStaysReserved` has two hypotheses, replies in time
(`~ Late`) and on request (`~ Unsolicited`); the table above has a
counterexample for each.

**Regions** (`IInv`).  *Phases* orders the loops; *Aligned*, *WithinBlock*,
*Assigned*, *Covered*, *Separated*, *Tight* describe the merge, half done in
`current`; *Placed*, *Queued*, *Refusals* the cutting.  From it
`CoalescingIsExact` (`RegionsExact`) and `CuttingIsExact` (`FramesExact`), for
lists of any length, any sizes, and both directions in every format.  That a write
fits the line with its COBS bytes is what `Stuffing` makes of `ChunkBytes`.  A read
is shown to fit without them, and with them if the rounding to words cuts off as
much, `(SerialBuffer - framing) % 4 >= Cobs`: for the code's numbers the first holds
of all reads, the second of those with framings of 5 and 2 but not of 4.

**DataLogger**.  *Locks*: each mutex is held exactly at the points of the
program where the code holds it, and where main frees the channels without
`periph_buf_mutex` the read thread is gone.  *Rings*: a pointer that is set
leads to a live ring of a subscribed field, except where the reader is gone or
main, under the mutex, has nulled them all.  *Writer*: how far the file writer
is when it may stop; it ends only after a last round that emptied the channels
one by one.  `RingsLive`, `StopKeepsSamples` and `WriterUndisturbed` follow.

**PlotLine** (`PlotIInv`).  *InBounds*: head and count lie inside the points.
*Rising*: the points of the source in use do not fall.  *Spans*: the span is
that of the points whenever it was computed.  One lemma, `EnqueueShifts`,
carries all: `enqueue_data()` takes the oldest point away when the ring is
full, appends its sample and moves nothing else, wherever `head_` is.  From it
`DrawsInBounds`, `TimeFillsWindow` and the refinement `RingIsWindow`.

**FieldSync**.  *Stored* (types: a region is in hand whenever main writes,
frames and replies hold values of bytes of the block) gives `TypesAreKept`; that
a frame never leaves the block is the bounds check, that there is a region for
every dirty field needs a least word and the gap after it.  *Edited*: a dirty
field holds the last value typed; it makes `EditSurvives` inductive
(`EditsAreKept`), for any layout.  *Whole*: what a field has in a reply under
way, in `periph_buf` and in its value is one value it had on the device or was
given.  `ValuesAreWhole` needs the hypothesis `Undivided`, no subscribed field
straddles two requests, which is what `FieldSyncAcross.cfg` shows violated.
*Writing*: no more than one field is dirty, because an edit ends one frame and
its region is written and cleared in the next; it is the only region
(`OneRegion`), makes one chunk that is not refused (`OneChunk`), and that frame
carries what was typed (`FrameCarriesEdit`) and no byte of another field
(`OneFieldWritten`).  `OnlyEditsAreWritten` has three hypotheses: `WordsApart`
(`FieldSyncPair.cfg` shows it violated without), `FitsFrame`, a variable is no
longer than a chunk (8 bytes against 56 in the program; with `ChunkWords = 1` in
`FieldSyncEdits.cfg` half a variable is written), and `WholeWords`, without
which an edit whose frame is refused stays dirty and is joined by the next.
`Listed` says that `Requests` is a sequence: its definition flattens one, a
recursive function out of the provers' reach, so TLC evaluates it
(`RequestsAssumption` in `MCFieldSync`).

**Recorder** (`IInv`).  *Modes*: nothing is recorded while the file is written.
*Writing*: what the library has counted of the header and of the data is all
there was to write, or the disk has no room left.  With it the two sizes patched
at the end are those of the content (`SizesAreRight`), wherever the disk filled
up and however large the content.  *Audible*: what is kept is what the replies
since Start have reported, as it was displayed, `samples_ = heard`.
`RecordsLikeATape` is the refinement of `Tape`: Start and a reply that records map
to their namesakes, `CloseWav` to the stop that is given a file with its room or
none, the last write of `close()` to the close that saves as much of the tape as
that room holds (`KeptSamples`), giving up, quitting and starting again to theirs,
every other step to a stutter.  Its hypothesis,
`AllDisplayed`, leaves enumerations out (`TypeOf <- Enums` above shows why).
Scaling and rounding are not opened: the theorems hold whatever a value is
displayed as.

**ElfLoad** (`IInv`).  *Results*: every item on the resolver's stack points to a
record of the tree, and none of these paths is a prefix of another.  Taking the
top off and pushing work for its own record or for distinct children of it keeps
it so (`Pushed`), whatever the rest of the stack holds, which is what every case
of `resolve_type_iterative` does (`ResolveResults`).  `ResultsStayLive` follows,
for types that lead back to themselves too, for which the load does not end but
never follows a bad pointer either.  *Progress*: how far the load has come and
what the earlier steps have established.  *Exploring*: while the search runs,
every variable of the name in the file is still ahead, below a DIE on the stack
or in a unit to come (`AheadOfVisit`: looking at a DIE takes at most that DIE
from what is ahead); a type is resolved only if it is that of such a variable.
When nothing is ahead there is none: `FindsTheVariable`.  The search
is a walk over a graph of any shape, so the proofs need `Within` to be a solution
of the equation that defines it: `WithinUnfolds` shows it, by the least set
closed under children.

*Growing* is what `LoadsTheType` needs: there is a function `V` from the paths of
the tree to types, `V[<<>>]` the type asked for, such that every record is
already of the type `V` gives it, but for fields whose member still waits on the
stack (`Settled`), or is waited for by an item whose DIE is of that type
(`Expected`; under the name of the outermost typedef met so far, `Called`).  A
turn extends `V` by the children it makes (`Grown`); each tag has a lemma of its
own (`BaseBuilt`, `TypedefBuilt`, `QualifierBuilt`, `PointerBuilt`, `ArrayBuilt`,
`CompoundBuilt`, `MemberBuilt`, `OtherBuilt`).  When the stack is empty every record
is settled, so `V` is what is read off the tree, as the equation of `TypeAt` has
one solution on a tree of bounded depth (`OneReading`).  That `TypeOf` satisfies
its own equation is `TypeOfUnfolds`, by the ranks of `depth`.  Both go by a least
counterexample (`Least`, `Climb`) in place of induction.

*Again* is the invariant for the JSON file: the turns of search and resolver are a
function of where the parser is (`TurnIsAFunction`, `TurnOfParser`), so the second
parser is always somewhere on the way that the first one has come, and ends where
it ended: `WritesWhatWasLoaded`, without any hypothesis on the debug information.

**ConfigTree** (`Waiting`).  The paths of the tree are closed downwards: a field
with n children has those from 0 to n - 1 (`TreeOf`).  The pointers that wait on
the stack lead to fields of the tree, none to a field above, below or equal to
another's; while fields are created, those that wait have no children yet, as
`children.resize()` would otherwise move what is below them.  Taking the top off
and pushing its children keeps that (`LivePushed`, `Turn`), which is all that
`type_info_to_dartt_field`, `parse_fields_iterative` and `collect_leaves` do;
`expand_array_elements` in between writes clones of a whole subtree, so `ExpandedTree` shows that what it
leaves is a tree again and that nothing on the stack lies below the array
(`ClonesTree`).  `StackStaysLive` follows, for every set of types of any depth and
arrays of any length.  What is parsed is what was written, so the proof needs
`ToJson` and `Absolute` to be solutions of the equations that define them, over
types and over JSON objects nested to any depth: `ToJsonUnfolds` and
`AbsoluteUnfolds` show it, by induction on `Nesting`, in the form of a least
counterexample (`Climb`).

*Laying* compares the tree with the type.  A ghost `g` gives, for the path of
every field, the part of the symbol it stands for: a type, an offset from the
symbol and a name (`Placed`: the root is the symbol, child i of a field is member i
of its part).  While the tree is loaded each field on the stack is one whose item
asks for its part, by type in `type_info_to_dartt_field`, by JSON value in
`parse_fields_iterative`, and all others hold what the code keeps of theirs
(`LoadsAs`); this is where `Absolute` of `ToJson` of a type is shown to ask for the
same members at the same offsets as the type itself (`ParseItems`), so both loads
end alike.  While arrays are expanded, what waits has the children the load gave
it (`Arity`) and the rest has as many as the type has members (`ExpandsAs`): a
subtree is cloned only while all of it waits, so no element is expanded twice and no
offset shifted twice (`ClonesLaid`).  While leaves are collected a sequence of
partial sums runs along the stack (`Sums`): what is listed, followed by the leaves
under the fields that wait, from the top down, is always the leaves of the symbol;
a turn replaces a part by its members, whose leaves make up its own (`SumsInner`,
from the equation of `LeavesOf` unfolded and `FlattenSeq` as a chain of sums).
`LeavesAreTheTypes` follows.  It has one hypothesis, `Expandable`, on the debug
information, each part of which is necessary: an array's elements are not arrays
(the resolver leaves the size of such an element 0; `OnlyRows` shows what comes of
it); an array of structs or unions has at least one element, and its elements have
members (an empty one leaves its template in the tree, a leaf the compiler has no
room for; an element without members is a leaf that keeps the offset the JSON load
left it); an array of primitives is empty or its elements have a size.
`MCConfigTree` has TLC evaluate it for the types of every run on which
`LeavesMatchType` is checked.

`SettingsAreRestored` proves the action property `SettingsSurvive`.  Two loads of
one type give one tree and one part for each of its fields (`OneShape`, by the
length of paths), so a key, the offset and name of a leaf, means the same leaf at a
save and at a later load.  *Gathered* says that the leaf list has every leaf of the
tree and nothing else; *Kept* that the file has, under the keys the type gives the
leaves, what was ticked and plotted at its last save, or is as it was generated.
The hypothesis besides `Expandable` is `KeysDiffer`, no two leaves of the symbol
share offset and name: `ConfigTreeTwins.cfg` shows a union that has two, and that
their settings are mixed up.

**Session**.  *TInv* (types and *Phases*: what each step of the loop relies on
when it is reached), *LinkInv* (threads stopped during a load, buffers and
requests of the configuration in force), *Matches* (the file a configuration
came from has its leaves, from its reading to its next save), *KeptIsOnDisk*
and *FreshStart* (the last save is still there, and a start nobody has touched
shows it).  Two hypotheses, each necessary as the table above shows: every
configuration has a leaf (`{} \notin Layouts`, for `BuffersLive` and
`ListFits`); a file that can be read can be written (`FALSE \notin Writable`,
for `KeysMatchLayout` and `RestartRestores`).

The lemmas about `%` and `\div` stand at the head of `LoggingProofs` (equal
remainders of near numbers, a sum reduced twice), in `SamplesProofs`
(`WrapOnce`) and in `FieldSyncProofs` (`Division`, `Quotient`, `Times`).

Model-checked only: every liveness property (fairness and `ENABLED` are out of
the prover's reach); that members' locations and arrays' bounds decode to what
the program declares (`WellFormed` supposes it in the proof, `ElfLoad.cfg`
evaluates it); `RetypeKeeps`, whose error bound rests on powers of two, of which
the provers know nothing.

## Not modelled

- Bytes of a frame (COBS, checksum, address, index): the protocol library is a
  submodule that is not part of the repository; frames are opaque to the link.
- `base_offset` as a number: how the protocol library places an index is not in
  `src/`.  `FieldSync` has it at 0, `Session` has it as part of a request's
  settings; that the window edits it through eight of its sixteen bits
  (`ui.cpp:891`) is listed as a hazard only.
- The binary frame log, autoconnect, Connect and Disconnect and the serial
  port's settings: input, output and forms over a library that is not here.
- Pixels, colours, widgets: drawing.  What a widget changes is an action of the
  module whose state it changes.
- File names of logs, time and colour helpers.
- A crash in the middle of `WavWriter::close()`: what of the `FILE`'s buffer is on
  disk by then is the C library's.
- Of `dr_wav.h` (a vendored library of 9,000 lines) everything `WavWriter` does
  not call: readers, decoders, other containers, metadata.  The sample rate in
  the header, which depends on a clock.
- libdwarf's tables, handles and errors on a single DIE: what they say is a
  constant of `ElfTypes` and `ElfLoad`.  Bit fields and the values of
  enumerators.
- `sync_periph_buf_to_fields()` has no caller; `DataLogger::package()` is empty.
- Arrays of a typedef of an array: the resolver leaves the element's size 0
  (`elf_parser.cpp:905`); no document says what should come of them, and the
  passing run leaves them out (`OnlyRows` shows them).
- Other programs that change the configuration files while the dashboard runs.

## Plan

The concurrency nobody can test came first, then what rides on it, then the
pure parts, then the program from one start to the next, then the proofs.  What
is left is one refinement from debug information to leaves: the result of
`ElfLoad` as the type of `ConfigTree`.
