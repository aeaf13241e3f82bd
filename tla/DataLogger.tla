------------------------------ MODULE DataLogger ------------------------------
(***************************************************************************)
(* Logging of subscribed fields to .npy files (logger.cpp, with its        *)
(* callers in main.cpp and ui.cpp).  Three threads share a log channel:    *)
(*                                                                         *)
(*   main     the render loop: starts and stops logging, rebuilds the      *)
(*            subscribed list and with it the channels, loads another      *)
(*            configuration, quits;                                        *)
(*   reader   the link's read thread, inside the callback of each reply:   *)
(*            pushes the new values to the rings of their channels;        *)
(*   fwriter  file_writer_loop(): moves the samples from the rings to the  *)
(*            files.                                                       *)
(*                                                                         *)
(* The callback finds a channel through DarttField::log_ring, a raw        *)
(* pointer: it is null, or points to the live ring of the field's channel, *)
(* or dangles.  A ring is the number of samples in it (module LoggerRing   *)
(* shows what else it does), a channel is the field it is for.             *)
(***************************************************************************)
EXTENDS Naturals, Sequences

CONSTANTS Field,        \* the leaves of the configuration
          RingCapacity      \* LoggerRingBuffer::capacity

ASSUME LoggerAssumption == RingCapacity \in Nat \ {0}

VARIABLES
  main, clear_for, to_add,      \* main: pc; who called clear_channels();
                                \*   fields still to be given a channel
  subscribed,                   \* fields with DarttField::subscribed set
  subscribed_list, subscribed_dirty,
  log_ring,                     \* by field
  periph_buf_mutex,
  link_running,                 \* DarttLink::running_
  reader, updated, target,      \* reader: pc; fields still to be looked at;
  any_logged,                   \*   the field being pushed
  running_, channels_, waiting, \* DataLogger; samples in each field's ring
  channels_mutex_,
  fwriter, cursor               \* file writer: pc; loop index

configVars == <<subscribed, subscribed_list, subscribed_dirty>>
readerVars == <<reader, updated, target, any_logged>>
mainVars   == <<main, clear_for, to_add>>

vars == <<mainVars, configVars, log_ring, periph_buf_mutex, link_running,
          readerVars, running_, channels_, waiting, channels_mutex_, fwriter,
          cursor>>

Free == "free"
None == "none"

MainPc    == {"frame", "join_reader", "config", "click", "notify",
              "join_fwriter", "null", "rebuild", "clear", "clearing", "add",
              "adding", "unlock", "lock", "quit_join", "quit_stop", "quit"}
ReaderPc  == {"none", "read", "parse", "callback", "scan", "push"}
FwriterPc == {"none", "top", "wait", "asleep", "woken", "try", "drain",
              "final", "flush", "done"}

TypeOK ==
  /\ main \in MainPc /\ to_add \subseteq Field
  /\ clear_for \in {"load", "rebuild", "stop", "quit"}
  /\ subscribed \subseteq Field /\ subscribed_list \subseteq Field
  /\ subscribed_dirty \in BOOLEAN
  /\ log_ring \in [Field -> {"null", "live", "dangling"}]
  /\ periph_buf_mutex \in {Free, "main", "reader"}
  /\ link_running \in BOOLEAN
  /\ reader \in ReaderPc /\ updated \subseteq Field
  /\ target \in Field \cup {None} /\ any_logged \in BOOLEAN
  /\ running_ \in BOOLEAN
  /\ channels_ \in Seq(Field) /\ waiting \in [Field -> 0 .. RingCapacity]
  /\ channels_mutex_ \in {Free, "main", "fwriter"}
  /\ fwriter \in FwriterPc /\ cursor \in Nat

\* No configuration yet: no field is subscribed and the link is down.
Init ==
  /\ main = "frame" /\ clear_for = "load" /\ to_add = {}
  /\ subscribed = {} /\ subscribed_list = {} /\ subscribed_dirty = FALSE
  /\ log_ring = [f \in Field |-> "null"]
  /\ periph_buf_mutex = Free
  /\ link_running = FALSE
  /\ reader = "none" /\ updated = {} /\ target = None /\ any_logged = FALSE
  /\ running_ = FALSE
  /\ channels_ = <<>> /\ waiting = [f \in Field |-> 0]
  /\ channels_mutex_ = Free
  /\ fwriter = "none" /\ cursor = 1

-----------------------------------------------------------------------------
(* DataLogger::notify() and clear_channels().                              *)

\* No predicate and no lock: it wakes the file writer if it sleeps just now.
Wake == fwriter' = IF fwriter = "asleep" THEN "woken" ELSE fwriter

\* Mutation of ClearLock: without the lock.
ClearUnlocked ==
  /\ main = "clear"
  /\ main' = "clearing"
  /\ UNCHANGED <<clear_for, to_add, configVars, log_ring, periph_buf_mutex,
                 link_running, readerVars, running_, channels_, waiting,
                 channels_mutex_, fwriter, cursor>>

ClearLock ==
  /\ main = "clear"
  /\ channels_mutex_ = Free
  /\ channels_mutex_' = "main"
  /\ main' = "clearing"
  /\ UNCHANGED <<clear_for, to_add, configVars, log_ring, periph_buf_mutex,
                 link_running, readerVars, running_, channels_, waiting,
                 fwriter, cursor>>

\* The rings are freed with whatever they hold; a pointer to one dangles.
ClearChannels ==
  /\ main = "clearing"
  /\ channels_' = <<>>
  /\ waiting' = [f \in Field |-> 0]
  /\ log_ring' = [f \in Field |->
                    IF log_ring[f] = "null" THEN "null" ELSE "dangling"]
  /\ channels_mutex_' = Free
  /\ main' = CASE clear_for = "load"    -> "config"
               [] clear_for = "rebuild" -> "add"
               [] clear_for = "stop"    -> "rebuild"
               [] clear_for = "quit"    -> "quit"
  /\ UNCHANGED <<clear_for, to_add, configVars, periph_buf_mutex, link_running,
                 readerVars, running_, fwriter, cursor>>

-----------------------------------------------------------------------------
(* Main: loading a configuration, between two frames.                      *)

\* A file was dropped on the window: dl.stop().  A frame may load a .json and
\* then an .elf.
Load ==
  /\ main \in {"frame", "lock"}
  /\ link_running' = FALSE
  /\ main' = "join_reader"
  /\ UNCHANGED <<clear_for, to_add, configVars, log_ring, periph_buf_mutex,
                 readerVars, running_, channels_, waiting, channels_mutex_,
                 fwriter, cursor>>

JoinReader ==
  /\ main = "join_reader"
  /\ reader = "none"
  /\ main' = "clear" /\ clear_for' = "load"
  /\ UNCHANGED <<to_add, configVars, log_ring, periph_buf_mutex, link_running,
                 readerVars, running_, channels_, waiting, channels_mutex_,
                 fwriter, cursor>>

\* config = DarttConfig(), then the file: a .json says what is subscribed and
\* asks for a rebuild, an .elf does neither, a bad file leaves the link down.
\* The frame goes on to render.
LoadConfig ==
  /\ main = "config"
  /\ log_ring' = [f \in Field |-> "null"]
  /\ subscribed_list' = {}
  /\ \/ /\ subscribed' \in SUBSET Field
        /\ subscribed_dirty' = TRUE
        /\ link_running' = TRUE /\ reader' = "read"
     \/ /\ subscribed' = {}
        /\ subscribed_dirty' = FALSE
        /\ \/ link_running' = TRUE /\ reader' = "read"
           \/ UNCHANGED <<link_running, reader>>
  /\ main' = "lock"
  /\ UNCHANGED <<clear_for, to_add, periph_buf_mutex, updated, target,
                 any_logged, running_, channels_, waiting, channels_mutex_, fwriter,
                 cursor>>

-----------------------------------------------------------------------------
(* Main: one frame, from taking periph_buf_mutex to releasing it.          *)

mainOnly == <<log_ring, link_running, readerVars, waiting, channels_mutex_,
              cursor>>

BeginFrame ==
  /\ main \in {"frame", "lock"}
  /\ periph_buf_mutex = Free
  /\ periph_buf_mutex' = "main"
  /\ main' = "click"
  /\ UNCHANGED <<mainOnly, clear_for, to_add, configVars, running_, channels_,
                 fwriter>>

\* The user clicks on at most one thing.
NoClick ==
  /\ main = "click"
  /\ main' = "rebuild"
  /\ UNCHANGED <<mainOnly, clear_for, to_add, configVars, periph_buf_mutex,
                 running_, channels_, fwriter>>

\* One box, a whole subtree, or another change that asks for a rebuild.
Subscribe ==
  /\ main = "click"
  /\ subscribed' \in SUBSET Field
  /\ subscribed_dirty' = TRUE
  /\ main' = "rebuild"
  /\ UNCHANGED <<mainOnly, clear_for, to_add, subscribed_list,
                 periph_buf_mutex, running_, channels_, fwriter>>

StartLog ==
  /\ main = "click"
  /\ ~ running_
  /\ running_' = TRUE
  /\ fwriter' = "top"
  /\ subscribed_dirty' = TRUE
  /\ main' = "rebuild"
  /\ UNCHANGED <<mainOnly, clear_for, to_add, subscribed, subscribed_list,
                 periph_buf_mutex, channels_>>

\* Stop Log: DataLogger::stop(), all of it under periph_buf_mutex.
StopLog ==
  /\ main = "click"
  /\ running_
  /\ running_' = FALSE
  /\ main' = "notify" /\ clear_for' = "stop"
  /\ UNCHANGED <<mainOnly, to_add, configVars, periph_buf_mutex, channels_,
                 fwriter>>

\* Mutation of StopNotify: stop() joins without having notified.
StopQuietly ==
  /\ main = "notify"
  /\ main' = "join_fwriter"
  /\ UNCHANGED <<mainOnly, clear_for, to_add, configVars, periph_buf_mutex,
                 running_, channels_, fwriter>>

StopNotify ==
  /\ main = "notify"
  /\ Wake
  /\ main' = "join_fwriter"
  /\ UNCHANGED <<mainOnly, clear_for, to_add, configVars, periph_buf_mutex,
                 running_, channels_>>

\* A thread that was never started is not joinable: nothing to wait for.
JoinFwriter ==
  /\ main = "join_fwriter"
  /\ fwriter \in {"none", "done"}
  /\ fwriter' = "none"
  /\ main' = IF clear_for = "stop" THEN "null" ELSE "clear"
  /\ UNCHANGED <<mainOnly, clear_for, to_add, configVars, periph_buf_mutex,
                 running_, channels_>>

\* Null the rings of the subscribed list, and of no other field.
Unlogged == [f \in Field |-> IF f \in subscribed_list THEN "null"
                                                      ELSE log_ring[f]]

StopNull ==
  /\ main = "null"
  /\ log_ring' = Unlogged
  /\ main' = "clear"
  /\ UNCHANGED <<clear_for, to_add, configVars, periph_buf_mutex, link_running,
                 readerVars, running_, channels_, waiting, channels_mutex_,
                 fwriter, cursor>>

NoRebuild ==
  /\ main = "rebuild"
  /\ ~ subscribed_dirty
  /\ main' = "unlock"
  /\ UNCHANGED <<mainOnly, clear_for, to_add, configVars, periph_buf_mutex,
                 running_, channels_, fwriter>>

Rebuild ==
  /\ main = "rebuild"
  /\ subscribed_dirty
  /\ log_ring' = Unlogged
  /\ subscribed_list' = subscribed
  /\ IF running_
       THEN main' = "clear" /\ clear_for' = "rebuild" /\ to_add' = subscribed
       ELSE main' = "unlock" /\ UNCHANGED <<clear_for, to_add>>
  /\ UNCHANGED <<subscribed, subscribed_dirty, periph_buf_mutex, link_running,
                 readerVars, running_, channels_, waiting, channels_mutex_,
                 fwriter, cursor>>

\* A field of a type .npy has no name for, or whose file does not open.
AddNothing ==
  /\ main = "add"
  /\ \E f \in to_add : to_add' = to_add \ {f}
  /\ UNCHANGED <<mainOnly, main, clear_for, configVars, periph_buf_mutex,
                 running_, channels_, fwriter>>

AddLock ==
  /\ main = "add"
  /\ to_add # {}
  /\ channels_mutex_ = Free
  /\ channels_mutex_' = "main"
  /\ main' = "adding"
  /\ UNCHANGED <<clear_for, to_add, configVars, log_ring, periph_buf_mutex,
                 link_running, readerVars, running_, channels_, waiting,
                 fwriter, cursor>>

AddChannel ==
  /\ main = "adding"
  /\ \E f \in to_add :
       /\ channels_' = Append(channels_, f)
       /\ log_ring' = [log_ring EXCEPT ![f] = "live"]
       /\ to_add' = to_add \ {f}
  /\ channels_mutex_' = Free
  /\ main' = "add"
  /\ UNCHANGED <<clear_for, configVars, periph_buf_mutex, link_running,
                 readerVars, running_, waiting, fwriter, cursor>>

AddDone ==
  /\ main = "add"
  /\ to_add = {}
  /\ main' = "unlock"
  /\ UNCHANGED <<mainOnly, clear_for, to_add, configVars, periph_buf_mutex,
                 running_, channels_, fwriter>>

\* The read requests are rebuilt next, without the mutex.
EndFrame ==
  /\ main = "unlock"
  /\ periph_buf_mutex' = Free
  /\ subscribed_dirty' = FALSE
  /\ main' = "frame"
  /\ UNCHANGED <<mainOnly, clear_for, to_add, subscribed, subscribed_list,
                 running_, channels_, fwriter>>

-----------------------------------------------------------------------------
(* Main: the window is closed.                                             *)

Quit ==
  /\ main = "frame"
  /\ link_running' = FALSE
  /\ main' = "quit_join"
  /\ UNCHANGED <<clear_for, to_add, configVars, log_ring, periph_buf_mutex,
                 readerVars, running_, channels_, waiting, channels_mutex_,
                 fwriter, cursor>>

\* Mutation of QuitJoinReader: logging stops before the link has.
QuitAtOnce ==
  /\ main = "quit_join"
  /\ main' = "quit_stop"
  /\ UNCHANGED <<mainOnly, clear_for, to_add, configVars, periph_buf_mutex,
                 running_, channels_, fwriter>>

QuitJoinReader ==
  /\ main = "quit_join"
  /\ reader = "none"
  /\ main' = "quit_stop"
  /\ UNCHANGED <<mainOnly, clear_for, to_add, configVars, periph_buf_mutex,
                 running_, channels_, fwriter>>

QuitStop ==
  /\ main = "quit_stop"
  /\ running_' = FALSE
  /\ main' = "notify" /\ clear_for' = "quit"
  /\ UNCHANGED <<mainOnly, to_add, configVars, periph_buf_mutex, channels_,
                 fwriter>>

\* The process has ended.
Ended == main = "quit" /\ UNCHANGED vars

-----------------------------------------------------------------------------
(* Reader: on_read_reply(), as far as logging goes.                        *)

readerOnly == <<mainVars, configVars, log_ring, link_running, running_,
                channels_, channels_mutex_, cursor>>

\* A reply has arrived; which fields it updates shows in the callback.
Receive ==
  /\ reader = "read"
  /\ link_running
  /\ reader' = "parse"
  /\ UNCHANGED <<readerOnly, periph_buf_mutex, updated, target, any_logged,
                 waiting, fwriter>>

ReaderExit ==
  /\ reader = "read"
  /\ ~ link_running
  /\ reader' = "none"
  /\ UNCHANGED <<readerOnly, periph_buf_mutex, updated, target, any_logged,
                 waiting, fwriter>>

\* process_frame() needs periph_buf_mutex and waits for it.
Parse ==
  /\ reader = "parse"
  /\ periph_buf_mutex = Free
  /\ reader' = "callback"
  /\ UNCHANGED <<readerOnly, periph_buf_mutex, updated, target, any_logged,
                 waiting, fwriter>>

\* Mutation of TryLock: the callback goes ahead without the mutex.
TryNothing ==
  /\ reader = "callback"
  /\ updated' \in SUBSET subscribed_list
  /\ any_logged' = FALSE
  /\ reader' = "scan"
  /\ UNCHANGED <<readerOnly, periph_buf_mutex, target, waiting, fwriter>>

\* The callback only tries the mutex.  It looks at the subscribed fields the
\* reply covers, but not at those the user is editing.
TryLock ==
  /\ reader = "callback"
  /\ periph_buf_mutex = Free
  /\ periph_buf_mutex' = "reader"
  /\ updated' \in SUBSET subscribed_list
  /\ any_logged' = FALSE
  /\ reader' = "scan"
  /\ UNCHANGED <<readerOnly, target, waiting, fwriter>>

TryFails ==
  /\ reader = "callback"
  /\ periph_buf_mutex # Free
  /\ reader' = "read"
  /\ UNCHANGED <<readerOnly, periph_buf_mutex, updated, target, any_logged,
                 waiting, fwriter>>

\* One field: read its log_ring; if that is not null, follow it.
LookAt ==
  /\ reader = "scan"
  /\ \E f \in updated :
       /\ updated' = updated \ {f}
       /\ IF log_ring[f] = "null"
            THEN UNCHANGED <<reader, target>>
            ELSE reader' = "push" /\ target' = f
  /\ UNCHANGED <<readerOnly, periph_buf_mutex, any_logged, waiting, fwriter>>

Push ==
  /\ reader = "push"
  /\ waiting' = [waiting EXCEPT ![target] =
                    IF log_ring[target] = "live" /\ @ < RingCapacity THEN @ + 1
                                                                ELSE @]
  /\ any_logged' = TRUE
  /\ reader' = "scan"
  /\ UNCHANGED <<readerOnly, periph_buf_mutex, updated, target, fwriter>>

CallbackReturns ==
  /\ reader = "scan"
  /\ updated = {}
  /\ IF any_logged THEN Wake ELSE UNCHANGED fwriter
  /\ periph_buf_mutex' = Free
  /\ reader' = "read"
  /\ UNCHANGED <<readerOnly, updated, target, any_logged, waiting>>

-----------------------------------------------------------------------------
(* File writer: file_writer_loop().                                        *)

fwriterOnly == <<mainVars, configVars, log_ring, periph_buf_mutex,
                 link_running, readerVars, running_, channels_>>

LoopTest ==
  /\ fwriter = "top"
  /\ fwriter' = IF running_ THEN "wait" ELSE "final"
  /\ UNCHANGED <<fwriterOnly, waiting, channels_mutex_, cursor>>

Sleep ==
  /\ fwriter = "wait"
  /\ fwriter' = "asleep"
  /\ UNCHANGED <<fwriterOnly, waiting, channels_mutex_, cursor>>

SpuriousWakeup ==
  /\ fwriter = "asleep"
  /\ fwriter' = "woken"
  /\ UNCHANGED <<fwriterOnly, waiting, channels_mutex_, cursor>>

Woken ==
  /\ fwriter = "woken"
  /\ fwriter' = IF running_ THEN "try" ELSE "final"
  /\ UNCHANGED <<fwriterOnly, waiting, channels_mutex_, cursor>>

TryChannels ==
  /\ fwriter \in {"try", "final"}
  /\ IF channels_mutex_ = Free
       THEN /\ channels_mutex_' = "fwriter"
            /\ cursor' = 1
            /\ fwriter' = IF fwriter = "try" THEN "drain" ELSE "flush"
       ELSE /\ fwriter' = IF fwriter = "try" THEN "top" ELSE "done"
            /\ UNCHANGED <<channels_mutex_, cursor>>
  /\ UNCHANGED <<fwriterOnly, waiting>>

draining == fwriter \in {"drain", "flush"} /\ cursor <= Len(channels_)

\* drain_ring_buffer(): pop a sample and write it.
PopSample ==
  /\ draining
  /\ waiting[channels_[cursor]] > 0
  /\ waiting' = [waiting EXCEPT ![channels_[cursor]] = @ - 1]
  /\ UNCHANGED <<fwriterOnly, channels_mutex_, fwriter, cursor>>

NextChannel ==
  /\ draining
  /\ waiting[channels_[cursor]] = 0
  /\ cursor' = cursor + 1
  /\ UNCHANGED <<fwriterOnly, waiting, channels_mutex_, fwriter>>

DrainDone ==
  /\ fwriter \in {"drain", "flush"}
  /\ cursor > Len(channels_)
  /\ channels_mutex_' = Free
  /\ fwriter' = IF fwriter = "drain" THEN "top" ELSE "done"
  /\ UNCHANGED <<fwriterOnly, waiting, cursor>>

-----------------------------------------------------------------------------
MainChooses == Load \/ BeginFrame \/ Quit

MainContinues ==
  \/ ClearLock \/ ClearChannels \/ JoinReader \/ LoadConfig
  \/ NoClick \/ Subscribe \/ StartLog \/ StopLog
  \/ StopNotify \/ JoinFwriter \/ StopNull
  \/ NoRebuild \/ Rebuild \/ AddNothing \/ AddLock \/ AddChannel \/ AddDone
  \/ EndFrame \/ QuitJoinReader \/ QuitStop

ReaderContinues ==
  \/ ReaderExit \/ Parse \/ TryLock \/ TryFails
  \/ LookAt \/ Push \/ CallbackReturns

FwriterStep ==
  \/ LoopTest \/ Sleep \/ Woken \/ TryChannels
  \/ PopSample \/ NextChannel \/ DrainDone

Next ==
  \/ MainChooses \/ MainContinues \/ Ended
  \/ Receive \/ ReaderContinues
  \/ FwriterStep \/ SpuriousWakeup

Spec == Init /\ [][Next]_vars

\* Threads that can run do; the device need not answer, the user need not
\* act, and a condition variable need not wake up by itself.
Fairness ==
  /\ WF_vars(MainContinues)
  /\ WF_vars(ReaderContinues)
  /\ WF_vars(FwriterStep)

FairSpec == Spec /\ Fairness

-----------------------------------------------------------------------------
(* Safety.                                                                 *)

\* The callback never follows a null pointer or one to a freed ring, in
\* whatever order fields are subscribed, logging is started and stopped and
\* configurations are loaded.
NoDangling == reader = "push" => log_ring[target] = "live"

\* log_ring is "non-null only when subscribed and logger is running"
\* (config.h:110), at least when the read thread could look.
RingMeansLogging ==
  periph_buf_mutex # "main" /\ reader # "none" =>
    \A f \in Field :
      log_ring[f] # "null" =>
        log_ring[f] = "live" /\ f \in subscribed /\ running_

\* So a pointer to a ring exists exactly while a push through it is safe: both
\* when the read thread looks and at the push itself, which may come later.
RingsLive == NoDangling /\ RingMeansLogging

\* Nothing the rings accepted is lost by Stop Log or by quitting: the file
\* writer has emptied them all before their channels are destroyed.
StopKeepsSamples ==
  main = "clear" /\ clear_for \in {"stop", "quit"} =>
    \A f \in Field : waiting[f] = 0

\* The vector of channels does not change under the file writer's loop.
VectorStable ==
  fwriter \in {"drain", "flush"} =>
    main \notin {"clearing", "adding"} /\ cursor <= Len(channels_) + 1

\* start() never assigns to the handle of a thread not yet joined, which would
\* end the program, and no two threads pop the same ring.
StartAfterJoin == main = "click" /\ ~ running_ => fwriter = "none"

\* From its start to its join one file writer walks one vector undisturbed.
WriterUndisturbed == VectorStable /\ StartAfterJoin

-----------------------------------------------------------------------------
(* Liveness.                                                               *)

\* Stop Log, which holds periph_buf_mutex all along, returns to the render
\* loop, and quitting comes to its end, unless stop() notifies between the file
\* writer's test of running_ and its wait (logger.cpp:134-139): one that is
\* asleep by then is woken, and neither the read thread waiting for that mutex
\* nor the samples left nor the mutex of the channels is in the way.
StopLogReturnsIfHeard ==
  /\ main = "notify" /\ clear_for = "stop" /\ fwriter # "wait" ~> main = "unlock"
  /\ main = "notify" /\ clear_for = "quit" /\ fwriter # "wait" ~> main = "quit"

\* Loading a configuration gets past dl.stop(): the read thread can always
\* have the mutex it may be waiting for.
LinkStops == main = "join_reader" ~> main = "clear"

\* The render loop's joins return, whatever mutex it holds at them.
JoinsReturn == StopLogReturnsIfHeard /\ LinkStops

-----------------------------------------------------------------------------
(* What docs/DataLogger.md says and the code does not do.                  *)

\* "stop() also signals the cv so the thread can observe running_ = false and
\* exit cleanly".
StopLogReturns == main = "notify" /\ clear_for = "stop" ~> main = "unlock"

\* notify() "wakes the writer thread immediately": once the callback has
\* returned, the file writer does not sleep over the samples it pushed.
NotifyWakes ==
  fwriter = "asleep" /\ running_ /\ reader \in {"none", "read"} =>
    \A f \in Field : waiting[f] = 0
=============================================================================
