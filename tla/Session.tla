------------------------------- MODULE Session -------------------------------
(***************************************************************************)
(* The dashboard from one start to the next: what main() (main.cpp) loads  *)
(* from the files dropped on its window, what it leaves on disk, and what  *)
(* it asks the peripheral for.  One action per step of the main loop that  *)
(* touches a file or the link, so that a crash may fall between any two.   *)
(*                                                                         *)
(* A layout is the set of its leaves; a leaf stands for its key, offset    *)
(* and name.  frame stands for what is baked into every request: format,   *)
(* address and base offset.  A file's contents are a record with a kind;   *)
(* only the files named here are written, and nobody else writes them.     *)
(***************************************************************************)
EXTENDS Naturals

CONSTANTS
  Layouts,        \* the sets of leaves a configuration may have
  Frames, DefaultFrame,  \* the settings of the link, and those at a start
  Elf, Json,      \* the paths of the files the user may drop
  JsonOf,         \* the .json beside an .elf
  Symbols,        \* the layouts of the variables of each .elf
  OddFiles,       \* a dropped .json may hold JSON that is no configuration
  Wild,           \* may a display scale typed by the user be out of a float's range
  Writable        \* may a file be opened for writing: {TRUE}, or BOOLEAN

Leaves  == UNION Layouts
NoPath  == "no path"
Paths   == Elf \union Json
Torn    == [kind |-> "torn"]       \* empty, or cut short: not JSON
Odd     == [kind |-> "odd"]        \* JSON of the wrong types
Absent  == [kind |-> "absent"]
Program == [kind |-> "elf"]
NoFrame == "none"

\* The ui_map of a file: the leaves it has settings for, those subscribed,
\* and whether a scale was written as null, as JSON has no infinity.
NoUi == [keys |-> {}, sub |-> {}, wild |-> FALSE]

\* A configuration file as elf_parser_generate_json() writes it.
Generated(layout) ==
  [kind |-> "json", layout |-> layout, ui |-> NoUi, frame |-> NoFrame]

\* config: the tree's leaves and their flags; DarttConfig() has none.
Empty == [layout |-> {}, sub |-> {}, wild |-> FALSE]

Nothing == [path |-> NoPath]

ASSUME SessionAssumption ==
  /\ JsonOf \in [Elf -> Json]
  /\ Symbols \in [Elf -> SUBSET Layouts]
  /\ Elf \intersect Json = {} /\ NoPath \notin Elf \union Json
  /\ DefaultFrame \in Frames /\ NoFrame \notin Frames
  /\ OddFiles \in BOOLEAN /\ Wild \subseteq BOOLEAN /\ Writable \subseteq BOOLEAN

VARIABLES
  disk,      \* the contents of each path
  ini,       \* last_json in dartt_dashboard.ini
  at,        \* where the main thread is; "off" when the program does not run
  loading,   \* which of the two loads the steps in common belong to
  dropped_file_path, pending_json_load, popup,
  config, config_json_path,
  bases,     \* ctl_base and periph_base: null, the live buffers, or old ones
  running,   \* the link's threads
  frame, streaming_mode, subscribed_dirty,
  read_requests,
  doc,       \* the JSON that save_dartt_config() holds while it writes
  unflagged, \* ghost: something the requests depend on changed with no flag
  fresh,     \* ghost: no drop and no click since the start
  kept       \* ghost: what was last loaded or saved, and not overwritten since

files  == <<disk, ini>>
drops  == <<dropped_file_path, pending_json_load, popup>>
loaded == <<config, config_json_path, bases, subscribed_dirty>>
link   == <<running, frame, streaming_mode, read_requests>>
vars   == <<files, at, loading, drops, loaded, link, doc, unflagged, fresh, kept>>

\* What build_read_requests() makes of a configuration: one request a leaf,
\* none in streaming mode.
Wanted(c, f, streaming) ==
  IF streaming THEN {} ELSE {[leaf |-> l, layout |-> c.layout, frame |-> f] : l \in c.sub}

\* A process that has loaded nothing: main() up to its loop, except for ini.
NothingLoaded ==
  /\ dropped_file_path = NoPath /\ pending_json_load = FALSE /\ popup = FALSE
  /\ config = Empty /\ config_json_path = NoPath /\ bases = "null"
  /\ running = FALSE /\ frame = DefaultFrame /\ streaming_mode = FALSE
  /\ read_requests = {} /\ subscribed_dirty = FALSE
  /\ doc = Absent /\ loading = "none" /\ unflagged = FALSE

\* The user's own files: configurations from generate_json.py or an earlier
\* dashboard, JSON that is something else, or nothing yet.
Init ==
  /\ disk \in [Paths -> {Program, Absent} \union {Generated(l) : l \in Layouts}
                           \union (IF OddFiles THEN {Odd} ELSE {})]
  /\ \A p \in Paths : disk[p] = Program <=> p \in Elf
  /\ ini = NoPath /\ at = "off" /\ NothingLoaded
  /\ fresh = FALSE /\ kept = Nothing

\* Start: the file named by the ini is loaded first, if it can be opened.
Boot ==
  /\ at = "off" /\ at' = "poll" /\ fresh' = TRUE
  /\ IF ini # NoPath /\ disk[ini] # Absent
     THEN dropped_file_path' = ini /\ pending_json_load' = TRUE
     ELSE UNCHANGED <<dropped_file_path, pending_json_load>>
  /\ UNCHANGED <<files, loading, popup, loaded, link, doc, unflagged, kept>>

\* The process ends and leaves only its files; the link's threads go with it.
Ends ==
  /\ at' = "off" /\ fresh' = FALSE
  /\ dropped_file_path' = NoPath /\ pending_json_load' = FALSE /\ popup' = FALSE
  /\ config' = Empty /\ config_json_path' = NoPath /\ bases' = "null"
  /\ running' = FALSE /\ frame' = DefaultFrame /\ streaming_mode' = FALSE
  /\ read_requests' = {} /\ subscribed_dirty' = FALSE
  /\ doc' = Absent /\ loading' = "none" /\ unflagged' = FALSE
  /\ UNCHANGED <<files, kept>>

\* At quit main stops the threads and saves nothing.
Quit  == at = "poll" /\ Ends
Crash == at \notin {"off", "poll"} /\ Ends

\* An event of SDL_PollEvent().  Every drop overwrites the one path there is.
Drop(p) ==
  /\ at = "poll" /\ fresh' = FALSE
  /\ dropped_file_path' = p
  /\ IF p \in Elf THEN popup' = TRUE /\ UNCHANGED pending_json_load
                  ELSE pending_json_load' = TRUE /\ UNCHANGED popup
  /\ UNCHANGED <<files, at, loading, loaded, link, doc, unflagged, kept>>

BeginFrame ==
  /\ at = "poll"
  /\ IF pending_json_load THEN at' = "stop" /\ loading' = "json"
                          ELSE at' = "popup" /\ UNCHANGED loading
  /\ pending_json_load' = FALSE
  /\ UNCHANGED <<files, dropped_file_path, popup, loaded, link, doc, unflagged, fresh, kept>>

\* render_elf_load_popup() returns what the modal's buttons say.
PopupLoad ==
  /\ at = "popup" /\ popup
  /\ at' = "stop" /\ loading' = "elf" /\ fresh' = FALSE
  /\ UNCHANGED <<files, drops, loaded, link, doc, unflagged, kept>>

PopupCancel ==
  /\ at = "popup" /\ popup /\ popup' = FALSE /\ at' = "render"
  /\ UNCHANGED <<files, loading, dropped_file_path, pending_json_load, loaded, link,
                 doc, unflagged, fresh, kept>>

PopupWaits ==
  /\ at = "popup" /\ at' = "render"
  /\ UNCHANGED <<files, loading, drops, loaded, link, doc, unflagged, fresh, kept>>

----------------------------------------------------------------------------
(* Loading: dl.stop(), the sources and bases detached, DarttConfig(), the  *)
(* file read, buffers bound, settings remembered, dl.start().              *)

\* Mutation of StopLink: it is not stopped.
StopLinkNot ==
  /\ at = "stop" /\ at' = "detach"
  /\ UNCHANGED <<files, loading, drops, loaded, link, doc, unflagged, fresh, kept>>

StopLink ==
  /\ at = "stop" /\ at' = "detach" /\ running' = FALSE
  /\ UNCHANGED <<files, loading, drops, loaded, frame, streaming_mode, read_requests,
                 doc, unflagged, fresh, kept>>

\* The bases are nulled before the buffers they point at are forgotten.
Detach ==
  /\ at = "detach" /\ at' = "replace" /\ bases' = "null"
  /\ UNCHANGED <<files, loading, drops, config, config_json_path, subscribed_dirty, link,
                 doc, unflagged, fresh, kept>>

Replace ==
  /\ at = "replace" /\ at' = "read"
  /\ config' = Empty /\ subscribed_dirty' = FALSE
  /\ bases' = IF bases = "live" THEN "old" ELSE bases
  /\ UNCHANGED <<files, loading, drops, config_json_path, link, doc, unflagged, fresh, kept>>

\* What a scale of null, or a value of the wrong type, does to j.value().
Throws(content) ==
  \/ content.kind = "odd"
  \/ content.kind = "json" /\ content.ui.wild /\ content.ui.keys \intersect content.layout # {}

\* load_dartt_config() that returns true.
ReadJson ==
  LET file == disk[dropped_file_path] IN
  /\ at = "read" /\ loading = "json" /\ file.kind = "json" /\ ~Throws(file)
  /\ frame' = IF file.frame = NoFrame THEN frame ELSE file.frame
  /\ config' = [layout |-> file.layout, sub |-> file.ui.sub \intersect file.layout, wild |-> FALSE]
  /\ subscribed_dirty' = TRUE /\ at' = "bind"
  /\ UNCHANGED <<files, loading, drops, config_json_path, bases, running, streaming_mode,
                 read_requests, doc, unflagged, fresh, kept>>

\* No file, or not JSON: false.  The old configuration is gone already.
ReadFails ==
  LET file == disk[dropped_file_path] IN
  /\ at = "read" /\ loading = "json" /\ file.kind \in {"absent", "torn", "elf"}
  /\ at' = "popup"
  /\ UNCHANGED <<files, loading, drops, loaded, link, doc, unflagged, fresh, kept>>

\* json::type_error is not caught.
ReadThrows ==
  LET file == disk[dropped_file_path] IN
  /\ at = "read" /\ loading = "json" /\ Throws(file)
  /\ Ends

\* elf_parser_load_config() of the path that was dropped last.
ReadElf ==
  /\ at = "read" /\ loading = "elf" /\ dropped_file_path \in Elf
  /\ \E layout \in Symbols[dropped_file_path] :
       config' = [layout |-> layout, sub |-> {}, wild |-> FALSE]
  /\ at' = "bind" /\ unflagged' = TRUE
  /\ UNCHANGED <<files, loading, drops, config_json_path, bases, subscribed_dirty, link,
                 doc, fresh, kept>>

\* No such variable, or not an ELF file: the popup stays with its error.
ReadElfFails ==
  /\ at = "read" /\ loading = "elf" /\ at' = "render"
  /\ UNCHANGED <<files, loading, drops, loaded, link, doc, unflagged, fresh, kept>>

Bind ==
  /\ at = "bind" /\ at' = IF loading = "json" THEN "remember" ELSE "generate"
  /\ bases' = IF config.layout = {} THEN bases ELSE "live"
  /\ config_json_path' = IF loading = "json" THEN dropped_file_path
                                             ELSE JsonOf[dropped_file_path]
  /\ UNCHANGED <<files, loading, drops, config, subscribed_dirty, link, doc, unflagged,
                 fresh, kept>>

\* save_last_json_path(): fopen("w") truncates, or fails; fprintf() writes.
Remember ==
  /\ at = "remember"
  /\ \E opens \in Writable : IF opens THEN at' = "remembered" /\ ini' = NoPath
                                       ELSE at' = "start" /\ UNCHANGED ini
  /\ UNCHANGED <<disk, loading, drops, loaded, link, doc, unflagged, fresh, kept>>

Remembered ==
  /\ at = "remembered" /\ at' = "start" /\ ini' = config_json_path
  /\ UNCHANGED <<disk, loading, drops, loaded, link, doc, unflagged, fresh, kept>>

Overwritten(p) == IF kept.path = p THEN Nothing ELSE kept

\* Mutation of Generate: a file that exists is kept.
GenerateOnce ==
  /\ at = "generate"
  /\ IF disk[config_json_path].kind = "json" THEN at' = "start" /\ UNCHANGED <<disk, kept>>
     ELSE /\ at' = "generated" /\ disk' = [disk EXCEPT ![config_json_path] = Torn]
          /\ kept' = Overwritten(config_json_path)
  /\ UNCHANGED <<ini, loading, drops, loaded, link, doc, unflagged, fresh>>

\* elf_parser_generate_json() opens its file, or fails to; its result is not
\* looked at.
Generate ==
  /\ at = "generate"
  /\ \E opens \in Writable :
       IF opens
       THEN /\ at' = "generated" /\ disk' = [disk EXCEPT ![config_json_path] = Torn]
            /\ kept' = Overwritten(config_json_path)
       ELSE at' = "start" /\ UNCHANGED <<disk, kept>>
  /\ UNCHANGED <<ini, loading, drops, loaded, link, doc, unflagged, fresh>>

GenerateWrites ==
  /\ at = "generated" /\ at' = "start"
  /\ disk' = [disk EXCEPT ![config_json_path] = Generated(config.layout)]
  /\ UNCHANGED <<ini, loading, drops, loaded, link, doc, unflagged, fresh, kept>>

\* dl.start().  CloseCurrentPopup() is called outside the popup's Begin and
\* End; whether that closes it is ImGui's to say.
StartLink ==
  /\ at = "start" /\ running' = TRUE
  /\ IF loading = "json" THEN at' = "popup" /\ UNCHANGED popup
                         ELSE at' = "render" /\ popup' \in BOOLEAN
  /\ UNCHANGED <<files, loading, dropped_file_path, pending_json_load, loaded, frame,
                 streaming_mode, read_requests, doc, unflagged, fresh, kept>>

----------------------------------------------------------------------------
(* The Live Expressions window: at most one click a frame, and none on it  *)
(* while the modal is open.                                                *)

NoClick ==
  /\ at = "render" /\ at' = "rebuild"
  /\ UNCHANGED <<files, loading, drops, loaded, link, doc, unflagged, fresh, kept>>

Clicks == at = "render" /\ ~popup /\ fresh' = FALSE

\* Mutation of ClickFormat: the change is not flagged.
ClickFormatQuiet(f) ==
  /\ Clicks /\ at' = "rebuild" /\ frame' = f
  /\ UNCHANGED <<files, loading, drops, loaded, running, streaming_mode, read_requests,
                 doc, unflagged, kept>>

\* The frame format is watched for changes...
ClickFormat(f) ==
  /\ Clicks /\ at' = "rebuild"
  /\ frame' = f /\ subscribed_dirty' = (subscribed_dirty \/ f # frame)
  /\ UNCHANGED <<files, loading, drops, config, config_json_path, bases, running,
                 streaming_mode, read_requests, doc, unflagged, kept>>

\* ... the address and the base offset are edited in place.
EditAddress(f) ==
  /\ Clicks /\ at' = "rebuild"
  /\ frame' = f /\ unflagged' = (unflagged \/ f # frame)
  /\ UNCHANGED <<files, loading, drops, loaded, running, streaming_mode, read_requests,
                 doc, kept>>

ClickLeaf(l) ==
  /\ Clicks /\ at' = "rebuild" /\ l \in config.layout
  /\ config' = [config EXCEPT !.sub = IF l \in @ THEN @ \ {l} ELSE @ \union {l}]
  /\ subscribed_dirty' = TRUE
  /\ UNCHANGED <<files, loading, drops, config_json_path, bases, link, doc, unflagged, kept>>

ClickStreaming ==
  /\ Clicks /\ at' = "rebuild"
  /\ streaming_mode' = ~streaming_mode /\ subscribed_dirty' = TRUE
  /\ UNCHANGED <<files, loading, drops, config, config_json_path, bases, running, frame,
                 read_requests, doc, unflagged, kept>>

\* A display scale such as 1e99 becomes an infinite float.
EditScale(wild) ==
  /\ Clicks /\ at' = "rebuild" /\ config.layout # {}
  /\ config' = [config EXCEPT !.wild = wild]
  /\ UNCHANGED <<files, loading, drops, config_json_path, bases, subscribed_dirty, link,
                 doc, unflagged, kept>>

\* save_dartt_config() reads the file it is about to change.  (JSON of the
\* wrong types makes it throw: that step is Crash.)
ClickSave ==
  /\ Clicks /\ config_json_path # NoPath /\ disk[config_json_path].kind = "json"
  /\ doc' = disk[config_json_path] /\ at' = "save"
  /\ UNCHANGED <<files, loading, drops, loaded, link, unflagged, kept>>

SaveRefused ==
  /\ Clicks /\ at' = "rebuild"
  /\ config_json_path # NoPath => disk[config_json_path].kind \in {"absent", "torn"}
  /\ UNCHANGED <<files, loading, drops, loaded, link, doc, unflagged, kept>>

\* The ofstream truncates what was read, or does not open ...
SaveOpens ==
  /\ at = "save"
  /\ \E opens \in Writable :
       IF opens
       THEN /\ at' = "saving" /\ disk' = [disk EXCEPT ![config_json_path] = Torn]
            /\ kept' = Overwritten(config_json_path) /\ UNCHANGED doc
       ELSE at' = "rebuild" /\ doc' = Absent /\ UNCHANGED <<disk, kept>>
  /\ UNCHANGED <<ini, loading, drops, loaded, link, unflagged, fresh>>

\* Mutation of Saved: the link's settings are left as they were read.
SavedUi ==
  [doc EXCEPT !.ui = [keys |-> config.layout, sub |-> config.sub, wild |-> config.wild]]

\* ... and the document goes back with ui_map and serial_settings replaced.
Saved ==
  [doc EXCEPT !.ui = [keys |-> config.layout, sub |-> config.sub, wild |-> config.wild],
              !.frame = frame]

SaveWrites ==
  /\ at = "saving" /\ at' = "rebuild" /\ doc' = Absent
  /\ disk' = [disk EXCEPT ![config_json_path] = Saved]
  /\ kept' = [path |-> config_json_path, sub |-> config.sub, frame |-> frame]
  /\ UNCHANGED <<ini, loading, drops, loaded, link, unflagged, fresh>>

----------------------------------------------------------------------------
(* The end of a frame: collect_subscribed_fields(), build_read_queue(),    *)
(* build_read_requests(), if anything was flagged and there are buffers.   *)

Rebuild ==
  /\ at = "rebuild" /\ at' = "poll" /\ subscribed_dirty' = FALSE
  /\ IF subscribed_dirty /\ config.layout # {}
     THEN /\ read_requests' = Wanted(config, frame, streaming_mode)
          /\ unflagged' = FALSE
     ELSE UNCHANGED <<read_requests, unflagged>>
  /\ loading' = "none"
  /\ UNCHANGED <<files, drops, config, config_json_path, bases, running, frame,
                 streaming_mode, doc, fresh, kept>>

Clicking ==
  \/ NoClick \/ ClickStreaming \/ ClickSave \/ SaveRefused
  \/ \E wild \in Wild : EditScale(wild)
  \/ \E f \in Frames : ClickFormat(f) \/ EditAddress(f)
  \/ \E l \in Leaves : ClickLeaf(l)

Load ==
  \/ StopLink \/ Detach \/ Replace \/ ReadJson \/ ReadFails \/ ReadThrows
  \/ ReadElf \/ ReadElfFails \/ Bind \/ Remember \/ Remembered
  \/ Generate \/ GenerateWrites \/ StartLink

Next ==
  \/ Boot \/ Quit \/ Crash
  \/ \E p \in Paths : Drop(p)
  \/ BeginFrame \/ PopupLoad \/ PopupCancel \/ PopupWaits
  \/ Load \/ Clicking \/ SaveOpens \/ SaveWrites \/ Rebuild

Spec == Init /\ [][Next]_vars

----------------------------------------------------------------------------
(* Properties.                                                             *)

\* Every variable stays in its range: paths, a configuration whose flags are
\* on leaves it has, contents of files the program can have left.
Contents ==
  {Torn, Odd, Absent, Program} \union
  [kind : {"json"}, layout : Layouts, frame : Frames \union {NoFrame},
   ui : [keys : SUBSET Leaves, sub : SUBSET Leaves, wild : BOOLEAN]]

TypeOK ==
  /\ disk \in [Paths -> Contents]
  /\ ini \in Paths \union {NoPath}
  /\ at \in {"off", "poll", "stop", "detach", "replace", "read", "bind", "remember", "remembered",
             "generate", "generated", "start", "popup", "render", "save", "saving", "rebuild"}
  /\ loading \in {"none", "json", "elf"}
  /\ dropped_file_path \in Paths \union {NoPath} /\ config_json_path \in Paths \union {NoPath}
  /\ {pending_json_load, popup, running, streaming_mode, subscribed_dirty, unflagged, fresh} \subseteq BOOLEAN
  /\ config \in [layout : Layouts \union {{}}, sub : SUBSET Leaves, wild : BOOLEAN]
  /\ config.sub \subseteq config.layout
  /\ bases \in {"null", "live", "old"} /\ frame \in Frames
  /\ doc \in Contents

\* The link's threads never run on null bases or on the buffers of a
\* configuration that main has replaced (main.cpp:327-407: stop, detach,
\* replace, bind, start).
BuffersLive == running => bases = "live"

\* At the end of a frame the requests the running link repeats are those of
\* the subscriptions, the layout and the link settings of now, unless an
\* address was edited or an ELF file loaded since the last rebuild
\* (ui.cpp:852, main.cpp:447-489).
ListFits ==
  at = "poll" /\ running /\ ~unflagged => read_requests = Wanted(config, frame, streaming_mode)

\* No file holds settings for leaves its own layout does not have, whatever
\* order of drops, saves and crashes wrote it (main.cpp:357, 389;
\* config.cpp:501).
KeysMatchLayout ==
  \A p \in Paths : disk[p].kind = "json" => disk[p].ui.keys \subseteq disk[p].layout

\* The file the next start loads first is not one that ends the program
\* while it is loaded (main.cpp:358: last_json is written after the load).
BootsAgain == ini # NoPath => ~Throws(disk[ini])

\* A start shows the subscriptions and link settings of the last save to the
\* file it remembers, through any crash that did not fall into a write.
RestartRestores ==
  at = "render" /\ fresh /\ ini # NoPath /\ kept.path = ini =>
    config_json_path = ini /\ config.sub = kept.sub /\ frame = kept.frame

----------------------------------------------------------------------------
(* What the code does not promise; each has a configuration that shows the *)
(* counterexample.                                                         *)

\* config.cpp:499: a save "only adds ui objects, preserves everything else".
\* After a failed load the old path is still there and the tree is empty.
SavePreserves == at = "saving" => doc.ui.keys \subseteq Saved.ui.keys

\* ui.cpp:852 rebuilds the requests because their "frame format is stale upon
\* change"; so are address, base offset and, after an ELF load, the layout.
RequestsFit ==
  at = "poll" /\ running => read_requests = Wanted(config, frame, streaming_mode)

\* A load of JSON reads a file that was dropped as JSON.
JsonLoadsJson == at = "read" /\ loading = "json" => dropped_file_path \in Json

\* A start opens the file that was saved last.
RestartFindsSave ==
  at = "render" /\ fresh /\ kept # Nothing => config_json_path = kept.path

\* No configuration file is lost to a crash.
CrashLosesNothing == at = "off" => \A p \in Paths : disk[p] # Torn
=============================================================================
