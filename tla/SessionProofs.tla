--------------------------- MODULE SessionProofs ---------------------------
(***************************************************************************)
(* Proofs about Session, for every set of files, leaves, layouts and link  *)
(* settings, through drops, loads, clicks, saves, quits and crashes at     *)
(* every step: type correctness, the link's threads run on live buffers,   *)
(* the requests follow the settings, no file gets the settings of another  *)
(* layout, and a start brings back the last save of the file it opens.     *)
(*                                                                         *)
(* Two facts about the files are hypotheses where they are needed, not     *)
(* assumptions of the module: a configuration has leaves, and a JSON file  *)
(* that can be read can be written.  Without either the property fails.    *)
(***************************************************************************)
EXTENDS Session, TLAPS

\* The steps of a load, and those of it that follow the binding.
Loads == {"stop", "detach", "replace", "read", "bind", "remember", "remembered",
          "generate", "generated", "start"}
Bound == {"remember", "remembered", "generate", "generated", "start"}

\* What a step of the main loop may rely on when it is reached: that there is
\* a file to load, that a configuration is in force, that a document is open.
Phases ==
  /\ popup \/ pending_json_load \/ at \in Loads => dropped_file_path \in Paths
  /\ at \in Loads => loading \in {"json", "elf"}
  /\ at = "bind" /\ loading = "elf" => dropped_file_path \in Elf
  /\ at \in Bound \union {"save", "saving"} => config_json_path \in Paths
  /\ at \in Bound \union {"bind"} => config.layout \in Layouts
  /\ at \in {"generate", "generated"} => loading = "elf"
  /\ at = "off" => dropped_file_path = NoPath /\ ~popup /\ ~pending_json_load
                     /\ loading = "none"
  /\ at \in {"save", "saving"} => doc.kind = "json"

TInv == TypeOK /\ Phases

\* The link's threads run, and a load ends, only with buffers of the layout in
\* force; the requests in use were built from the settings of now.
LinkInv ==
  /\ at \in Loads \ {"stop"} => ~running
  /\ running \/ at \in Bound => bases = "live" /\ config.layout # {}
  /\ at = "bind" => config.layout # {}
  /\ at \in {"off", "poll"} => ~subscribed_dirty
  /\ at \in Bound \union {"bind"} => subscribed_dirty \/ unflagged
  /\ running /\ ~unflagged /\ ~subscribed_dirty =>
        read_requests = Wanted(config, frame, streaming_mode)

\* The file a configuration came from has its leaves, from the moment it is
\* read to the moment its settings are written back.
Matches ==
  /\ KeysMatchLayout
  /\ at \notin {"bind", "generate"} /\ config_json_path # NoPath
        /\ disk[config_json_path].kind = "json" =>
        config.layout \subseteq disk[config_json_path].layout
  /\ at = "bind" /\ loading = "json" /\ disk[dropped_file_path].kind = "json" =>
        config.layout \subseteq disk[dropped_file_path].layout
  /\ at \in {"save", "saving"} => config.layout \subseteq doc.layout

\* What was last saved is what is in force.
Restored == config.sub = kept.sub /\ frame = kept.frame

\* The last save is still on disk, under the layout it was made for.
KeptIsOnDisk ==
  kept # Nothing =>
    /\ kept.path \in Paths
    /\ kept.sub \subseteq disk[kept.path].layout
    /\ disk[kept.path].kind = "json"
    /\ disk[kept.path].ui.sub = kept.sub
    /\ disk[kept.path].frame = kept.frame /\ kept.frame \in Frames
    /\ at \in {"generated", "saving"} => kept.path # config_json_path

\* From a start to the first thing the user does, the only file that can be
\* loaded is the one of the ini file.
FreshStart ==
  fresh =>
    /\ ~popup /\ loading # "elf" /\ at \notin {"off", "save", "saving"}
    /\ ini # NoPath /\ kept # Nothing /\ kept.path = ini => dropped_file_path = ini
    /\ at \in {"remember", "remembered"} => config_json_path = dropped_file_path
    /\ kept # Nothing /\ kept.path = dropped_file_path =>
         /\ at = "bind" => Restored
         /\ at \in {"remember", "remembered", "start", "popup", "render", "rebuild"} =>
               config_json_path = dropped_file_path /\ Restored
         /\ at = "poll" /\ ~pending_json_load =>
               config_json_path = dropped_file_path /\ Restored

LEMMA ContentParts ==
  ASSUME NEW c \in Contents, c.kind = "json"
  PROVE  /\ c.layout \in Layouts /\ c.frame \in Frames \union {NoFrame}
         /\ c \in [kind : {"json"}, layout : Layouts, frame : Frames \union {NoFrame},
                   ui : [keys : SUBSET Leaves, sub : SUBSET Leaves, wild : BOOLEAN]]
BY DEF Contents, Torn, Odd, Absent, Program

LEMMA TornIsContent == {Torn, Odd, Absent, Program} \subseteq Contents
BY DEF Contents

LEMMA GeneratedIsContent ==
  ASSUME NEW layout \in Layouts
  PROVE  Generated(layout) \in Contents
BY DEF Contents, Generated, NoUi

LEMMA SavedIsContent ==
  ASSUME TypeOK, doc.kind = "json"
  PROVE  Saved \in Contents
<1>1. doc \in [kind : {"json"}, layout : Layouts, frame : Frames \union {NoFrame},
               ui : [keys : SUBSET Leaves, sub : SUBSET Leaves, wild : BOOLEAN]]
  BY ContentParts DEF TypeOK
<1>2. /\ config.layout \subseteq Leaves /\ config.sub \subseteq Leaves
      /\ config.wild \in BOOLEAN /\ frame \in Frames
  BY DEF TypeOK, Leaves
<1> QED
  BY <1>1, <1>2 DEF Saved, Contents

-----------------------------------------------------------------------------
(* The type invariant.                                                     *)

LEMMA ReadsLayout ==
  ASSUME TInv, ReadJson \/ ReadElf
  PROVE  config'.layout \in Layouts
<1>1. CASE ReadJson
  <2>1. disk[dropped_file_path] \in Contents /\ disk[dropped_file_path].kind = "json"
    BY <1>1 DEF ReadJson, TInv, TypeOK, Phases, Loads
  <2> QED
    BY <1>1, <2>1, ContentParts DEF ReadJson
<1>2. CASE ReadElf
  BY <1>2, SessionAssumption DEF ReadElf
<1> QED
  BY <1>1, <1>2

LEMMA PhaseStep ==
  ASSUME TInv, [Next]_vars
  PROVE  Phases'
<1>1. CASE Boot
  BY <1>1 DEF Boot, files, loaded, link, TInv, TypeOK, Phases, Loads, Bound
<1>2. CASE Quit
  BY <1>2 DEF Quit, Ends, files, Phases, Loads, Bound, Empty
<1>3. CASE Crash
  BY <1>3 DEF Crash, Ends, files, Phases, Loads, Bound, Empty
<1>4. ASSUME NEW p \in Paths, Drop(p) PROVE Phases'
  BY <1>4 DEF Drop, files, loaded, link, Phases, Loads, Bound
<1>5. CASE BeginFrame
  BY <1>5 DEF BeginFrame, files, loaded, link, TInv, Phases, Loads, Bound
<1>6. CASE PopupLoad
  BY <1>6 DEF PopupLoad, files, drops, loaded, link, TInv, Phases, Bound
<1>7. CASE PopupCancel
  BY <1>7 DEF PopupCancel, files, loaded, link, TInv, Phases, Loads, Bound
<1>8. CASE PopupWaits
  BY <1>8 DEF PopupWaits, files, drops, loaded, link, TInv, Phases, Loads, Bound
<1>9. CASE StopLink
  BY <1>9 DEF StopLink, files, drops, loaded, TInv, Phases, Loads, Bound
<1>10. CASE Detach
  BY <1>10 DEF Detach, files, drops, link, TInv, Phases, Loads, Bound
<1>11. CASE Replace
  BY <1>11 DEF Replace, files, drops, link, TInv, Phases, Loads, Bound, Empty
<1>12. CASE ReadJson
  BY <1>12, ReadsLayout DEF ReadJson, files, drops, TInv, Phases, Loads, Bound
<1>13. CASE ReadFails
  BY <1>13 DEF ReadFails, files, drops, loaded, link, TInv, Phases, Loads, Bound
<1>14. CASE ReadThrows
  BY <1>14 DEF ReadThrows, Ends, files, Phases, Loads, Bound, Empty
<1>15. CASE ReadElf
  BY <1>15, ReadsLayout DEF ReadElf, files, drops, link, Phases, Bound, Paths
<1>16. CASE ReadElfFails
  BY <1>16 DEF ReadElfFails, files, drops, loaded, link, TInv, Phases, Loads, Bound
<1>17. CASE Bind
  BY <1>17, SessionAssumption DEF Bind, files, drops, link, TInv, Phases, Loads, Paths
<1>18. CASE Remember
  BY <1>18 DEF Remember, drops, loaded, link, TInv, Phases, Loads, Bound
<1>19. CASE Remembered
  BY <1>19 DEF Remembered, drops, loaded, link, TInv, Phases, Loads, Bound
<1>20. CASE Generate
  BY <1>20 DEF Generate, Overwritten, drops, loaded, link, TInv, Phases, Loads, Bound
<1>21. CASE GenerateWrites
  BY <1>21 DEF GenerateWrites, Generated, NoUi, drops, loaded, link, TInv, Phases,
     Loads, Bound
<1>22. CASE StartLink
  BY <1>22 DEF StartLink, files, loaded, TInv, Phases, Loads, Bound
<1>23. CASE NoClick
  BY <1>23 DEF NoClick, files, drops, loaded, link, TInv, Phases, Loads, Bound
<1>24. CASE ClickStreaming
  BY <1>24 DEF ClickStreaming, Clicks, files, drops, TInv, Phases, Loads, Bound
<1>25. CASE ClickSave
  BY <1>25 DEF ClickSave, Clicks, files, drops, loaded, link, TInv, TypeOK, Phases,
     Loads, Bound
<1>26. CASE SaveRefused
  BY <1>26 DEF SaveRefused, Clicks, files, drops, loaded, link, TInv, Phases, Loads,
     Bound
<1>27. ASSUME NEW wild \in Wild, EditScale(wild) PROVE Phases'
  BY <1>27 DEF EditScale, Clicks, files, drops, link, TInv, Phases, Loads, Bound
<1>28. ASSUME NEW f \in Frames, ClickFormat(f) PROVE Phases'
  BY <1>28 DEF ClickFormat, Clicks, files, drops, TInv, Phases, Loads, Bound
<1>29. ASSUME NEW f \in Frames, EditAddress(f) PROVE Phases'
  BY <1>29 DEF EditAddress, Clicks, files, drops, loaded, TInv, Phases, Loads, Bound
<1>30. ASSUME NEW l \in Leaves, ClickLeaf(l) PROVE Phases'
  BY <1>30 DEF ClickLeaf, Clicks, files, drops, link, TInv, Phases, Loads, Bound
<1>31. CASE SaveOpens
  BY <1>31 DEF SaveOpens, Overwritten, drops, loaded, link, TInv, Phases, Loads, Bound
<1>32. CASE SaveWrites
  BY <1>32 DEF SaveWrites, Saved, drops, loaded, link, TInv, Phases, Loads, Bound
<1>33. CASE Rebuild
  BY <1>33 DEF Rebuild, files, drops, TInv, Phases, Loads, Bound
<1>34. CASE UNCHANGED vars
  BY <1>34 DEF vars, files, drops, loaded, link, TInv, Phases, Empty
<1> QED
  BY <1>1, <1>2, <1>3, <1>4, <1>5, <1>6, <1>7, <1>8, <1>9, <1>10, <1>11, <1>12, <1>13,
     <1>14, <1>15, <1>16, <1>17, <1>18, <1>19, <1>20, <1>21, <1>22, <1>23, <1>24, <1>25,
     <1>26, <1>27, <1>28, <1>29, <1>30, <1>31, <1>32, <1>33, <1>34 DEF Next, Load, Clicking

LEMMA ReadJsonKeepsType ==
  ASSUME TInv, ReadJson
  PROVE  TypeOK'
<1>1. disk[dropped_file_path] \in Contents /\ disk[dropped_file_path].kind = "json"
  BY DEF ReadJson, TInv, TypeOK, Phases, Loads
<1>2. /\ disk[dropped_file_path].layout \in Layouts
      /\ disk[dropped_file_path].frame \in Frames \union {NoFrame}
  BY <1>1, ContentParts
<1>3. frame' \in Frames /\ config'.sub \subseteq config'.layout
  BY <1>2 DEF ReadJson, TInv, TypeOK
<1>4. config' \in [layout : Layouts \union {{}}, sub : SUBSET Leaves, wild : BOOLEAN]
  BY <1>2 DEF ReadJson, Leaves
<1> QED
  BY <1>3, <1>4 DEF ReadJson, TInv, TypeOK, files, drops

LEMMA TypeStep ==
  ASSUME TInv, [Next]_vars
  PROVE  TypeOK'
<1>1. CASE Boot
  BY <1>1 DEF Boot, files, loaded, link, TInv, TypeOK
<1>2. CASE Quit
  BY <1>2, SessionAssumption, TornIsContent DEF Quit, Ends, files, TInv, TypeOK, Empty
<1>3. CASE Crash
  BY <1>3, SessionAssumption, TornIsContent DEF Crash, Ends, files, TInv, TypeOK, Empty
<1>4. ASSUME NEW p \in Paths, Drop(p) PROVE TypeOK'
  BY <1>4 DEF Drop, files, loaded, link, TInv, TypeOK
<1>5. CASE BeginFrame
  BY <1>5 DEF BeginFrame, files, loaded, link, TInv, TypeOK
<1>6. CASE PopupLoad
  BY <1>6 DEF PopupLoad, files, drops, loaded, link, TInv, TypeOK
<1>7. CASE PopupCancel
  BY <1>7 DEF PopupCancel, files, loaded, link, TInv, TypeOK
<1>8. CASE PopupWaits
  BY <1>8 DEF PopupWaits, files, drops, loaded, link, TInv, TypeOK
<1>9. CASE StopLink
  BY <1>9 DEF StopLink, files, drops, loaded, TInv, TypeOK
<1>10. CASE Detach
  BY <1>10 DEF Detach, files, drops, link, TInv, TypeOK
<1>11. CASE Replace
  BY <1>11 DEF Replace, files, drops, link, TInv, TypeOK, Empty
<1>12. CASE ReadJson
  BY <1>12, ReadJsonKeepsType
<1>13. CASE ReadFails
  BY <1>13 DEF ReadFails, files, drops, loaded, link, TInv, TypeOK
<1>14. CASE ReadThrows
  BY <1>14, SessionAssumption, TornIsContent DEF ReadThrows, Ends, files, TInv, TypeOK,
     Empty
<1>15. CASE ReadElf
  <2>1. PICK layout \in Symbols[dropped_file_path] :
          config' = [layout |-> layout, sub |-> {}, wild |-> FALSE]
    BY <1>15 DEF ReadElf
  <2>2. layout \in Layouts
    BY <1>15, SessionAssumption DEF ReadElf
  <2> QED
    BY <1>15, <2>1, <2>2 DEF ReadElf, files, drops, link, TInv, TypeOK
<1>16. CASE ReadElfFails
  BY <1>16 DEF ReadElfFails, files, drops, loaded, link, TInv, TypeOK
<1>17. CASE Bind
  BY <1>17, SessionAssumption DEF Bind, files, drops, link, Phases, Loads, Paths, TInv,
     TypeOK
<1>18. CASE Remember
  BY <1>18 DEF Remember, drops, loaded, link, TInv, TypeOK
<1>19. CASE Remembered
  BY <1>19 DEF Remembered, drops, loaded, link, TInv, TypeOK
<1>20. CASE Generate
  <2>1. disk' \in [Paths -> Contents]
    BY <1>20, TornIsContent DEF Generate, TInv, TypeOK
  <2> QED
    BY <1>20, <2>1 DEF Generate, drops, loaded, link, TInv, TypeOK
<1>21. CASE GenerateWrites
  <2>1. config.layout \in Layouts
    BY <1>21 DEF GenerateWrites, TInv, Phases, Bound
  <2>2. disk' \in [Paths -> Contents]
    BY <1>21, <2>1, GeneratedIsContent DEF GenerateWrites, TInv, TypeOK
  <2> QED
    BY <1>21, <2>2 DEF GenerateWrites, drops, loaded, link, TInv, TypeOK
<1>22. CASE StartLink
  BY <1>22 DEF StartLink, files, loaded, TInv, TypeOK
<1>23. CASE NoClick
  BY <1>23 DEF NoClick, files, drops, loaded, link, TInv, TypeOK
<1>24. CASE ClickStreaming
  BY <1>24 DEF ClickStreaming, Clicks, files, drops, TInv, TypeOK
<1>25. CASE ClickSave
  <2>1. doc' \in Contents
    BY <1>25 DEF ClickSave, TInv, TypeOK
  <2> QED
    BY <1>25, <2>1 DEF ClickSave, Clicks, files, drops, loaded, link, TInv, TypeOK
<1>26. CASE SaveRefused
  BY <1>26 DEF SaveRefused, Clicks, files, drops, loaded, link, TInv, TypeOK
<1>27. ASSUME NEW wild \in Wild, EditScale(wild) PROVE TypeOK'
  BY <1>27, SessionAssumption DEF EditScale, Clicks, files, drops, link, TInv, TypeOK
<1>28. ASSUME NEW f \in Frames, ClickFormat(f) PROVE TypeOK'
  BY <1>28 DEF ClickFormat, Clicks, files, drops, TInv, TypeOK
<1>29. ASSUME NEW f \in Frames, EditAddress(f) PROVE TypeOK'
  BY <1>29 DEF EditAddress, Clicks, files, drops, loaded, TInv, TypeOK
<1>30. ASSUME NEW l \in Leaves, ClickLeaf(l) PROVE TypeOK'
  BY <1>30 DEF ClickLeaf, Clicks, files, drops, link, TInv, TypeOK
<1>31. CASE SaveOpens
  <2>1. disk' \in [Paths -> Contents] /\ doc' \in Contents
    BY <1>31, TornIsContent DEF SaveOpens, TInv, TypeOK
  <2> QED
    BY <1>31, <2>1 DEF SaveOpens, drops, loaded, link, TInv, TypeOK
<1>32. CASE SaveWrites
  <2>1. disk' \in [Paths -> Contents] /\ doc' \in Contents
    BY <1>32, SavedIsContent, TornIsContent DEF SaveWrites, TInv, TypeOK, Phases
  <2> QED
    BY <1>32, <2>1 DEF SaveWrites, drops, loaded, link, TInv, TypeOK
<1>33. CASE Rebuild
  BY <1>33 DEF Rebuild, files, drops, TInv, TypeOK
<1>34. CASE UNCHANGED vars
  BY <1>34 DEF vars, files, drops, loaded, link, TInv, TypeOK, Empty
<1> QED
  BY <1>1, <1>2, <1>3, <1>4, <1>5, <1>6, <1>7, <1>8, <1>9, <1>10, <1>11, <1>12, <1>13,
     <1>14, <1>15, <1>16, <1>17, <1>18, <1>19, <1>20, <1>21, <1>22, <1>23, <1>24, <1>25,
     <1>26, <1>27, <1>28, <1>29, <1>30, <1>31, <1>32, <1>33, <1>34 DEF Next, Load, Clicking

-----------------------------------------------------------------------------
(* The link.                                                               *)

LEMMA LinkStep ==
  ASSUME TInv, LinkInv, [Next]_vars, {} \notin Layouts
  PROVE  LinkInv'
<1>1. CASE Boot
  BY <1>1 DEF Boot, files, loaded, link, LinkInv, Loads, Bound
<1>2. CASE Quit
  BY <1>2 DEF Quit, Ends, files, LinkInv, Bound, Empty
<1>3. CASE Crash
  BY <1>3 DEF Crash, Ends, files, LinkInv, Bound, Empty
<1>4. ASSUME NEW p \in Paths, Drop(p) PROVE LinkInv'
  BY <1>4 DEF Drop, files, loaded, link, LinkInv
<1>5. CASE BeginFrame
  BY <1>5 DEF BeginFrame, files, loaded, link, LinkInv, Loads, Bound
<1>6. CASE PopupLoad
  BY <1>6 DEF PopupLoad, files, drops, loaded, link, LinkInv, Bound
<1>7. CASE PopupCancel
  BY <1>7 DEF PopupCancel, files, loaded, link, LinkInv, Loads, Bound
<1>8. CASE PopupWaits
  BY <1>8 DEF PopupWaits, files, drops, loaded, link, LinkInv, Loads, Bound
<1>9. CASE StopLink
  BY <1>9 DEF StopLink, files, drops, loaded, LinkInv, Bound
<1>10. CASE Detach
  BY <1>10 DEF Detach, files, drops, link, LinkInv, Loads, Bound
<1>11. CASE Replace
  BY <1>11 DEF Replace, files, drops, link, LinkInv, Loads, Bound, Empty
<1>12. CASE ReadJson
  <2>1. config'.layout # {} /\ at' = "bind" /\ subscribed_dirty' = TRUE /\ ~running'
    BY <1>12, ReadsLayout DEF ReadJson, LinkInv, Loads
  <2> QED
    BY <2>1 DEF LinkInv, Bound
<1>13. CASE ReadFails
  BY <1>13 DEF ReadFails, files, drops, loaded, link, LinkInv, Loads, Bound
<1>14. CASE ReadThrows
  BY <1>14 DEF ReadThrows, Ends, files, LinkInv, Bound, Empty
<1>15. CASE ReadElf
  <2>1. config'.layout # {} /\ at' = "bind" /\ unflagged' = TRUE /\ ~running'
    BY <1>15, ReadsLayout DEF ReadElf, LinkInv, Loads, link
  <2> QED
    BY <2>1 DEF LinkInv, Bound
<1>16. CASE ReadElfFails
  BY <1>16 DEF ReadElfFails, files, drops, loaded, link, LinkInv, Loads, Bound
<1>17. CASE Bind
  BY <1>17 DEF Bind, files, drops, link, LinkInv, Loads
<1>18. CASE Remember
  BY <1>18 DEF Remember, drops, loaded, link, LinkInv, Loads, Bound
<1>19. CASE Remembered
  BY <1>19 DEF Remembered, drops, loaded, link, LinkInv, Loads, Bound
<1>20. CASE Generate
  BY <1>20 DEF Generate, Overwritten, drops, loaded, link, LinkInv, Loads, Bound
<1>21. CASE GenerateWrites
  BY <1>21 DEF GenerateWrites, Generated, NoUi, drops, loaded, link, LinkInv, Loads,
     Bound
<1>22. CASE StartLink
  BY <1>22 DEF StartLink, files, loaded, LinkInv, Loads, Bound
<1>23. CASE NoClick
  BY <1>23 DEF NoClick, files, drops, loaded, link, LinkInv, Loads, Bound
<1>24. CASE ClickStreaming
  BY <1>24 DEF ClickStreaming, Clicks, files, drops, LinkInv, Loads, Bound
<1>25. CASE ClickSave
  BY <1>25 DEF ClickSave, Clicks, files, drops, loaded, link, LinkInv, Loads, Bound
<1>26. CASE SaveRefused
  BY <1>26 DEF SaveRefused, Clicks, files, drops, loaded, link, LinkInv, Loads, Bound
<1>27. ASSUME NEW wild \in Wild, EditScale(wild) PROVE LinkInv'
  BY <1>27 DEF EditScale, Clicks, files, drops, link, Wanted, LinkInv, Loads, Bound
<1>28. ASSUME NEW f \in Frames, ClickFormat(f) PROVE LinkInv'
  BY <1>28 DEF ClickFormat, Clicks, files, drops, LinkInv, Loads, Bound
<1>29. ASSUME NEW f \in Frames, EditAddress(f) PROVE LinkInv'
  BY <1>29 DEF EditAddress, Clicks, files, drops, loaded, LinkInv, Loads, Bound
<1>30. ASSUME NEW l \in Leaves, ClickLeaf(l) PROVE LinkInv'
  BY <1>30 DEF ClickLeaf, Clicks, files, drops, link, LinkInv, Loads, Bound
<1>31. CASE SaveOpens
  BY <1>31 DEF SaveOpens, Overwritten, drops, loaded, link, LinkInv, Loads, Bound
<1>32. CASE SaveWrites
  BY <1>32 DEF SaveWrites, Saved, drops, loaded, link, LinkInv, Loads, Bound
<1>33. CASE Rebuild
  BY <1>33 DEF Rebuild, files, drops, LinkInv, Loads, Bound
<1>34. CASE UNCHANGED vars
  BY <1>34 DEF vars, files, drops, loaded, link, LinkInv, Empty
<1> QED
  BY <1>1, <1>2, <1>3, <1>4, <1>5, <1>6, <1>7, <1>8, <1>9, <1>10, <1>11, <1>12, <1>13,
     <1>14, <1>15, <1>16, <1>17, <1>18, <1>19, <1>20, <1>21, <1>22, <1>23, <1>24, <1>25,
     <1>26, <1>27, <1>28, <1>29, <1>30, <1>31, <1>32, <1>33, <1>34 DEF Next, Load, Clicking

-----------------------------------------------------------------------------
(* The files.                                                              *)

LEMMA MatchesStep ==
  ASSUME TInv, Matches, [Next]_vars, FALSE \notin Writable
  PROVE  Matches'
<1>1. CASE Boot
  BY <1>1 DEF Boot, files, loaded, link, Matches, KeysMatchLayout
<1>2. CASE Quit
  BY <1>2 DEF Quit, Ends, files, Matches, KeysMatchLayout, Empty
<1>3. CASE Crash
  BY <1>3 DEF Crash, Ends, files, Matches, KeysMatchLayout, Empty
<1>4. ASSUME NEW p \in Paths, Drop(p) PROVE Matches'
  BY <1>4 DEF Drop, files, loaded, link, Matches, KeysMatchLayout
<1>5. CASE BeginFrame
  BY <1>5 DEF BeginFrame, files, loaded, link, Matches, KeysMatchLayout
<1>6. CASE PopupLoad
  BY <1>6 DEF PopupLoad, files, drops, loaded, link, Matches, KeysMatchLayout
<1>7. CASE PopupCancel
  BY <1>7 DEF PopupCancel, files, loaded, link, Matches, KeysMatchLayout
<1>8. CASE PopupWaits
  BY <1>8 DEF PopupWaits, files, drops, loaded, link, Matches, KeysMatchLayout
<1>9. CASE StopLink
  BY <1>9 DEF StopLink, files, drops, loaded, Matches, KeysMatchLayout
<1>10. CASE Detach
  BY <1>10 DEF Detach, files, drops, link, Matches, KeysMatchLayout
<1>11. CASE Replace
  BY <1>11 DEF Replace, files, drops, link, Matches, KeysMatchLayout, Empty
<1>12. CASE ReadJson
  BY <1>12 DEF ReadJson, files, drops, Matches, KeysMatchLayout
<1>13. CASE ReadFails
  BY <1>13 DEF ReadFails, files, drops, loaded, link, Matches, KeysMatchLayout
<1>14. CASE ReadThrows
  BY <1>14 DEF ReadThrows, Ends, files, Matches, KeysMatchLayout, Empty
<1>15. CASE ReadElf
  BY <1>15 DEF ReadElf, files, drops, link, Matches, KeysMatchLayout
<1>16. CASE ReadElfFails
  BY <1>16 DEF ReadElfFails, files, drops, loaded, link, Matches, KeysMatchLayout
<1>17. CASE Bind
  BY <1>17 DEF Bind, files, drops, link, Matches, KeysMatchLayout
<1>18. CASE Remember
  BY <1>18 DEF Remember, drops, loaded, link, Matches, KeysMatchLayout
<1>19. CASE Remembered
  BY <1>19 DEF Remembered, drops, loaded, link, Matches, KeysMatchLayout
<1>20. CASE Generate
  <2>1. at' = "generated" /\ disk' = [disk EXCEPT ![config_json_path] = Torn]
    BY <1>20, SessionAssumption DEF Generate
  <2>2. UNCHANGED <<config, config_json_path, loading>>
    BY <1>20 DEF Generate, loaded
  <2> QED
    BY <2>1, <2>2 DEF TInv, TypeOK, Matches, KeysMatchLayout, Torn
<1>21. CASE GenerateWrites
  BY <1>21 DEF GenerateWrites, Generated, NoUi, drops, loaded, link, TInv, TypeOK,
     Matches, KeysMatchLayout
<1>22. CASE StartLink
  BY <1>22 DEF StartLink, files, loaded, Matches, KeysMatchLayout
<1>23. CASE NoClick
  BY <1>23 DEF NoClick, files, drops, loaded, link, Matches, KeysMatchLayout
<1>24. CASE ClickStreaming
  BY <1>24 DEF ClickStreaming, Clicks, files, drops, Matches, KeysMatchLayout
<1>25. CASE ClickSave
  BY <1>25 DEF ClickSave, Clicks, files, drops, loaded, link, Matches, KeysMatchLayout
<1>26. CASE SaveRefused
  BY <1>26 DEF SaveRefused, Clicks, files, drops, loaded, link, Matches, KeysMatchLayout
<1>27. ASSUME NEW wild \in Wild, EditScale(wild) PROVE Matches'
  BY <1>27 DEF EditScale, Clicks, files, drops, link, TInv, TypeOK, Matches,
     KeysMatchLayout
<1>28. ASSUME NEW f \in Frames, ClickFormat(f) PROVE Matches'
  BY <1>28 DEF ClickFormat, Clicks, files, drops, Matches, KeysMatchLayout
<1>29. ASSUME NEW f \in Frames, EditAddress(f) PROVE Matches'
  BY <1>29 DEF EditAddress, Clicks, files, drops, loaded, Matches, KeysMatchLayout
<1>30. ASSUME NEW l \in Leaves, ClickLeaf(l) PROVE Matches'
  BY <1>30 DEF ClickLeaf, Clicks, files, drops, link, TInv, TypeOK, Matches,
     KeysMatchLayout
<1>31. CASE SaveOpens
  <2>1. at' = "saving" /\ disk' = [disk EXCEPT ![config_json_path] = Torn]
    BY <1>31, SessionAssumption DEF SaveOpens
  <2>2. at = "save" /\ UNCHANGED <<config, config_json_path, doc>>
    BY <1>31, SessionAssumption DEF SaveOpens, loaded
  <2> QED
    BY <2>1, <2>2 DEF Matches, KeysMatchLayout, Torn
<1>32. CASE SaveWrites
  <2>1. /\ at = "saving" /\ at' = "rebuild"
        /\ disk' = [disk EXCEPT ![config_json_path] = Saved]
        /\ UNCHANGED <<config, config_json_path>>
    BY <1>32 DEF SaveWrites, loaded
  <2>2. doc \in Contents /\ doc.kind = "json" /\ config.layout \subseteq doc.layout
    BY <2>1 DEF TInv, TypeOK, Phases, Matches
  <2>3. Saved.ui.keys = config.layout /\ Saved.layout = doc.layout
    BY <2>2 DEF Saved
  <2> QED
    BY <2>1, <2>2, <2>3 DEF Matches, KeysMatchLayout
<1>33. CASE Rebuild
  BY <1>33 DEF Rebuild, files, drops, Matches, KeysMatchLayout
<1>34. CASE UNCHANGED vars
  BY <1>34 DEF vars, files, drops, loaded, link, Matches, KeysMatchLayout, Empty
<1> QED
  BY <1>1, <1>2, <1>3, <1>4, <1>5, <1>6, <1>7, <1>8, <1>9, <1>10, <1>11, <1>12, <1>13,
     <1>14, <1>15, <1>16, <1>17, <1>18, <1>19, <1>20, <1>21, <1>22, <1>23, <1>24, <1>25,
     <1>26, <1>27, <1>28, <1>29, <1>30, <1>31, <1>32, <1>33, <1>34 DEF Next, Load, Clicking

LEMMA KeptStep ==
  ASSUME TInv, Matches, KeptIsOnDisk, [Next]_vars
  PROVE  KeptIsOnDisk'
<1>1. CASE Boot
  BY <1>1 DEF Boot, files, loaded, link, KeptIsOnDisk
<1>2. CASE Quit
  BY <1>2 DEF Quit, Ends, files, KeptIsOnDisk
<1>3. CASE Crash
  BY <1>3 DEF Crash, Ends, files, KeptIsOnDisk
<1>4. ASSUME NEW p \in Paths, Drop(p) PROVE KeptIsOnDisk'
  BY <1>4 DEF Drop, files, loaded, link, KeptIsOnDisk
<1>5. CASE BeginFrame
  BY <1>5 DEF BeginFrame, files, loaded, link, KeptIsOnDisk
<1>6. CASE PopupLoad
  BY <1>6 DEF PopupLoad, files, drops, loaded, link, KeptIsOnDisk
<1>7. CASE PopupCancel
  BY <1>7 DEF PopupCancel, files, loaded, link, KeptIsOnDisk
<1>8. CASE PopupWaits
  BY <1>8 DEF PopupWaits, files, drops, loaded, link, KeptIsOnDisk
<1>9. CASE StopLink
  BY <1>9 DEF StopLink, files, drops, loaded, KeptIsOnDisk
<1>10. CASE Detach
  BY <1>10 DEF Detach, files, drops, link, KeptIsOnDisk
<1>11. CASE Replace
  BY <1>11 DEF Replace, files, drops, link, KeptIsOnDisk
<1>12. CASE ReadJson
  BY <1>12 DEF ReadJson, files, drops, KeptIsOnDisk
<1>13. CASE ReadFails
  BY <1>13 DEF ReadFails, files, drops, loaded, link, KeptIsOnDisk
<1>14. CASE ReadThrows
  BY <1>14 DEF ReadThrows, Ends, files, KeptIsOnDisk
<1>15. CASE ReadElf
  BY <1>15 DEF ReadElf, files, drops, link, KeptIsOnDisk
<1>16. CASE ReadElfFails
  BY <1>16 DEF ReadElfFails, files, drops, loaded, link, KeptIsOnDisk
<1>17. CASE Bind
  BY <1>17 DEF Bind, files, drops, link, KeptIsOnDisk
<1>18. CASE Remember
  BY <1>18 DEF Remember, drops, loaded, link, KeptIsOnDisk
<1>19. CASE Remembered
  BY <1>19 DEF Remembered, drops, loaded, link, KeptIsOnDisk
<1>20. CASE Generate
  BY <1>20 DEF Generate, Overwritten, drops, loaded, link, Torn, TInv, TypeOK,
     KeptIsOnDisk
<1>21. CASE GenerateWrites
  BY <1>21 DEF GenerateWrites, Generated, NoUi, drops, loaded, link, KeptIsOnDisk
<1>22. CASE StartLink
  BY <1>22 DEF StartLink, files, loaded, KeptIsOnDisk
<1>23. CASE NoClick
  BY <1>23 DEF NoClick, files, drops, loaded, link, KeptIsOnDisk
<1>24. CASE ClickStreaming
  BY <1>24 DEF ClickStreaming, Clicks, files, drops, KeptIsOnDisk
<1>25. CASE ClickSave
  BY <1>25 DEF ClickSave, Clicks, files, drops, loaded, link, KeptIsOnDisk
<1>26. CASE SaveRefused
  BY <1>26 DEF SaveRefused, Clicks, files, drops, loaded, link, KeptIsOnDisk
<1>27. ASSUME NEW wild \in Wild, EditScale(wild) PROVE KeptIsOnDisk'
  BY <1>27 DEF EditScale, Clicks, files, drops, link, KeptIsOnDisk
<1>28. ASSUME NEW f \in Frames, ClickFormat(f) PROVE KeptIsOnDisk'
  BY <1>28 DEF ClickFormat, Clicks, files, drops, KeptIsOnDisk
<1>29. ASSUME NEW f \in Frames, EditAddress(f) PROVE KeptIsOnDisk'
  BY <1>29 DEF EditAddress, Clicks, files, drops, loaded, KeptIsOnDisk
<1>30. ASSUME NEW l \in Leaves, ClickLeaf(l) PROVE KeptIsOnDisk'
  BY <1>30 DEF ClickLeaf, Clicks, files, drops, link, KeptIsOnDisk
<1>31. CASE SaveOpens
  BY <1>31 DEF SaveOpens, Overwritten, drops, loaded, link, Torn, Absent, TInv, TypeOK,
     KeptIsOnDisk
<1>32. CASE SaveWrites
  BY <1>32 DEF SaveWrites, Saved, drops, loaded, link, Absent, TInv, TypeOK, Phases,
     Matches, KeptIsOnDisk
<1>33. CASE Rebuild
  BY <1>33 DEF Rebuild, files, drops, KeptIsOnDisk
<1>34. CASE UNCHANGED vars
  BY <1>34 DEF vars, files, drops, loaded, link, KeptIsOnDisk
<1> QED
  BY <1>1, <1>2, <1>3, <1>4, <1>5, <1>6, <1>7, <1>8, <1>9, <1>10, <1>11, <1>12, <1>13,
     <1>14, <1>15, <1>16, <1>17, <1>18, <1>19, <1>20, <1>21, <1>22, <1>23, <1>24, <1>25,
     <1>26, <1>27, <1>28, <1>29, <1>30, <1>31, <1>32, <1>33, <1>34 DEF Next, Load, Clicking

LEMMA FreshStep ==
  ASSUME TInv, KeptIsOnDisk, FreshStart, [Next]_vars, FALSE \notin Writable
  PROVE  FreshStart'
<1>1. CASE Boot
  <2>1. /\ at' = "poll" /\ loading' = "none" /\ ~popup'
        /\ dropped_file_path = NoPath /\ UNCHANGED <<ini, disk, kept>>
    BY <1>1 DEF Boot, TInv, Phases, files
  <2>2. CASE ini # NoPath /\ disk[ini] # Absent
    <3>1. dropped_file_path' = ini /\ pending_json_load' = TRUE
      BY <1>1, <2>2 DEF Boot
    <3> QED
      BY <2>1, <3>1 DEF FreshStart
  <2>3. CASE ~(ini # NoPath /\ disk[ini] # Absent)
    <3>1. dropped_file_path' = NoPath
      BY <1>1, <2>1, <2>3 DEF Boot
    <3>2. kept # Nothing => kept.path # NoPath /\ kept.path # ini
      BY <2>3, SessionAssumption DEF KeptIsOnDisk, Absent, Paths
    <3> QED
      BY <2>1, <3>1, <3>2 DEF FreshStart
  <2> QED
    BY <2>2, <2>3
<1>2. CASE Quit
  BY <1>2 DEF Quit, Ends, files, FreshStart
<1>3. CASE Crash
  BY <1>3 DEF Crash, Ends, files, FreshStart
<1>4. ASSUME NEW p \in Paths, Drop(p) PROVE FreshStart'
  BY <1>4 DEF Drop, files, loaded, link, FreshStart
<1>5. CASE BeginFrame
  BY <1>5 DEF BeginFrame, files, loaded, link, FreshStart, Restored
<1>6. CASE PopupLoad
  BY <1>6 DEF PopupLoad, files, drops, loaded, link, FreshStart
<1>7. CASE PopupCancel
  BY <1>7 DEF PopupCancel, files, loaded, link, FreshStart
<1>8. CASE PopupWaits
  BY <1>8 DEF PopupWaits, files, drops, loaded, link, FreshStart, Restored
<1>9. CASE StopLink
  BY <1>9 DEF StopLink, files, drops, loaded, FreshStart
<1>10. CASE Detach
  BY <1>10 DEF Detach, files, drops, link, FreshStart
<1>11. CASE Replace
  BY <1>11 DEF Replace, files, drops, link, FreshStart
<1>12. CASE ReadJson
  BY <1>12, SessionAssumption DEF ReadJson, files, drops, NoFrame, KeptIsOnDisk,
     FreshStart, Restored
<1>13. CASE ReadFails
  BY <1>13 DEF ReadFails, files, drops, loaded, link, KeptIsOnDisk, FreshStart
<1>14. CASE ReadThrows
  BY <1>14 DEF ReadThrows, Ends, files, FreshStart
<1>15. CASE ReadElf
  BY <1>15 DEF ReadElf, files, drops, link, FreshStart
<1>16. CASE ReadElfFails
  BY <1>16 DEF ReadElfFails, files, drops, loaded, link, FreshStart
<1>17. CASE Bind
  BY <1>17 DEF Bind, files, drops, link, FreshStart, Restored
<1>18. CASE Remember
  BY <1>18 DEF Remember, drops, loaded, link, FreshStart, Restored
<1>19. CASE Remembered
  BY <1>19 DEF Remembered, drops, loaded, link, FreshStart, Restored
<1>20. CASE Generate
  BY <1>20 DEF Generate, Overwritten, drops, loaded, link, TInv, Phases, FreshStart
<1>21. CASE GenerateWrites
  BY <1>21 DEF GenerateWrites, Generated, NoUi, drops, loaded, link, TInv, Phases,
     FreshStart
<1>22. CASE StartLink
  BY <1>22 DEF StartLink, files, loaded, TInv, Phases, FreshStart, Restored, Loads
<1>23. CASE NoClick
  BY <1>23 DEF NoClick, files, drops, loaded, link, FreshStart, Restored
<1>24. CASE ClickStreaming
  BY <1>24 DEF ClickStreaming, Clicks, files, drops, FreshStart
<1>25. CASE ClickSave
  BY <1>25 DEF ClickSave, Clicks, files, drops, loaded, link, FreshStart
<1>26. CASE SaveRefused
  BY <1>26 DEF SaveRefused, Clicks, files, drops, loaded, link, FreshStart
<1>27. ASSUME NEW wild \in Wild, EditScale(wild) PROVE FreshStart'
  BY <1>27 DEF EditScale, Clicks, files, drops, link, FreshStart
<1>28. ASSUME NEW f \in Frames, ClickFormat(f) PROVE FreshStart'
  BY <1>28 DEF ClickFormat, Clicks, files, drops, FreshStart
<1>29. ASSUME NEW f \in Frames, EditAddress(f) PROVE FreshStart'
  BY <1>29 DEF EditAddress, Clicks, files, drops, loaded, FreshStart
<1>30. ASSUME NEW l \in Leaves, ClickLeaf(l) PROVE FreshStart'
  BY <1>30 DEF ClickLeaf, Clicks, files, drops, link, FreshStart
<1>31. CASE SaveOpens
  BY <1>31 DEF SaveOpens, Overwritten, drops, loaded, link, FreshStart
<1>32. CASE SaveWrites
  BY <1>32 DEF SaveWrites, Saved, drops, loaded, link, FreshStart
<1>33. CASE Rebuild
  BY <1>33 DEF Rebuild, files, drops, FreshStart, Restored
<1>34. CASE UNCHANGED vars
  BY <1>34 DEF vars, files, drops, loaded, link, FreshStart, Restored
<1> QED
  BY <1>1, <1>2, <1>3, <1>4, <1>5, <1>6, <1>7, <1>8, <1>9, <1>10, <1>11, <1>12, <1>13,
     <1>14, <1>15, <1>16, <1>17, <1>18, <1>19, <1>20, <1>21, <1>22, <1>23, <1>24, <1>25,
     <1>26, <1>27, <1>28, <1>29, <1>30, <1>31, <1>32, <1>33, <1>34 DEF Next, Load, Clicking

-----------------------------------------------------------------------------
(* The theorems.                                                           *)

LEMMA InitEstablishes ==
  Init => TInv /\ LinkInv /\ Matches /\ KeptIsOnDisk /\ FreshStart
<1> SUFFICES ASSUME Init
             PROVE  TInv /\ LinkInv /\ Matches /\ KeptIsOnDisk /\ FreshStart
  OBVIOUS
<1>1. \A p \in Paths : disk[p] \in {Program, Absent, Odd}
                                   \union {Generated(l) : l \in Layouts}
  BY DEF Init
<1>2. disk \in [Paths -> Contents]
  BY <1>1, GeneratedIsContent, TornIsContent DEF Init
<1>3. TypeOK
  BY <1>2, SessionAssumption, TornIsContent DEF Init, NothingLoaded, TypeOK, Empty
<1>4. Phases
  BY DEF Init, NothingLoaded, Phases, Loads, Bound
<1>5. LinkInv
  BY DEF Init, NothingLoaded, LinkInv, Bound
<1>6. KeysMatchLayout
  BY <1>1 DEF KeysMatchLayout, Program, Absent, Odd, Generated, NoUi
<1>7. Matches
  BY <1>6 DEF Init, NothingLoaded, Matches
<1>8. KeptIsOnDisk /\ FreshStart
  BY DEF Init, KeptIsOnDisk, FreshStart
<1> QED
  BY <1>3, <1>4, <1>5, <1>7, <1>8 DEF TInv

LEMMA TypeInvariance == Spec => []TInv
<1>1. Init => TInv
  BY InitEstablishes
<1>2. TInv /\ [Next]_vars => TInv'
  BY TypeStep, PhaseStep DEF TInv
<1> QED
  BY <1>1, <1>2, PTL DEF Spec

\* The variables keep their types, whatever the user drops and clicks and
\* whichever files cannot be opened or throw (main.cpp:233-520).
THEOREM TypeCorrect == Spec => []TypeOK
<1>1. TInv => TypeOK
  BY DEF TInv
<1> QED
  BY <1>1, TypeInvariance, PTL

LEMMA LinkInvariance ==
  ASSUME {} \notin Layouts
  PROVE  Spec => []LinkInv
<1>1. Init => LinkInv
  BY InitEstablishes
<1>2. TInv /\ LinkInv /\ [Next]_vars => LinkInv'
  BY LinkStep
<1> QED
  BY <1>1, <1>2, TypeInvariance, PTL DEF Spec

\* If no configuration is empty, the link's threads run on live buffers only
\* (main.cpp:327-407).
THEOREM LinkRunsOnLiveBuffers ==
  ASSUME {} \notin Layouts
  PROVE  Spec => []BuffersLive
<1>1. LinkInv => BuffersLive
  BY DEF LinkInv, BuffersLive
<1> QED
  BY <1>1, LinkInvariance, PTL

\* If no configuration is empty, the requests at the end of a frame are those
\* of the configuration and the settings of now, unless one of the edits that
\* are not flagged came after the last rebuild (ui.cpp:852, main.cpp:447-489).
THEOREM RequestsFollowFlags ==
  ASSUME {} \notin Layouts
  PROVE  Spec => []ListFits
<1>1. LinkInv => ListFits
  BY DEF LinkInv, ListFits
<1> QED
  BY <1>1, LinkInvariance, PTL

LEMMA DiskInvariance ==
  ASSUME FALSE \notin Writable
  PROVE  Spec => [](Matches /\ KeptIsOnDisk /\ FreshStart)
<1>1. Init => Matches /\ KeptIsOnDisk /\ FreshStart
  BY InitEstablishes
<1>2. TInv /\ Matches /\ KeptIsOnDisk /\ FreshStart /\ [Next]_vars
        => (Matches /\ KeptIsOnDisk /\ FreshStart)'
  BY MatchesStep, KeptStep, FreshStep
<1> QED
  BY <1>1, <1>2, TypeInvariance, PTL DEF Spec

\* If files can be written, none holds settings for leaves its layout does
\* not have (config.cpp:501, elf_parser.cpp:1132).
THEOREM KeysOnDisk ==
  ASSUME FALSE \notin Writable
  PROVE  Spec => []KeysMatchLayout
<1>1. Matches => KeysMatchLayout
  BY DEF Matches
<1> QED
  BY <1>1, DiskInvariance, PTL

\* If files can be written, a start restores what was saved last to the file
\* it remembers, wherever a crash fell (config.cpp:301, 501; main.cpp:358).
THEOREM RestartsRestore ==
  ASSUME FALSE \notin Writable
  PROVE  Spec => []RestartRestores
<1>1. TInv /\ KeptIsOnDisk /\ FreshStart => RestartRestores
  BY DEF FreshStart, Restored, RestartRestores, Nothing
<1> QED
  BY <1>1, TypeInvariance, DiskInvariance, PTL
=============================================================================
