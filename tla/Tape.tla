-------------------------------- MODULE Tape --------------------------------
(***************************************************************************)
(* What a recording promises: the file holds every sample that arrived     *)
(* between Start and Stop, in order, as far as that file has room.  It is  *)
(* lost as a whole only when the file cannot be opened or the program      *)
(* ends, and the last file stays then.                                     *)
(***************************************************************************)
EXTENDS Naturals, Sequences

CONSTANTS
  Sample,   \* the values of a sample
  Rooms     \* how many samples a file may have room for

VARIABLES
  mode,     \* "idle", "recording", "closing", "unopened", "down"
  tape,     \* the samples that have arrived
  room,     \* how many the file that is being written holds
  saved     \* what the last file holds

vars == <<mode, tape, room, saved>>

Init == mode = "idle" /\ tape = <<>> /\ room = 0 /\ saved = <<>>

Start == mode = "idle" /\ mode' = "recording" /\ UNCHANGED <<tape, room, saved>>

\* One sample arrives, or several.
Record ==
  /\ mode = "recording" /\ UNCHANGED <<mode, room, saved>>
  /\ Len(tape') > Len(tape) /\ SubSeq(tape', 1, Len(tape)) = tape
  /\ \A i \in Len(tape) + 1..Len(tape') : tape'[i] \in Sample

Stop == mode = "recording" /\ mode' = "closing" /\ room' \in Rooms /\ UNCHANGED <<tape, saved>>

\* The file is closed with what it has room for.
Close ==
  /\ mode = "closing" /\ mode' = "idle" /\ tape' = <<>> /\ room' = 0
  /\ saved' = SubSeq(tape, 1, IF Len(tape) <= room THEN Len(tape) ELSE room)

CannotOpen == mode = "recording" /\ mode' = "unopened" /\ UNCHANGED <<tape, room, saved>>
GiveUp     == mode = "unopened" /\ mode' = "idle" /\ tape' = <<>> /\ UNCHANGED <<room, saved>>

End  == mode \in {"idle", "recording"} /\ mode' = "down" /\ tape' = <<>> /\ UNCHANGED <<room, saved>>
Boot == mode = "down" /\ mode' = "idle" /\ UNCHANGED <<tape, room, saved>>

Next == Start \/ Record \/ Stop \/ Close \/ CannotOpen \/ GiveUp \/ End \/ Boot

Spec == Init /\ [][Next]_vars
=============================================================================
