----------------------------- MODULE MCRecorder -----------------------------
(***************************************************************************)
(* Floats of four bits in steps of 1/32; a small integer whose row the     *)
(* user edits and a floating point field that only follows the peripheral. *)
(***************************************************************************)
EXTENDS Recorder

IntAndFloat == <<"count", "volts">>
Counter     == {"count"}
Types  == [count |-> "int", volts |-> "float"]
Enums  == [count |-> "enum", volts |-> "float"]
Small  == -20..20
Values == [int |-> Small, float |-> {0, 40}, enum |-> Small]
Reported == [count |-> {15}, volts |-> {40}]

\* 1 and 0.28125: a tenth would need a longer mantissa to show as much.
SomeScales == {9, 32}
\* 2.5
SomeTyped  == {80}
\* Half a header, a header and five bytes of samples, enough.
SomeRooms  == {20, 49, 1000}
=============================================================================
