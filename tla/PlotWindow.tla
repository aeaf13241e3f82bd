----------------------------- MODULE PlotWindow -----------------------------
(***************************************************************************)
(* What a line of the plot promises: it shows the last `depth' samples, in *)
(* the order they were taken.  In Time Mode a sample older than the oldest *)
(* one shown starts the line anew.  A new depth takes hold at the next     *)
(* sample, which then is the first one shown.  A sample is its x value.    *)
(***************************************************************************)
EXTENDS Integers, Sequences

CONSTANTS X,        \* the values of the x source
          Depths,   \* the values of Line::enqueue_cap
          Default   \* the depth of a new line

VARIABLES window,   \* the samples shown, the oldest first
          depth,    \* the depth asked for
          inForce,  \* the depth the window was made with, 0 after Clear
          time      \* whether the line is in Time Mode

vars == <<window, depth, inForce, time>>

Init ==
  /\ window = <<>> /\ time = TRUE
  /\ depth = Default /\ inForce = Default

LastOf(s, n) == SubSeq(s, 1 + (IF Len(s) > n THEN Len(s) - n ELSE 0), Len(s))

Grown(x) == LastOf(Append(IF depth = inForce THEN window ELSE <<>>, x), depth)

Show(x) ==
  /\ depth > 0 /\ ~(time /\ x < Grown(x)[1])
  /\ window' = Grown(x) /\ inForce' = depth
  /\ UNCHANGED <<depth, time>>

\* The sample that ran backwards is not shown either.
StartAnew(x) ==
  /\ depth > 0 /\ time /\ x < Grown(x)[1]
  /\ window' = <<>> /\ inForce' = depth
  /\ UNCHANGED <<depth, time>>

ShowNothing ==
  /\ depth = 0
  /\ window' = <<>> /\ inForce' = 0
  /\ UNCHANGED <<depth, time>>

Clear ==
  /\ window' = <<>> /\ inForce' = 0
  /\ UNCHANGED <<depth, time>>

NewLine ==
  /\ window' = <<>> /\ inForce' = Default
  /\ depth' \in Depths /\ time' \in BOOLEAN

Change ==
  /\ depth' \in Depths /\ time' \in BOOLEAN
  /\ UNCHANGED <<window, inForce>>

Next == (\E x \in X : Show(x) \/ StartAnew(x)) \/ ShowNothing \/ Clear
          \/ NewLine \/ Change

Spec == Init /\ [][Next]_vars
=============================================================================
