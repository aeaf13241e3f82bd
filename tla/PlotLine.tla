------------------------------ MODULE PlotLine ------------------------------
(***************************************************************************)
(* One line of the plot (plotting.cpp): a ring of points the read callback *)
(* fills with enqueue_data() and the main thread draws, clears, resizes    *)
(* and switches between Time Mode and XY Mode.                             *)
(*                                                                         *)
(* Every access to the ring holds plot_mutex, so an action is a critical   *)
(* section.  The callback only tries the mutex: a sample that finds it     *)
(* taken is dropped, which is the callback's step not happening.  What the *)
(* sources point to (sys_sec, display_value) changes under no lock.        *)
(*                                                                         *)
(* A point is its x value: y is copied and drawn without a decision.       *)
(* xscale is screen_width over a difference of x values, the span that     *)
(* fills the window; it is kept as that difference, 0 for a scale that     *)
(* enqueue_data() did not compute.                                         *)
(***************************************************************************)
EXTENDS Integers, Sequences, FiniteSetsExt

CONSTANTS X,        \* the values of the x sources, a set of numbers
          Depths,   \* the values typed for Buffer Size
          Default   \* the depth of a new line (2000)

ASSUME PlotAssumption ==
  /\ X \subseteq Int /\ 0 \in X
  /\ \E first \in X : \A x \in X : first <= x
  /\ Depths \subseteq Nat /\ Default \in Depths \ {0}
  /\ \E deepest \in Depths : \A d \in Depths : d <= deepest

VARIABLES points,           \* Line::points; points[i + 1] is the code's points[i]
          head, count,      \* head_, count_
          enqueueCap,       \* enqueue_cap
          mode,             \* "time" or "xy"
          span,             \* screen_width / xscale
          xsource,          \* "sys_sec", "field" or "null"
          ysource,          \* whether ysource is set
          sysSec, field,    \* plot.sys_sec and the field's display_value
          last,             \* history: the x of the last sample taken
          run               \* history: how many samples in a row came from the
                            \* source in use, in Time Mode, none before the other

ring     == <<points, head, count>>
settings == <<enqueueCap, mode, xsource, ysource>>
sources  == <<sysSec, field>>
history  == <<last, run>>

plotVars == <<ring, settings, span, sources, history>>

Depth == Max(Depths)

-----------------------------------------------------------------------------
\* A line as its constructor leaves it.
Blank(n) == [i \in 1 .. n |-> 0]

PlotInit ==
  /\ points = Blank(Default) /\ head = 0 /\ count = 0
  /\ enqueueCap = Default /\ mode = "time" /\ span = 0
  /\ xsource = "sys_sec" /\ ysource = FALSE
  /\ sysSec = Min(X) /\ field = 0
  /\ last = 0 /\ run = 0

\* The main loop sets sys_sec at the top of a frame; a reply sets the field.
Tick ==
  /\ \E t \in X : t > sysSec /\ sysSec' = t
  /\ UNCHANGED <<ring, settings, span, field, history>>

FieldMoves ==
  /\ field' \in X /\ field' # field
  /\ UNCHANGED <<ring, settings, span, sysSec, history>>

-----------------------------------------------------------------------------
\* enqueue_data().
\* Mutation of Resized: only growth is noticed.
ResizedUp == Len(points) < enqueueCap

Resized == Len(points) # enqueueCap
StartHead    == IF Resized THEN 0 ELSE head
StartCount   == IF Resized THEN 0 ELSE count

\* points.resize() keeps what fits and fills with zeros.
Base == [i \in 1 .. enqueueCap |-> IF i <= Len(points) THEN points[i] ELSE 0]

Slot(i) == (i % enqueueCap) + 1

Source == IF xsource = "sys_sec" THEN sysSec ELSE field

\* Mutation of Filled: the slot after the one that is free.
FilledNext(x) == [Base EXCEPT ![Slot(StartHead + StartCount + 1)] = x]

Filled(x) == [Base EXCEPT ![Slot(StartHead + StartCount)] = x]

Advanced(h) == (h + 1) % enqueueCap

HeadAfter  == IF StartCount < enqueueCap THEN StartHead ELSE Advanced(StartHead)
CountAfter == IF StartCount < enqueueCap THEN StartCount + 1 ELSE StartCount

OldestX(x) == Filled(x)[Slot(HeadAfter)]

\* Mutation of NewestX: one slot too far.
NewestAfter(x) == Filled(x)[Slot(HeadAfter + CountAfter)]

NewestX(x) == Filled(x)[Slot(HeadAfter + CountAfter - 1)]

Backwards(x) == mode = "time" /\ CountAfter >= 2 /\ NewestX(x) < OldestX(x)

Remember(x) ==
  /\ last' = x
  /\ run' = IF mode = "time" /\ run > 0 /\ x >= last
            THEN Min({run + 1, Depth + 1}) ELSE 1

EnqueueEmpty ==
  /\ xsource # "null" /\ ysource /\ enqueueCap = 0
  /\ points' = <<>> /\ head' = StartHead /\ count' = StartCount
  /\ UNCHANGED <<settings, span, sources, history>>

Enqueue ==
  /\ xsource # "null" /\ ysource /\ enqueueCap > 0
  /\ ~Backwards(Source)
  /\ points' = Filled(Source) /\ head' = HeadAfter /\ count' = CountAfter
  /\ span' = IF mode = "time" /\ CountAfter >= 2 /\ NewestX(Source) > OldestX(Source)
             THEN NewestX(Source) - OldestX(Source) ELSE span
  /\ Remember(Source)
  /\ UNCHANGED <<settings, sources>>

\* In Time Mode a source that ran backwards drops everything.
EnqueueBackwards ==
  /\ xsource # "null" /\ ysource /\ enqueueCap > 0
  /\ Backwards(Source)
  /\ points' = Filled(Source) /\ head' = 0 /\ count' = 0
  /\ Remember(Source)
  /\ UNCHANGED <<settings, span, sources>>

-----------------------------------------------------------------------------
\* The plotting menu.
Clear ==
  /\ points' = <<>> /\ head' = 0 /\ count' = 0
  /\ UNCHANGED <<settings, span, sources, history>>

\* Add Line after Remove Line, or the lines of a loaded file: a line is made
\* with the default depth and takes its settings, the depth among them, after.
MakeLine(cap, m, x, y) ==
  /\ points' = Blank(Default) /\ head' = 0 /\ count' = 0
  /\ enqueueCap' = cap /\ mode' = m /\ span' = 0
  /\ xsource' = x /\ ysource' = y
  /\ run' = 0
  /\ UNCHANGED <<sources, last>>

AddLine == MakeLine(Default, "time", "sys_sec", FALSE)

LoadLine ==
  \E cap \in Depths, m \in {"time", "xy"},
     x \in {"sys_sec", "field", "null"}, y \in BOOLEAN : MakeLine(cap, m, x, y)

TimeMode ==
  /\ mode' = "time"
  /\ xsource' = IF xsource = "null" THEN "sys_sec" ELSE xsource
  /\ run' = IF mode = "time" THEN run ELSE 0
  /\ UNCHANGED <<ring, enqueueCap, ysource, span, sources, last>>

XYMode ==
  /\ mode' = "xy" /\ run' = 0
  /\ UNCHANGED <<ring, enqueueCap, xsource, ysource, span, sources, last>>

EditXScale ==
  /\ mode = "xy" /\ span' = 0
  /\ UNCHANGED <<ring, settings, sources, history>>

SelectX(x) ==
  /\ xsource' = x
  /\ run' = IF x = xsource THEN run ELSE 0
  /\ UNCHANGED <<ring, enqueueCap, mode, ysource, span, sources, last>>

SelectY ==
  /\ ysource' = TRUE
  /\ UNCHANGED <<ring, enqueueCap, mode, xsource, span, sources, history>>

SetBufferSize ==
  /\ enqueueCap' \in Depths
  /\ UNCHANGED <<ring, mode, xsource, ysource, span, sources, history>>

\* A configuration is loaded: the line's sources may be about to vanish.
Detach ==
  /\ xsource' = "sys_sec" /\ ysource' = FALSE
  /\ run' = IF xsource = "sys_sec" THEN run ELSE 0
  /\ UNCHANGED <<ring, enqueueCap, mode, span, sources, last>>

Menu == Clear \/ AddLine \/ LoadLine \/ TimeMode \/ XYMode \/ EditXScale \/ SelectY
          \/ SetBufferSize \/ Detach \/ \E x \in {"sys_sec", "field"} : SelectX(x)

PlotNext == Tick \/ FieldMoves \/ Enqueue \/ EnqueueBackwards \/ EnqueueEmpty \/ Menu

PlotSpec == PlotInit /\ [][PlotNext]_plotVars

-----------------------------------------------------------------------------
\* Every variable has its type; the ring is never longer than a depth typed.
PlotTypeOK ==
  /\ points \in UNION {[1 .. n -> X] : n \in Depths \cup {0}}
  /\ head \in 0 .. Depth - 1 /\ count \in 0 .. Depth
  /\ enqueueCap \in Depths /\ mode \in {"time", "xy"} /\ span \in Nat
  /\ xsource \in {"sys_sec", "field", "null"} /\ ysource \in BOOLEAN
  /\ sysSec \in X /\ field \in X /\ last \in X /\ run \in 0 .. Depth + 1

\* render() (plotting.cpp:127-140): what it draws when it is given the mutex.
Drawn == IF count > Len(points) THEN <<>>
         ELSE [j \in 1 .. count |-> points[((head + j - 1) % Len(points)) + 1]]

\* Whatever order clears, new depths, mode switches, loads and samples come
\* in, the head and count that render() finds index into the points it finds:
\* its test "this would cause a segfault" (plotting.cpp:131-134) never fires.
DrawnInBounds == count <= Len(points) /\ (count > 0 => head < Len(points))

\* "The X axis is automatically scaled to fit the entire window" (usage.md:64):
\* in Time Mode, once every point left in the ring came from the source now
\* selected and none before the other, the points lie between the left edge
\* and the right one, and the newest lies at the right edge.
TimeFits ==
  mode = "time" /\ count >= 2 /\ run >= count =>
    LET offset(j) == Drawn[j] - Drawn[1]
    IN  /\ \A j \in 1 .. count : offset(j) \in 0 .. span
        /\ offset(count) > 0 => offset(count) = span

\* The ring with its indices is the window of the last samples that
\* PlotWindow describes.
Window == INSTANCE PlotWindow WITH
            window <- Drawn, depth <- enqueueCap, inForce <- Len(points),
            time <- mode = "time"

ImplementsWindow == Window!Spec
=============================================================================
