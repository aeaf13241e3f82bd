---------------------------- MODULE MCFieldSync ----------------------------
(***************************************************************************)
(* Layouts of a block for FieldSync: words of two bytes, chunks of two     *)
(* words, three variables.                                                 *)
(***************************************************************************)
EXTENDS FieldSync

\* A byte, another in the word after it, and a variable of two words.
ApartOff  == [a |-> 0, b |-> 2, wide |-> 4]
ApartSize == [a |-> 1, b |-> 1, wide |-> 4]

\* Two bytes that share a word.
PairOff  == [a |-> 0, b |-> 1]
PairSize == [a |-> 1, b |-> 1]

\* A byte and a variable of two words with a word between them: two regions,
\* two requests.
GapOff  == [a |-> 0, wide |-> 4]
GapSize == [a |-> 1, wide |-> 4]

\* The variable of two words lies across the border of two chunks.
AcrossOff  == [a |-> 0, wide |-> 2, b |-> 6]
AcrossSize == [a |-> 2, wide |-> 4, b |-> 2]

\* A block whose size is not a multiple of a word, the last byte a variable.
TailOff  == [a |-> 0, b |-> 2]
TailSize == [a |-> 1, b |-> 1]

AllThree == {"a", "b", "wide"}
Both     == {"a", "b"}
AAndWide == {"a", "wide"}
None     == {}
OnlyA    == {"a"}
Bits     == {0, 1}

\* What the proofs take as a hypothesis about the list of requests.
ASSUME RequestsAssumption == Requests \in Seq(SUBSET Nat)
=============================================================================
