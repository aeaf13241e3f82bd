----------------------------- MODULE MCRegions -----------------------------
(***************************************************************************)
(* Regions on every list of up to three fields drawn from a block of 26,   *)
(* 28 or 32 bytes, in offset order or not.  A serial buffer of 16 bytes    *)
(* has the remainders that the 64 of the code has: the chunks are of 8 or  *)
(* 12 bytes, and a reply in the addressed format is two bytes too long for *)
(* it with its COBS bytes.  Regions of less than one, one and several      *)
(* chunks occur.                                                           *)
(***************************************************************************)
EXTENDS Regions

Some == {[start |-> s, bytes |-> b] : s \in {0, 1, 2, 4, 8, 20, 24},
                                      b \in {1, 2, 4, 8}}
        \cup {[start |-> 8, bytes |-> 20], [start |-> 4, bytes |-> 0],
               [start |-> 28, bytes |-> 0]}

InOrder(list) == \A x, y \in DOMAIN list : x < y => list[x].start <= list[y].start

AllLists == UNION {[1 .. n -> Some] : n \in 0 .. 3}
Ordered  == {list \in AllLists : InOrder(list)}

\* As a union of small structs lists its leaves.
Members == {f \in Some : f.start \in {0, 4, 8} /\ f.bytes \in {2, 4}}
Any     == UNION {[1 .. n -> Members] : n \in 0 .. 3}

Sizes == {26, 28, 32}
=============================================================================
