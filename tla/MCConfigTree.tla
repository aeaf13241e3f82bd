---------------------------- MODULE MCConfigTree ----------------------------
(***************************************************************************)
(* C types for ConfigTree, as DWARF and the resolver of elf_parser.cpp     *)
(* describe them.                                                          *)
(***************************************************************************)
EXTENDS ConfigTree

Base(name, typedef, size) == [type |-> name, typedef |-> typedef, size |-> size,
                              total |-> 0, fields |-> <<>>]
Member(name, off, ti) == [name |-> name, off |-> off, ti |-> ti]
Compound(kind, size, fields) == [type |-> kind, typedef |-> "", size |-> size,
                                 total |-> 0, fields |-> fields]
ArrayOf(n, ti) == [type |-> "array", typedef |-> "", size |-> 0, total |-> n,
                   fields |-> <<Member("__element_type__", 0, ti)>>]

U8    == Base("unsigned char", "uint8_t", 1)
U32   == Base("long unsigned int", "uint32_t", 4)
Float == Base("float", "", 4)
Tick  == Base("long unsigned int", "tick_t", 4)

\* struct { uint8_t id; float gain; }
Plain == Compound("struct", 8, <<Member("id", 0, U8), Member("gain", 4, Float)>>)

\* struct { uint8_t id; struct { uint8_t raw[2]; } ch[2]; }
Channels ==
  Compound("struct", 5, <<
    Member("id", 0, U8),
    Member("ch", 1, ArrayOf(2, Compound("struct", 2, <<Member("raw", 0, ArrayOf(2, U8))>>)))>>)

\* struct { uint8_t k; struct { uint8_t q; } in[2]; } out[2], the symbol an array
Nested ==
  ArrayOf(2, Compound("struct", 2, <<
    Member("in", 0, ArrayOf(2, Compound("struct", 1, <<Member("q", 0, U8)>>)))>>))

\* struct { union { uint32_t word; uint8_t byte[2]; } u; float x; }
Overlay ==
  Compound("struct", 8, <<
    Member("u", 0, Compound("union", 4, <<Member("word", 0, U32),
                                          Member("byte", 0, ArrayOf(2, U8))>>)),
    Member("x", 4, Float)>>)

\* union { uint8_t lo[2]; uint8_t hi[2]; }: the elements' keys coincide
Twins == Compound("union", 2, <<Member("lo", 0, ArrayOf(2, U8)), Member("hi", 0, ArrayOf(2, U8))>>)

\* struct { tick_t at[2]; }
Ticks == Compound("struct", 8, <<Member("at", 0, ArrayOf(2, Tick))>>)

\* typedef uint8_t row_t[2]; struct { row_t rows[2]; }
Rows == Compound("struct", 4, <<Member("rows", 0, ArrayOf(2, [ArrayOf(2, U8) EXCEPT !.typedef = "row_t"]))>>)

\* struct { uint8_t none; uint8_t id; }
Unlucky == Compound("struct", 2, <<Member("none", 0, U8), Member("id", 1, U8)>>)

RECURSIVE PartsOf(_), Depth(_)
PartsOf(ti) == {ti} \cup UNION {PartsOf(ti.fields[n].ti) : n \in DOMAIN ti.fields}
Depth(ti) == IF ti.fields = <<>> THEN 0
             ELSE 1 + Max({Depth(ti.fields[n].ti) : n \in DOMAIN ti.fields})

AllTypes == UNION {PartsOf(ti) : ti \in Symbols}
Depths   == [ti \in AllTypes |-> Depth(ti)]

LaidOut   == {Plain, Channels, Nested, Overlay, Unlucky}
OnlyTwins == {Twins}
OnlyTicks == {Ticks}
OnlyRows  == {Rows}
OnlyPlain == {Plain}

\* What LeavesAreTheTypes and SettingsAreRestored of ConfigTreeProofs suppose;
\* Rows does not have the one, Twins the other.
ASSUME LaidAssumption == Symbols # OnlyRows => Expandable
ASSUME KeysAssumption == Symbols # OnlyTwins => KeysDiffer
=============================================================================
