------------------------------ MODULE MCElfLoad ------------------------------
(***************************************************************************)
(* The debug information of a few C types, and of programs with a variable *)
(* of each of them, for ElfLoad.                                           *)
(***************************************************************************)
EXTENDS ElfLoad

Plain(tag, name, size, ref) == [tag |-> tag, name |-> name, size |-> size, off |-> 0,
                                ref |-> ref, members |-> <<>>, dims |-> <<>>,
                                loc |-> [form |-> "none"], ranges |-> <<>>]

\* How compilers write an offset: not at all, as a constant, or to be added to
\* the address of the struct.
Located(off) ==
  CASE off = 0      -> [form |-> "none"]
    [] off % 8 = 4  -> [form |-> "constant", value |-> off]
    [] off \in {8, 16} -> [form |-> "expression", value |-> <<PlusUconst, off>>]
    [] OTHER        -> [form |-> "expression",
                        value |-> <<PlusUconst, 128 + (off % 128), off \div 128>>]

\* How they write an array's bounds.
Ranged(dim) ==
  CASE dim = 0 -> <<>>
    [] dim = 2 -> "upper_bound" :> 1
    [] OTHER   -> "count" :> dim

Field(name, off, ref) ==
  [Plain("member", name, 0, ref) EXCEPT !.off = off, !.loc = Located(off)]
Compound(tag, size, members) == [Plain(tag, "", size, Untyped) EXCEPT !.members = members]
ArrayOf(ref, dims) ==
  [Plain("array", "", 0, ref) EXCEPT !.dims = dims, !.ranges = [n \in DOMAIN dims |-> Ranged(dims[n])]]

\* typedef unsigned char u8, uint8_t; a table of 2 x 3; a pointer to a struct
\* and to void; a union of a word and its bytes; an enum; a type unknown.
CTypes ==
  [uchar  |-> Plain("base", "unsigned char", 1, Untyped),
   ulong  |-> Plain("base", "long unsigned int", 4, Untyped),
   u8     |-> Plain("typedef", "u8", 0, "uchar"),
   byte   |-> Plain("typedef", "uint8_t", 0, "u8"),
   vbyte  |-> Plain("volatile", "", 0, "byte"),
   cvbyte |-> Plain("const", "", 0, "vbyte"),
   cvoid  |-> Plain("const", "", 0, Untyped),
   opaque |-> Plain("typedef", "opaque_t", 0, Untyped),
   mode   |-> Plain("enum", "mode", 4, Untyped),
   table  |-> ArrayOf("cvbyte", <<2, 3>>),
   row    |-> Plain("typedef", "row_t", 0, "table"),
   rows   |-> ArrayOf("row", <<2>>),
   pvoid  |-> Plain("pointer", "", 4, Untyped),
   word   |-> Field("word", 0, "ulong"),
   bytes  |-> Field("bytes", 0, "rows"),
   both   |-> Compound("union", 12, <<"word", "bytes">>),
   inner  |-> Field("u", 4, "both"),
   id     |-> Field("id", 0, "vbyte"),
   state  |-> Field("state", 16, "mode"),
   flags  |-> Field("flags", 320, "ulong"),
   tail   |-> Field("tail", 324, "rowsx"),
   body   |-> Compound("struct", 324, <<"id", "inner", "state", "flags", "tail">>),
   motor  |-> Plain("typedef", "motor_t", 0, "body"),
   pmotor |-> Plain("pointer", "", 4, "motor"),
   next   |-> Field("next", 0, "pmotor"),
   ctx    |-> Field("ctx", 4, "pvoid"),
   hold   |-> Field("hold", 8, "cvoid"),
   tag    |-> Field("tag", 8, "opaque"),
   empty  |-> Compound("struct", 0, <<>>),
   pad    |-> Field("pad", 12, "empty"),
   owner  |-> Compound("struct", 12, <<"next", "ctx", "hold", "tag", "pad">>),
   all    |-> ArrayOf("owner", <<2>>),
   object |-> Plain("class", "", 4, Untyped),
   rowsx  |-> ArrayOf("byte", <<0>>)]

\* How deep they are nested.
Depth[d \in DOMAIN CTypes] ==
  LET die == CTypes[d]
      within == IF die.tag \in {"typedef", "const", "volatile", "array"} /\ die.ref # Untyped
                THEN {die.ref} ELSE {CTypes[m].ref : m \in Range(die.members)}
  IN  IF within = {} THEN 0 ELSE 1 + Max({Depth[t] : t \in within})

Asked == {d \in DOMAIN CTypes : CTypes[d].tag # "member"}

Listed(set) == FoldSet(LAMBDA x, seq : Append(seq, x), <<>>, set)

Block(tag, members) == [Compound(tag, 0, members) EXCEPT !.tag = tag]
Variable(name, ref) == Plain("variable", name, 0, ref)

\* One unit has half of the variables, in a namespace, and a function that
\* has some more in a block; two more have a local variable and a declaration
\* of a name that is global elsewhere.
Globals == [n \in {"g_" \o d : d \in Asked} |->
              LET d == CHOOSE d \in Asked : n = "g_" \o d IN Variable(n, d)]
InSpace == {"g_table", "g_motor", "g_rows", "g_owner"}
InBlock == {"g_mode", "g_pmotor", "g_all"}

Scopes ==
  [l_id   |-> Variable("g_motor", "uchar"),
   d_rows |-> Variable("g_row", "rowsx"),
   anon   |-> Variable("", "uchar"),
   spec   |-> Variable("g_byte", Untyped),
   block  |-> Block("block", Listed(InBlock)),
   main   |-> Block("subprogram", <<"anon", "block">>),
   space  |-> Block("namespace", Listed(InSpace)),
   types  |-> Block("cu", Listed(Asked)),
   app    |-> Block("cu", <<"spec", "space", "main">> \o
                           Listed(DOMAIN Globals \ (InSpace \cup InBlock))),
   loop   |-> Block("subprogram", <<"l_id">>),
   local  |-> Block("cu", <<"loop">>),
   extern |-> Block("cu", <<"d_rows">>)]

Program == CTypes @@ Globals @@ Scopes

\* struct node { unsigned long value; struct node *next; } g_list;
Linked ==
  [ulong  |-> CTypes["ulong"],
   value  |-> Field("value", 0, "ulong"),
   next   |-> Field("next", 4, "pnode"),
   node   |-> Compound("struct", 8, <<"value", "next">>),
   pnode  |-> Plain("pointer", "", 4, "node"),
   g_list |-> Variable("g_list", "node"),
   lib    |-> Block("cu", <<"node", "g_list">>)]
Node == {"node"}

Depths == [d \in DOMAIN Dies |-> IF d \in DOMAIN CTypes THEN Depth[d]
                                ELSE IF d \in Node THEN 1 ELSE 0]

\* The programs below are such as compilers write.
ASSUME WellFormedPrograms == WellFormed(Depths, 20)

Symbol(n, size) == [name |-> n, size |-> size, die |-> n]
Table == Listed({Symbol(n, IF n = "g_owner" THEN 0 ELSE 12) : n \in DOMAIN Globals}
                  \cup {[name |-> "g_asm", size |-> 4, die |-> "none"]})

Elf(dwarf, units) == [elf |-> TRUE, dwarf |-> dwarf, units |-> units,
                      sections |-> <<<<Symbol("g_hidden", 1)>>, Table>>]

Firmware == {Elf("ok", <<"types", "app">>), Elf("none", <<>>), Elf("error", <<>>),
             [Elf("ok", <<>>) EXCEPT !.elf = FALSE]}
WithList == {[Elf("ok", <<"lib">>) EXCEPT !.sections = <<<<Symbol("g_list", 8)>>>>]}
ListName == {"g_list"}
WithLocal  == {Elf("ok", <<"local", "types", "app">>)}
WithExtern == {Elf("ok", <<"extern", "types", "app">>)}

Typed == DOMAIN Globals \cup {"g_asm", "g_missing"}
=============================================================================
