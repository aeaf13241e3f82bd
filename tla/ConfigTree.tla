----------------------------- MODULE ConfigTree -----------------------------
(***************************************************************************)
(* From a C type to the tree of fields the user ticks: the configuration   *)
(* loaded from an ELF file (type_info_to_dartt_field, elf_parser.cpp) or   *)
(* from the JSON file made of it (parse_fields_iterative, config.cpp),     *)
(* arrays expanded and leaves collected, all by stacks of pointers into a  *)
(* tree that grows meanwhile; then the subscribe checkboxes (ui.cpp) and   *)
(* the settings saved to the JSON file and loaded again.                   *)
(*                                                                         *)
(* A type is a TypeInfo record; an array keeps its element type as its     *)
(* only field, as the code does.  The tree is a function from paths        *)
(* (sequences of child indices from 0) to fields: a DarttField* is a path, *)
(* live as long as the path is in the tree.  Of a leaf's settings the      *)
(* subscription stands for the display scale too; of the plot's, the Y     *)
(* source stands for the X source.                                         *)
(***************************************************************************)
EXTENDS Integers, Sequences, FiniteSets, SequencesExt

CONSTANTS Symbols,    \* the types of the symbol the user may name
          Types,      \* those types with the types of their members
          Nesting,    \* how deep each of them nests
          MaxClicks   \* bound: clicks on boxes and choices of the plot's source

Aggregate == {"struct", "union"}

\* resolve_type_iterative() gives fields to structs and unions, and one, at
\* offset 0, to an array; no type contains itself.
ASSUME TypesAssumption ==
  /\ IsFiniteSet(Types) /\ Symbols \subseteq Types /\ Nesting \in [Types -> Nat]
  /\ \A ti \in Types :
       /\ {ti.type, ti.typedef} \subseteq STRING /\ {ti.size, ti.total} \subseteq Nat
       /\ ti.fields \in Seq([name : STRING, off : Nat, ti : Types])
       /\ \A n \in DOMAIN ti.fields : Nesting[ti.fields[n].ti] < Nesting[ti]
       /\ ti.type = "array" => Len(ti.fields) = 1 /\ ti.fields[1].off = 0
       /\ ti.type \notin Aggregate \cup {"array"} => ti.fields = <<>>

VARIABLES type,        \* the type in the ELF file
          phase,       \* "none", "convert", "parse", "expand", "collect",
                       \* "settings", "ready"
          fromElf,     \* the load under way is of the ELF file
          stack,       \* the explicit stack of the traversal under way
          tree,        \* config.root
          leaves,      \* config.leaf_list
          subscribed,  \* the fields, leaves or not, with the flag set
          ysource,     \* the leaf a plot line draws, <<-1>> for none
          file,        \* the ui_map and the plot line of the JSON file
          wanted,      \* history: the leaves subscribed and drawn at the last
                       \* save since the file was generated
          clicks

vars == <<type, phase, fromElf, stack, tree, leaves, subscribed, ysource, file, wanted,
          clicks>>

Root == <<>>
Nowhere == <<-1>>
Below(p) == {q \in DOMAIN tree : IsPrefix(p, q)}
Children(p) == {q \in DOMAIN tree : Len(q) = Len(p) + 1 /\ IsPrefix(p, q)}
IsLeaf(p) == Children(p) = {}

Element(ti) == ti.fields[1].ti
ArrayOfAggregates(ti) == ti.type = "array" /\ Element(ti).type \in Aggregate

\* parse_field_type(): the names of the types used here.
ParseFieldType(name) ==
  CASE name \in {"uint8_t", "unsigned char"}             -> "UINT8"
    [] name \in {"uint32_t", "long unsigned int"}        -> "UINT32"
    [] name = "float"                                    -> "FLOAT"
    [] name \in {"struct", "union", "array"}             -> name
    [] OTHER                                             -> "UNKNOWN"

\* get_simple_type_name().
TypeName(ti) == IF ti.typedef # "" THEN ti.typedef ELSE ti.type

\* A field as DarttField's constructor leaves it.
NewField == [name |-> "", off |-> 0, nbytes |-> 0, kind |-> "UNKNOWN",
             typeName |-> "", total |-> 0, elementBytes |-> 0]

\* What type_info_to_dartt_field() stores of a type: an array of primitives
\* gets the kind of its elements.
WithType(field, ti) ==
  LET array     == ti.type = "array"
      primitive == array /\ ~ArrayOfAggregates(ti)
  IN  [field EXCEPT
        !.nbytes = ti.size,
        !.kind = ParseFieldType(IF primitive THEN Element(ti).type ELSE ti.type),
        !.typeName = TypeName(IF primitive THEN Element(ti) ELSE ti),
        !.total = IF array THEN ti.total ELSE 0,
        !.elementBytes = IF array THEN Element(ti).size ELSE 0]

\* How many children it gives the field.
\* Mutation of Arity: the vector is resized one short.
ArityShort(ti) == IF ti.type \in Aggregate THEN Len(ti.fields) - 1
                  ELSE IF ArrayOfAggregates(ti) THEN 1 ELSE 0

Arity(ti) == IF ti.type \in Aggregate THEN Len(ti.fields)
             ELSE IF ArrayOfAggregates(ti) THEN 1 ELSE 0

\* The tree with the fields of new put into it.
With(new) == [q \in DOMAIN new \cup DOMAIN tree |-> IF q \in DOMAIN new THEN new[q] ELSE tree[q]]

\* The tree with field f at p and n new children below it.
Stored(p, f, n) ==
  With([q \in {p} \cup {Append(p, i) : i \in 0 .. n - 1} |-> IF q = p THEN f ELSE NewField])

-----------------------------------------------------------------------------
NoSettings == [ui |-> <<>>, y |-> <<>>]

Init ==
  /\ type \in Symbols
  /\ phase = "none" /\ fromElf = FALSE /\ stack = <<>>
  /\ tree = [p \in {Root} |-> NewField] /\ leaves = <<>>
  /\ subscribed = {} /\ ysource = Nowhere
  /\ file = NoSettings
  /\ wanted = [leaves |-> {}, y |-> Nowhere] /\ clicks = 0

\* The user drops a file: config = DarttConfig(), the plot's sources detached.
Forget ==
  /\ phase \in {"none", "ready"}
  /\ tree' = [p \in {Root} |-> [NewField EXCEPT !.name = "symbol"]]
  /\ leaves' = <<>> /\ subscribed' = {} /\ ysource' = Nowhere

\* Loading from ELF also writes the JSON file anew, without settings.
DropElf ==
  /\ Forget
  /\ phase' = "convert" /\ fromElf' = TRUE
  /\ stack' = <<[ti |-> type, member |-> FALSE, name |-> "", path |-> Root, base |-> 0]>>
  /\ file' = NoSettings /\ wanted' = [leaves |-> {}, y |-> Nowhere]
  /\ UNCHANGED <<type, clicks>>

\* The symbol or the file is not found, or does not parse: what was loaded is
\* gone all the same.
LoadFails ==
  /\ Forget
  /\ phase' = "none"
  /\ UNCHANGED <<type, fromElf, stack, file, wanted, clicks>>

-----------------------------------------------------------------------------
(* The JSON file: an object is a function from the keys it has.            *)

\* A size of 0 and an empty typedef are not written.
JsonKeys(ti) ==
  {"type"} \cup (IF ti.typedef = "" THEN {} ELSE {"typedef"})
           \cup (IF ti.size > 0 THEN {"size"} ELSE {})
           \cup (IF ti.type \in Aggregate THEN {"fields"} ELSE {})
           \cup (IF ti.type = "array" THEN {"total_elements", "element_type"} ELSE {})

\* type_info_to_json().
ToJson[ti \in Types] ==
  [key \in JsonKeys(ti) |->
     CASE key = "type"           -> ti.type
       [] key = "typedef"        -> ti.typedef
       [] key = "size"           -> ti.size
       [] key = "fields"         -> [n \in DOMAIN ti.fields |->
                                       [name |-> ti.fields[n].name, byte_offset |-> ti.fields[n].off,
                                        type_info |-> ToJson[ti.fields[n].ti]]]
       [] key = "total_elements" -> ti.total
       [] OTHER                  -> ToJson[Element(ti)]]

Objects == {ToJson[ti] : ti \in Types}

\* Mutation of StructArray: an array of structs is not gone into.
StructArrayNot(j) == FALSE

StructArray(j) == j.type = "array" /\ j.element_type.type \in Aggregate

\* compute_json_dartt_offsets(): offsets relative to the parent made absolute,
\* in an array of structs or unions too.
Absolute[j \in Objects] == [base \in Nat |->
  IF j.type \in Aggregate
  THEN [j EXCEPT !.fields =
          [n \in DOMAIN j.fields |->
             [name        |-> j.fields[n].name,
              byte_offset |-> base + j.fields[n].byte_offset,
              type_info   |-> Absolute[j.fields[n].type_info][base + j.fields[n].byte_offset]]]]
  ELSE IF StructArray(j)
  THEN [j EXCEPT !.element_type = Absolute[j.element_type][base]]
  ELSE j]

\* json::value().
Value(j, key, default) == IF key \in DOMAIN j THEN j[key] ELSE default

DropJson ==
  /\ Forget
  /\ phase' = "parse" /\ fromElf' = FALSE
  /\ stack' = <<[json |-> Absolute[ToJson[type]][0], is_type_info |-> TRUE, path |-> Root]>>
  /\ UNCHANGED <<type, file, wanted, clicks>>

Top  == Last(stack)
Rest == Front(stack)

Loading(p) == phase = p /\ UNCHANGED <<type, fromElf, subscribed, ysource, file, wanted, clicks>>

\* One turn of the loop of type_info_to_dartt_field().
ConvertStep ==
  /\ Loading("convert") /\ stack # <<>>
  /\ LET ti == Top.ti
         p  == Top.path
         f  == [tree[p] EXCEPT !.off = Top.base, !.name = IF Top.member THEN Top.name ELSE @]
         children == [n \in 1 .. (IF ti.type = "array" THEN Arity(ti) ELSE Len(ti.fields)) |->
                        [ti |-> ti.fields[n].ti, member |-> ti.type # "array",
                         name |-> ti.fields[n].name, path |-> Append(p, n - 1),
                         base |-> Top.base + ti.fields[n].off]]
     IN  /\ tree' = Stored(p, WithType(f, ti), Arity(ti))
         /\ stack' = Rest \o Reverse(children)
  /\ UNCHANGED <<phase, leaves>>

\* parse_fields_iterative(): a member of a struct or union ...
ParseField ==
  /\ Loading("parse") /\ stack # <<>> /\ ~Top.is_type_info
  /\ tree' = [tree EXCEPT ![Top.path].name = Top.json.name, ![Top.path].off = Top.json.byte_offset]
  /\ stack' = Append(Rest, [json |-> Top.json.type_info, is_type_info |-> TRUE, path |-> Top.path])
  /\ UNCHANGED <<phase, leaves>>

\* ... and a type: the root's, an array element's (they leave the field's
\* name and offset as they are) or a member's.
ParseType ==
  /\ Loading("parse") /\ stack # <<>> /\ Top.is_type_info
  /\ LET j    == Top.json
         p    == Top.path
         elem == Value(j, "element_type", [type |-> ""])
         structs == elem.type \in Aggregate
         named   == IF j.type = "array" /\ ~structs THEN elem ELSE j
         f == [tree[p] EXCEPT !.kind = ParseFieldType(j.type), !.nbytes = Value(j, "size", 0),
                 !.typeName = Value(named, "typedef", named.type),
                 !.total = Value(j, "total_elements", 0), !.elementBytes = Value(elem, "size", 0)]
         work == CASE j.type \in Aggregate ->
                        [n \in DOMAIN j.fields |->
                          [json |-> j.fields[n], is_type_info |-> FALSE, path |-> Append(p, n - 1)]]
                   [] j.type = "array" /\ structs ->
                        <<[json |-> elem, is_type_info |-> TRUE, path |-> Append(p, 0)]>>
                   [] OTHER -> <<>>
     IN  /\ tree' = Stored(p, f, Len(work))
         /\ stack' = Rest \o Reverse(work)
  /\ UNCHANGED <<phase, leaves>>

LoadDone ==
  /\ phase \in {"convert", "parse"} /\ stack = <<>>
  /\ phase' = "expand" /\ stack' = <<Root>>
  /\ UNCHANGED <<type, fromElf, tree, leaves, subscribed, ysource, file, wanted, clicks>>

-----------------------------------------------------------------------------
\* expand_array_elements().
ElementName(i) == "[" \o ToString(i) \o "]"

\* An array of primitives gets a child per element.
Elements(p) ==
  [q \in {Append(p, i) : i \in 0 .. tree[p].total - 1} |->
     [NewField EXCEPT !.name = ElementName(Last(q)),
                      !.off = tree[p].off + Last(q) * tree[p].elementBytes,
                      !.nbytes = tree[p].elementBytes,
                      !.kind = ParseFieldType(tree[p].typeName),
                      !.typeName = tree[p].typeName]]

\* Mutation of Shifted: the element moves, what is inside it does not.
ShiftedShallow(f, delta, depth) == [f EXCEPT !.off = @ + (IF depth = 0 THEN delta ELSE 0)]

\* adjust_offsets(): a field of a cloned element; depth 0 is the element.
Shifted(f, delta, depth) == [f EXCEPT !.off = @ + delta]

\* An array of structs or unions: child 0 is cloned, all it holds included.
Clones(p) ==
  LET k    == Len(p) + 1
      tmpl == Below(Append(p, 0))
      at(q, i) == [q EXCEPT ![k] = i]
  IN  [q \in {at(t, i) : t \in tmpl, i \in 0 .. tree[p].total - 1} |->
         LET f == Shifted(tree[at(q, 0)], q[k] * tree[p].elementBytes, Len(q) - k)
         IN  IF Len(q) = k THEN [f EXCEPT !.name = ElementName(q[k])] ELSE f]

IsTemplate(p) == Children(p) = {Append(p, 0)} /\ tree[Append(p, 0)].kind \in Aggregate

ExpandedAt(p) ==
  IF tree[p].total > 0 /\ IsLeaf(p) /\ tree[p].elementBytes > 0 THEN With(Elements(p))
  ELSE IF tree[p].total > 0 /\ IsTemplate(p) THEN With(Clones(p))
  ELSE tree

\* The children of p, pushed last to first, so that the first is on top.
Pushed(children) == [n \in 1 .. Cardinality(children) |->
                       CHOOSE q \in children : Last(q) = Cardinality(children) - n]

ExpandStep ==
  /\ Loading("expand") /\ stack # <<>>
  /\ tree' = ExpandedAt(Top)
  /\ stack' = Rest \o Pushed({q \in DOMAIN tree' : Len(q) = Len(Top) + 1 /\ IsPrefix(Top, q)})
  /\ UNCHANGED <<phase, leaves>>

ExpandDone ==
  /\ Loading("expand") /\ stack = <<>>
  /\ phase' = "collect" /\ stack' = <<Root>>
  /\ UNCHANGED <<tree, leaves>>

\* collect_leaves().
CollectStep ==
  /\ Loading("collect") /\ stack # <<>>
  /\ leaves' = IF IsLeaf(Top) THEN Append(leaves, Top) ELSE leaves
  /\ stack' = Rest \o Pushed(Children(Top))
  /\ UNCHANGED <<phase, tree>>

CollectDone ==
  /\ Loading("collect") /\ stack = <<>>
  /\ phase' = IF fromElf THEN "ready" ELSE "settings"
  /\ UNCHANGED <<stack, tree, leaves>>

-----------------------------------------------------------------------------
\* The key of a leaf in ui_map and in the plot settings.
\* Mutation of Key: the offset alone.
KeyOffset(p) == <<tree[p].off, "">>

Key(p) == <<tree[p].off, tree[p].name>>

\* Where in leaf_list a key is.
Places(key) == {n \in DOMAIN leaves : Key(leaves[n]) = key}

\* find_field_by_offset_and_name(): the first leaf with the key.
FindField(key) == IF Places(key) = {} THEN Nowhere ELSE leaves[Min(Places(key))]

\* A line without a source is saved as <<-2, "none">>, here <<>>.  Loaded, the
\* one and the other mean no source, so a field of that name does too.
NoSource(key) == key = <<>> \/ key[2] = "none"

\* The end of load_dartt_config(): ui_map, then the plot line.
LoadSettings ==
  /\ phase = "settings"
  /\ phase' = "ready"
  /\ subscribed' = {p \in Range(leaves) : Key(p) \in DOMAIN file.ui /\ file.ui[Key(p)]}
  /\ ysource' = IF NoSource(file.y) THEN Nowhere ELSE FindField(file.y)
  /\ UNCHANGED <<type, fromElf, stack, tree, leaves, file, wanted, clicks>>

\* save_dartt_config(): a later leaf overwrites an earlier one of its key.
SavedFlag(key) == leaves[Max(Places(key))] \in subscribed

Save ==
  /\ phase = "ready"
  /\ file' = [ui |-> [key \in {Key(p) : p \in Range(leaves)} |-> SavedFlag(key)],
              y  |-> IF ysource = Nowhere THEN <<>> ELSE Key(ysource)]
  /\ wanted' = [leaves |-> subscribed \cap Range(leaves), y |-> ysource]
  /\ UNCHANGED <<type, phase, fromElf, stack, tree, leaves, subscribed, ysource, clicks>>

-----------------------------------------------------------------------------
\* The checkboxes.
Click == clicks < MaxClicks /\ clicks' = clicks + 1

AllChildrenSubscribed(p) == \A q \in Below(p) : IsLeaf(q) => q \in subscribed
AnyChildSubscribed(p) == \E q \in Below(p) : q \in subscribed

ClickLeaf(p) ==
  /\ Click
  /\ phase = "ready" /\ IsLeaf(p)
  /\ subscribed' = IF p \in subscribed THEN subscribed \ {p} ELSE subscribed \cup {p}
  /\ UNCHANGED <<type, phase, fromElf, stack, tree, leaves, ysource, file, wanted>>

\* set_subscribed_all() on the parent, itself and the inner nodes included.
ClickParent(p) ==
  /\ Click
  /\ phase = "ready" /\ ~IsLeaf(p)
  /\ subscribed' = IF AllChildrenSubscribed(p) THEN subscribed \ Below(p)
                   ELSE subscribed \cup Below(p)
  /\ UNCHANGED <<type, phase, fromElf, stack, tree, leaves, ysource, file, wanted>>

\* render_field_selector_tree() offers the subscribed leaves.
SelectY(p) ==
  /\ Click
  /\ phase = "ready" /\ IsLeaf(p) /\ p \in subscribed
  /\ ysource' = p
  /\ UNCHANGED <<type, phase, fromElf, stack, tree, leaves, subscribed, file, wanted>>

Next == DropElf \/ DropJson \/ LoadFails \/ ConvertStep \/ ParseField \/ ParseType \/ LoadDone
          \/ ExpandStep \/ ExpandDone \/ CollectStep \/ CollectDone
          \/ LoadSettings \/ Save
          \/ \E p \in DOMAIN tree : ClickLeaf(p) \/ ClickParent(p) \/ SelectY(p)

Spec == Init /\ [][Next]_vars

-----------------------------------------------------------------------------
\* Every variable has its type; the tree has no field without its parent.
Paths == {IF phase \in {"convert", "parse"} THEN stack[n].path ELSE stack[n] : n \in DOMAIN stack}

TypeOK ==
  /\ type \in Symbols /\ fromElf \in BOOLEAN
  /\ phase \in {"none", "convert", "parse", "expand", "collect", "settings", "ready"}
  /\ Root \in DOMAIN tree /\ \A p \in DOMAIN tree \ {Root} : Front(p) \in DOMAIN tree
  /\ \A p \in DOMAIN tree : tree[p].off \in Nat /\ tree[p].nbytes \in Nat
  /\ Range(leaves) \subseteq DOMAIN tree /\ subscribed \subseteq DOMAIN tree
  /\ ysource \in Range(leaves) \cup {Nowhere}
  /\ wanted.leaves \subseteq DOMAIN tree \/ phase # "ready"

\* The stacks of the four traversals hold pointers into vectors that the same
\* traversal resizes: each pointer still waiting points at a field of the
\* tree, and none at a field already behind another that waits above it.
StackIsLive ==
  /\ Paths \subseteq DOMAIN tree
  /\ Cardinality(Paths) = Len(stack)
  /\ \A p, q \in Paths : IsPrefix(p, q) => p = q

\* What a C compiler lays out in a type, the elements of an array included.
Members(ti) ==
  IF ti.type = "array"
  THEN [n \in 1 .. ti.total |->
          [name |-> ElementName(n - 1), off |-> (n - 1) * Element(ti).size, ti |-> Element(ti)]]
  ELSE ti.fields

\* The leaves of a type at an address, in order: the reference.
LeavesOf[ti \in Types] == [base \in Nat |->
  FlattenSeq([n \in DOMAIN Members(ti) |->
    LET m == Members(ti)[n]
    IN  IF Members(m.ti) = <<>>
        THEN <<[name |-> m.name, off |-> base + m.off, nbytes |-> m.ti.size]>>
        ELSE LeavesOf[m.ti][base + m.off]])]

LeavesOfSymbol(ti) ==
  IF Members(ti) = <<>> THEN <<[name |-> "symbol", off |-> 0, nbytes |-> ti.size]>>
  ELSE LeavesOf[ti][0]

\* What the debug information must be for both loads to lay it out as the
\* compiler did.
Expandable ==
  \A ti \in Types : ti.type = "array" =>
    /\ Element(ti).type # "array"
    /\ IF Element(ti).type \in Aggregate THEN ti.total > 0 /\ Element(ti).fields # <<>>
       ELSE ti.total = 0 \/ Element(ti).size > 0

\* No two leaves of a symbol have one key, as leaves of a union may.
KeysDiffer ==
  \A ti \in Symbols : \A m, n \in DOMAIN LeavesOfSymbol(ti) :
    LeavesOfSymbol(ti)[m].off = LeavesOfSymbol(ti)[n].off
      /\ LeavesOfSymbol(ti)[m].name = LeavesOfSymbol(ti)[n].name => m = n

\* Whichever file the configuration comes from, nested arrays and structs
\* included, leaf_list ends up with the leaves the compiler laid out: their
\* names, absolute offsets and sizes, in the order in which coalesce_fields()
\* (buffer_sync.cpp:49) takes them.
LeavesMatchType ==
  phase = "ready" =>
    [n \in DOMAIN leaves |-> [name |-> tree[leaves[n]].name, off |-> tree[leaves[n]].off,
                              nbytes |-> tree[leaves[n]].nbytes]]
      = LeavesOfSymbol(type)

\* "All settings are saved in the same .json file" (usage.md:71): a load of
\* the JSON file brings back the subscriptions and the plotted field of the
\* last save, unless an ELF load wrote the file anew.  A plotted field that is
\* named none comes back as no source (config.cpp:641).
Plotted(p) == IF p # Nowhere /\ tree[p].name = "none" THEN Nowhere ELSE p

SettingsSurvive ==
  [][LoadSettings => /\ subscribed' = wanted.leaves
                     /\ ysource' = Plotted(wanted.y)]_vars

\* What usage.md:71 says of every plotted field, whatever its name.
SourcesSurvive == [][LoadSettings => ysource' = wanted.y]_vars

\* "creates array_size children with [i] names and correct offsets/types"
\* (config.cpp:234): an element has the type a lone variable of it has.
ElementTypes ==
  phase = "ready" =>
    \A p \in DOMAIN tree : tree[p].total > 0 =>
      \A q \in Children(p) : tree[q].kind = tree[p].kind \/ tree[p].kind = "array"

\* "show mixed state if some but not all children subscribed" (ui.cpp:496).
MixedMeansSome ==
  phase = "ready" =>
    \A p \in DOMAIN tree :
      ~IsLeaf(p) /\ AnyChildSubscribed(p) /\ ~AllChildrenSubscribed(p) =>
        \E q \in Below(p) : IsLeaf(q) /\ q \in subscribed
=============================================================================
