------------------------------ MODULE ElfTypes ------------------------------
(***************************************************************************)
(* resolve_type_iterative() (elf_parser.cpp): the TypeInfo tree of a type, *)
(* built from its debug information by a stack of work whose items point   *)
(* into the tree.  The debug information is a graph of DIEs; libdwarf's    *)
(* calls are lookups in it.  A TypeInfo* is a path in the tree: n for      *)
(* fields[n].type_info, Pointee for pointee.  Bit sizes, enumerators and   *)
(* qualifier flags are left out, and so is the cache: it is asked first    *)
(* (elf_parser.cpp:489) but nothing is ever put into it, so it is empty.   *)
(***************************************************************************)
EXTENDS Integers, FiniteSets, FiniteSetsExt, Sequences, SequencesExt

CONSTANTS
  Dies,    \* by name of a DIE: [tag, name, size, off, ref, members, dims, loc,
           \* ranges]; loc and ranges are what it says of off and dims
  Roots    \* the types of the symbol that may be asked for

Untyped == "none"  \* the ref of a DIE without DW_AT_type

\* What libdwarf hands out refers to DIEs it knows.
ASSUME DiesAssumption ==
  /\ Roots \subseteq DOMAIN Dies
  /\ \A d \in DOMAIN Dies : Dies[d].ref \in DOMAIN Dies \cup {Untyped}
                              /\ Dies[d].members \in Seq(DOMAIN Dies)

VARIABLES root,     \* history: the type asked for
          stack,    \* the work, each item with the path of its result
          tree      \* the TypeInfo records made so far, by path

types == <<root, stack, tree>>

Pointee == -1
NewType == [type |-> "", typedef |-> "", size |-> 0, total |-> 0, fields |-> <<>>]

\* The root's record, as new.
NewTree == [p \in {<<>>} |-> NewType]

TypesInit == root = Untyped /\ stack = <<>> /\ tree = NewTree

\* The call: one record, the root's.
AskType(d) ==
  /\ root = Untyped /\ root' = d
  /\ stack' = <<[kind |-> "resolve", die |-> d, path |-> <<>>]>>
  /\ UNCHANGED tree

-----------------------------------------------------------------------------
Top  == Last(stack)
Die  == Dies[Top.die]
Rest == Front(stack)

Resolving(tags) ==
  /\ stack # <<>> /\ Top.kind = "resolve" /\ Die.tag \in tags
  /\ UNCHANGED root

\* A work item for the type the DIE refers to, if it does.
Referred(path) == IF Die.ref = Untyped THEN <<>>
                  ELSE <<[kind |-> "resolve", die |-> Die.ref, path |-> path]>>

\* The tree with record r at the item's path and fresh records at the paths new.
With(r, new) ==
  [p \in DOMAIN tree \cup {Top.path} \cup new |->
     IF p = Top.path THEN r ELSE IF p \in new THEN NewType ELSE tree[p]]

ResolveBase ==
  /\ Resolving({"base", "enum"})
  /\ tree' = With([tree[Top.path] EXCEPT
                     !.type = IF Die.tag = "enum" THEN "enum"
                              ELSE IF Die.name = "" THEN "unknown" ELSE Die.name,
                     !.size = Die.size], {})
  /\ stack' = Rest

\* Mutation of OuterName: the innermost name of a chain of typedefs wins.
InnerName(name) == Die.name

\* The outermost name of a chain of typedefs stays.
OuterName(name) == IF name = "" THEN Die.name ELSE name

ResolveTypedef ==
  /\ Resolving({"typedef"})
  /\ tree' = With(IF Die.ref = Untyped THEN [tree[Top.path] EXCEPT !.type = Die.name]
                  ELSE [tree[Top.path] EXCEPT !.typedef = OuterName(@)], {})
  /\ stack' = Rest \o Referred(Top.path)

\* Mutation of ResolveQualifier: the qualifier itself is pushed, in place of
\* the type it qualifies.
ResolveQualifierAgain ==
  /\ Resolving({"const", "volatile"})
  /\ tree' = IF Die.ref = Untyped THEN With([tree[Top.path] EXCEPT !.type = "void"], {})
             ELSE tree
  /\ stack' = IF Die.ref = Untyped THEN Rest ELSE Append(Rest, Top)

ResolveQualifier ==
  /\ Resolving({"const", "volatile"})
  /\ tree' = IF Die.ref = Untyped THEN With([tree[Top.path] EXCEPT !.type = "void"], {})
             ELSE tree
  /\ stack' = Rest \o Referred(Top.path)

ResolvePointer ==
  /\ Resolving({"pointer"})
  /\ LET pointee == Append(Top.path, Pointee)
     IN  /\ tree' = With([tree[Top.path] EXCEPT !.type = "pointer", !.size = Die.size],
                         IF Die.ref = Untyped THEN {} ELSE {pointee})
         /\ stack' = Rest \o Referred(pointee)

\* A subrange has a count, or an upper bound, or neither: a flexible array.
Dimension(range) ==
  CASE "count" \in DOMAIN range -> range.count
    [] "count" \notin DOMAIN range /\ "upper_bound" \in DOMAIN range -> range.upper_bound + 1
    [] OTHER -> 0

Product(ranges) == FoldLeft(LAMBDA n, range : n * Dimension(range), 1, ranges)

ResolveArray ==
  /\ Resolving({"array"})
  /\ LET element == Append(Top.path, 0)
         array == [tree[Top.path] EXCEPT !.type = "array"]
     IN  /\ tree' = IF Die.ref = Untyped THEN With(array, {})
                    ELSE With([array EXCEPT
                                 !.total = Product(Die.ranges),
                                 !.fields = <<[name |-> "__element_type__", off |-> 0]>>],
                              {element})
         /\ stack' = Rest \o Referred(element)

\* Mutation of Room: one TypeInfo too few for the members.
RoomShort(path, n) == {Append(path, i) : i \in 0 .. n - 2}

\* The TypeInfo records made for n members before any of them is parsed.
Room(path, n) == {Append(path, i) : i \in 0 .. n - 1}

\* The members, pushed last to first.
MemberWork(path, members) ==
  Reverse([i \in DOMAIN members |->
             [kind |-> "member", die |-> members[i], path |-> Append(path, i - 1)]])

ResolveCompound ==
  /\ Resolving({"struct", "union"})
  /\ LET n == Len(Die.members)
     IN  /\ tree' = With([tree[Top.path] EXCEPT
                            !.type = Die.tag, !.size = Die.size,
                            !.fields = [i \in 1 .. n |-> [name |-> "", off |-> 0]]],
                         Room(Top.path, n))
         /\ stack' = Rest \o MemberWork(Top.path, Die.members)

\* A C++ class, a reference, a function: whatever has no case.
Unknown(tag) ==
  tag \notin {"base", "enum", "typedef", "const", "volatile", "pointer", "array",
              "struct", "union"}

ResolveOther ==
  /\ stack # <<>> /\ Top.kind = "resolve" /\ Unknown(Die.tag)
  /\ tree' = With([tree[Top.path] EXCEPT !.type = "unknown", !.size = Die.size], {})
  /\ stack' = Rest
  /\ UNCHANGED root

\* The number that DWARF writes in groups of seven bits, the lowest first, up
\* to a byte below 128.
Uleb128(bytes) ==
  LET last == {i \in DOMAIN bytes : bytes[i] < 128}
  IN FoldRight(LAMBDA byte, rest : 128 * rest + (byte % 128),
               SubSeq(bytes, 1, IF last = {} THEN Len(bytes) ELSE Min(last)), 0)

PlusUconst == 35

\* get_member_location(): none is 0, and of the expressions only one is known.
MemberLocation(loc) ==
  CASE loc.form = "constant" -> loc.value
    [] loc.form = "expression" /\ Len(loc.value) >= 2 /\ Head(loc.value) = PlusUconst ->
         Uleb128(Tail(loc.value))
    [] OTHER -> 0

ParseMember ==
  /\ stack # <<>> /\ Top.kind = "member"
  /\ tree' = [tree EXCEPT ![Front(Top.path)].fields[Last(Top.path) + 1] =
                [name |-> Die.name, off |-> MemberLocation(Die.loc)]]
  /\ stack' = Rest \o Referred(Top.path)
  /\ UNCHANGED root

\* One turn of the loop.
ResolveStep ==
  \/ ResolveBase \/ ResolveTypedef \/ ResolveQualifier \/ ResolvePointer
  \/ ResolveArray \/ ResolveCompound \/ ResolveOther \/ ParseMember

-----------------------------------------------------------------------------
\* Every variable has its type; a record of a field or a pointee has a parent.
TypesOK ==
  /\ root \in Roots \cup {Untyped}
  /\ \A n \in DOMAIN stack : stack[n].kind \in {"resolve", "member"}
                               /\ stack[n].die \in DOMAIN Dies
  /\ \A p \in DOMAIN tree \ {<<>>} : Front(p) \in DOMAIN tree
  /\ \A p \in DOMAIN tree : tree[p].size \in Nat /\ tree[p].total \in Nat

\* "Where to store result (raw ptr, owned elsewhere)" (elf_parser.cpp:366): the result of
\* every item that waits is a record of the tree, no two resolve into one, and
\* none into a record below another's.
ResultsLive ==
  LET paths == {stack[n].path : n \in DOMAIN stack}
  IN  /\ paths \subseteq DOMAIN tree
      /\ Cardinality(paths) = Len(stack)
      /\ \A p, q \in paths : IsPrefix(p, q) => p = q

\* The elements an array is declared with.
Elements(dims) == FoldLeft(LAMBDA n, m : n * m, 1, dims)

\* The type the program's source has, off and dims those of its declarations:
\* the reference.
TypeOf[d \in DOMAIN Dies] ==
  LET die == Dies[d]
      referred == IF die.ref = Untyped THEN NewType ELSE TypeOf[die.ref]
  IN  CASE die.tag = "base"    -> [NewType EXCEPT !.type = die.name, !.size = die.size]
        [] die.tag = "enum"    -> [NewType EXCEPT !.type = "enum", !.size = die.size]
        [] die.tag = "typedef" ->
             IF die.ref = Untyped THEN [NewType EXCEPT !.type = die.name]
             ELSE [referred EXCEPT !.typedef = die.name]
        [] die.tag \in {"const", "volatile"} ->
             IF die.ref = Untyped THEN [NewType EXCEPT !.type = "void"] ELSE referred
        [] die.tag = "pointer" -> [NewType EXCEPT !.type = "pointer", !.size = die.size]
        [] die.tag = "array"   ->
             [NewType EXCEPT !.type = "array", !.total = Elements(die.dims),
                !.fields = <<[name |-> "__element_type__", off |-> 0, ti |-> referred]>>]
        [] Unknown(die.tag) -> [NewType EXCEPT !.type = "unknown", !.size = die.size]
        [] OTHER ->
             [NewType EXCEPT !.type = die.tag, !.size = die.size,
                !.fields = [n \in DOMAIN die.members |->
                   LET m == Dies[die.members[n]]
                   IN  [name |-> m.name, off |-> m.off, ti |-> TypeOf[m.ref]]]]

TypeAt[p \in DOMAIN tree] ==
  [tree[p] EXCEPT !.fields = [n \in DOMAIN @ |->
     [name |-> @[n].name, off |-> @[n].off, ti |-> TypeAt[Append(p, n - 1)]]]]

\* What a compiler writes for a C program: base types and typedefs have names,
\* arrays and members have types, locations and bounds say what is declared,
\* and a type is deeper than those it contains or is another name of.
WellFormed(depth, deepest) ==
  /\ depth \in [DOMAIN Dies -> 0 .. deepest]
  /\ \A d \in DOMAIN Dies :
       LET die == Dies[d]
       IN  /\ die.tag \in {"base", "typedef"} => die.name # ""
           /\ die.tag \in {"typedef", "const", "volatile", "array"} /\ die.ref # Untyped =>
                depth[die.ref] < depth[d]
           /\ die.tag = "array" => die.ref # Untyped /\ Product(die.ranges) = Elements(die.dims)
           /\ die.tag \in {"struct", "union"} =>
                \A n \in DOMAIN die.members :
                  LET m == Dies[die.members[n]]
                  IN  /\ m.ref # Untyped /\ depth[m.ref] < depth[d]
                      /\ m.off = MemberLocation(m.loc)

\* Through chains of typedefs and qualifiers, arrays of arrays and nested
\* structs, the tree the loop leaves is the type of the symbol, with the name
\* its declaration uses.
ResolvesType == root # Untyped /\ stack = <<>> => TypeAt[<<>>] = TypeOf[root]

=============================================================================
