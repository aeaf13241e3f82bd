------------------------------- MODULE ElfLoad -------------------------------
(***************************************************************************)
(* elf_parser_load_config() and, after it, elf_parser_generate_json()      *)
(* (elf_parser.cpp): the symbol table is asked for the name, the debug     *)
(* information is searched for a variable of that name, unit by unit, by a *)
(* stack of DIEs, and its type is resolved (module ElfTypes).  What the    *)
(* tree of the type becomes is module ConfigTree's.  Freeing DIEs and      *)
(* errors of libdwarf on a single DIE are left out.                        *)
(***************************************************************************)
EXTENDS ElfTypes

\* The DIE of a unit, a namespace, a function or a block keeps its children
\* as its members; a variable has its type as its ref.
CONSTANTS
  Files,   \* [elf, dwarf, sections, units]: is it an ELF file; "ok", "none" or
           \* "error"; its symbol tables; the DIEs of its units in order
  Names    \* what the user may type

\* Roots has the type of every variable.
ASSUME FilesAssumption ==
  /\ \A f \in Files : f.units \in Seq(DOMAIN Dies) /\ f.dwarf \in {"ok", "none", "error"}
  /\ \A d \in DOMAIN Dies : Dies[d].tag = "variable" => Dies[d].ref \in Roots \cup {Untyped}

VARIABLES
  file, symbol_name,      \* the arguments
  call,            \* "load" or "generate"
  phase,           \* "init", "symbol", "search", "resolve", "done"
  unit,            \* units the search has begun with
  die_stack,
  config,          \* [symbol, nbytes, nwords, type]
  json,            \* the same in the file that is written
  err              \* what is returned

search  == <<phase, unit, die_stack>>
results == <<config, json>>
given   == <<file, symbol_name, call>>
vars    == <<types, given, search, results, err>>

NoConfig == [symbol |-> "", nbytes |-> 0, nwords |-> 0, type |-> <<>>]

Init ==
  /\ TypesInit
  /\ file \in Files /\ symbol_name \in Names
  /\ call = "load" /\ phase = "init" /\ unit = 0 /\ die_stack = <<>>
  /\ config = NoConfig /\ json = NoConfig /\ err = "none"

Return(error) ==
  /\ phase' = "done" /\ err' = error
  /\ UNCHANGED <<types, given, unit, die_stack>>

\* elf_parser_init() fails.
InitFails ==
  /\ phase = "init"
  /\ \/ ~file.elf /\ Return("NOT_ELF")
     \/ file.elf /\ file.dwarf = "error" /\ Return("NO_DWARF")
  /\ UNCHANGED results

InitDone ==
  /\ phase = "init" /\ file.elf /\ file.dwarf # "error"
  /\ phase' = "symbol"
  /\ UNCHANGED <<types, given, unit, die_stack, results, err>>

\* elf_parser_find_symbol(): the first of the name in the first section.
SymbolTable == FlattenSeq(file.sections)
Named       == {n \in DOMAIN SymbolTable : SymbolTable[n].name = symbol_name}
FirstNamed  == SymbolTable[Min(Named)]

NoSymbol ==
  /\ phase = "symbol" /\ Named = {} /\ Return("SYMBOL_NOT_FOUND")
  /\ UNCHANGED results

\* The configuration has the symbol's name and address from here on, also if
\* the rest fails.
SymbolFound ==
  /\ phase = "symbol" /\ Named # {}
  /\ config' = IF call = "load" THEN [config EXCEPT !.symbol = symbol_name] ELSE config
  /\ UNCHANGED json
  /\ IF file.dwarf = "none" THEN Return("NO_DWARF")
     ELSE /\ phase' = "search"
          /\ UNCHANGED <<types, given, unit, die_stack, err>>

-----------------------------------------------------------------------------
(* find_variable_die().                                                    *)

Searching == phase = "search" /\ UNCHANGED <<given, results>>

NextUnit ==
  /\ Searching /\ die_stack = <<>> /\ unit < Len(file.units)
  /\ unit' = unit + 1 /\ die_stack' = <<file.units[unit + 1]>>
  /\ UNCHANGED <<types, phase, err>>

NoVariable ==
  /\ Searching /\ die_stack = <<>> /\ unit = Len(file.units)
  /\ Return("NO_DEBUG_INFO")

IsVariable(d) == Dies[d].tag = "variable" /\ Dies[d].name = symbol_name /\ Dies[d].ref # Untyped

\* Mutation of Visit: the siblings that wait are forgotten.
VisitChildren ==
  /\ Searching /\ die_stack # <<>> /\ ~IsVariable(Last(die_stack))
  /\ die_stack' = Dies[Last(die_stack)].members
  /\ UNCHANGED <<types, phase, unit, err>>

\* The children and their siblings go on top: the last one is looked at next.
Visit ==
  /\ Searching /\ die_stack # <<>> /\ ~IsVariable(Last(die_stack))
  /\ die_stack' = Front(die_stack) \o Dies[Last(die_stack)].members
  /\ UNCHANGED <<types, phase, unit, err>>

\* A variable of another name, or one with no type, is passed by.
Found ==
  /\ Searching /\ die_stack # <<>> /\ IsVariable(Last(die_stack))
  /\ AskType(Dies[Last(die_stack)].ref)
  /\ phase' = "resolve" /\ die_stack' = <<>>
  /\ UNCHANGED <<unit, err>>

-----------------------------------------------------------------------------
ResolveType ==
  /\ phase = "resolve" /\ ResolveStep
  /\ UNCHANGED <<given, search, results, err>>

\* The symbol's size, or its type's.
Size == IF FirstNamed.size > 0 THEN FirstNamed.size ELSE tree[<<>>].size

Loaded ==
  /\ phase = "resolve" /\ stack = <<>>
  /\ LET result == [symbol |-> symbol_name, nbytes |-> Size,
                    nwords |-> (Size + 3) \div 4, type |-> tree]
     IN IF call = "load" THEN config' = result /\ UNCHANGED json
                         ELSE json' = result /\ UNCHANGED config
  /\ Return("SUCCESS")

\* main.cpp: a parser of its own for the JSON file.
Generate ==
  /\ phase = "done" /\ call = "load" /\ err = "SUCCESS"
  /\ call' = "generate" /\ phase' = "init" /\ unit' = 0 /\ err' = "none"
  /\ root' = Untyped /\ stack' = <<>> /\ tree' = NewTree
  /\ UNCHANGED <<file, symbol_name, die_stack, results>>

Next ==
  \/ InitFails \/ InitDone \/ NoSymbol \/ SymbolFound
  \/ NextUnit \/ NoVariable \/ Visit \/ Found
  \/ ResolveType \/ Loaded \/ Generate

Spec == Init /\ [][Next]_vars

\* Both calls run in the main thread (main.cpp:378, 394), which waits for
\* nothing and which nothing stops.
FairSpec == Spec /\ WF_vars(Next)

-----------------------------------------------------------------------------
\* Every variable has its type.
TypeOK ==
  /\ TypesOK
  /\ file \in Files /\ symbol_name \in Names
  /\ phase \in {"init", "symbol", "search", "resolve", "done"}
  /\ unit \in 0 .. Len(file.units) /\ Range(die_stack) \subseteq DOMAIN Dies
  /\ config.symbol \in {"", symbol_name}
  /\ call \in {"load", "generate"} /\ config.nwords * 4 >= config.nbytes

\* All there is in a unit.
Within[d \in DOMAIN Dies] == {d} \cup UNION {Within[m] : m \in Range(Dies[d].members)}

Variables == {d \in UNION {Within[u] : u \in Range(file.units)} : IsVariable(d)}

\* The load says what is wrong with a file, and finds a variable of the name
\* however deep in namespaces, functions and blocks of any unit it is, if
\* there is one (elf_parser.cpp:374, 931).
FindsVariable ==
  phase = "done" =>
    /\ err = CASE ~file.elf                -> "NOT_ELF"
               [] file.elf /\ file.dwarf = "error" -> "NO_DWARF"
               [] OTHER ->
                    IF Named = {} THEN "SYMBOL_NOT_FOUND"
                    ELSE IF file.dwarf = "none" THEN "NO_DWARF"
                    ELSE IF Variables = {} THEN "NO_DEBUG_INFO" ELSE "SUCCESS"
    /\ err = "SUCCESS" => root \in {Dies[d].ref : d \in Variables}

\* What is loaded is the type of that variable, and what is written to the
\* JSON file by a parser of its own is what was loaded (main.cpp:390).
LoadsType ==
  /\ ResolvesType
  /\ phase = "done" /\ json # NoConfig => json = config

\* "symbol_name Name of the global variable to parse" (elf_parser.h:109):
\* the layout is that of the symbol whose address is taken, not of a local
\* variable or of a declaration with no bounds elsewhere.
DescribesGlobal ==
  phase = "done" /\ err = "SUCCESS" => root = Dies[FirstNamed.die].ref

\* Every file is answered.  The loops over units, DIEs and types come to an
\* end if no type leads back to itself: with an error and nothing written, or
\* with a configuration, and then the second parser succeeds as well and
\* writes the same (elf_parser.cpp:387, 480, main.cpp:394).
LoadReturns ==
  <>(phase = "done" /\ IF config.type = <<>> THEN call = "load" /\ json = NoConfig
                       ELSE err = "SUCCESS" /\ json = config)

\* "Check cache first" (elf_parser.cpp:489): a type that is met again is not
\* resolved again, so no record is further from the root than there are DIEs,
\* and every load ends.
ResolvedOnce == \A p \in DOMAIN tree : Len(p) <= Cardinality(DOMAIN Dies)
=============================================================================
