------------------------------- MODULE Lookups -------------------------------
(***************************************************************************)
(* Looking up the bounds of a section in the debug information of the      *)
(* target (src/dbg/utility_funcs.cpp), and the order in which its lines    *)
(* and functions are kept (src/dbg/dwarf.cpp, src/dbg/object_info.cpp).    *)
(*                                                                         *)
(* A path and a demangled name are sequences: of directories, and of a     *)
(* function's name, its parameters and what else the compiler puts after   *)
(* it.  "suffix" says that the mangled name of a symbol has a dot, and     *)
(* "demangles" whether it can be demangled at all.  Addresses are sequences*)
(* of ranges <<low, high>>.  The files lines are of are numbered in the    *)
(* order of their paths.  None stands for a missing optional.              *)
(***************************************************************************)
EXTENDS Checks, FiniteSets, SequencesExt

None == [kind |-> "none"]

Found(x) == [error |-> Fine, value |-> x]
Missing(e) == [error |-> e, value |-> None]

(* error() or operator*() of the wrong half of an expected.                *)
Undefined == "undefined"

(* util_errcause::not_found                                                *)
NotFoundErrors ==
    {"cu_not_found", "file_not_found", "line_not_found", "column_not_found", "symbol_not_found",
     "no_matches", "function_not_found", "decl_location_not_found", "address_not_found"}

FirstWhere(s, Test(_), e) ==
    LET i == SelectInSeq(s, Test) IN IF i = 0 THEN Missing(e) ELSE Found(s[i])

InRanges(address, ranges) == \E r \in ToSet(ranges) : r[1] <= address /\ address < r[2]

StartsRange(address, ranges) == \E r \in ToSet(ranges) : r[1] = address

-----------------------------------------------------------------------------
(* The order of what was loaded.                                           *)

Line == Nat \X Nat \X Nat \X Nat

(* By file, line and column: the address comes last.                       *)
LineBefore(l, m) ==
    LET differ == {k \in 1..4 : l[k] # m[k]} IN
    differ # {} /\ LET k == CHOOSE k \in differ : \A j \in differ : k <= j IN l[k] < m[k]

(* Mutant: the lines are left in the order of the line program.            *)
load_lines_unsorted(lines) == lines

load_lines(lines) ==
    LET before(i) == {j \in DOMAIN lines : \/ LineBefore(lines[j], lines[i])
                                           \/ lines[j] = lines[i] /\ j < i}
    IN  [k \in DOMAIN lines |-> lines[CHOOSE i \in DOMAIN lines : Cardinality(before(i)) = k - 1]]

(* Functions with code of their own, then those with inlined instances     *)
(* only; of several functions that an inlined one is equal to the first    *)
(* takes its instances.                                                    *)
load_functions(concrete, inlined) ==
    LET same(f, g) == f.decl = g.decl /\ f.name = g.name /\ f.static = g.static
        alone == SelectSeq(inlined, LAMBDA g : ~\E f \in ToSet(concrete) : same(f, g))
        merged == [i \in DOMAIN concrete |->
                      LET f == concrete[i]
                          mine == SelectSeq(inlined, LAMBDA g : same(f, g))
                      IN  IF mine = <<>> THEN f
                          ELSE IF \E j \in 1..(i - 1) : same(concrete[j], f)
                          THEN [f EXCEPT !.instances = <<>>]
                          ELSE [f EXCEPT !.instances = mine[Len(mine)].instances]]
    IN  SortSeq(merged \o alone, LAMBDA f, g : f.decl < g.decl)

(* The objects loaded from a file: the debug information of its units.     *)
object_info(file) ==
    [file EXCEPT !.units = [i \in DOMAIN @ |->
        [path |-> @[i].path, file |-> @[i].file, addresses |-> @[i].addresses,
         lines |-> load_lines(@[i].lines), functions |-> load_functions(@[i].concrete, @[i].inlined)]]]

-----------------------------------------------------------------------------
(* Compilation units.                                                      *)

is_sub_path(sub, path) ==
    sub # <<>> /\ \E i \in 1..Len(path) : SubSeq(path, i, i + Len(sub) - 1) = sub

UnitOfPath(oi, path) ==
    LET matching == {i \in DOMAIN oi.units : is_sub_path(path, oi.units[i].path)} IN
    CASE matching = {}               -> Missing("cu_not_found")
      [] Cardinality(matching) > 1   -> Missing("cu_ambiguous")
      [] OTHER                       -> Found(oi.units[Min(matching)])

UnitOfAddress(oi, address) ==
    FirstWhere(oi.units, LAMBDA u : InRanges(address, u.addresses), "address_not_found")

UnitOfSymbol(oi, symbol) ==
    FirstWhere(oi.units, LAMBDA u : InRanges(symbol.address, u.addresses), "cu_not_found")

-----------------------------------------------------------------------------
(* Lines: <<file, number, column, address>>, sorted.                       *)

(* find_lines() from a line number on, of any column.                      *)
FindLines(unit, file, lineno) ==
    LET i == SelectInSeq(unit.lines, LAMBDA l : l[1] = file /\ l[2] >= lineno)
        same(l) == l[1] = file /\ l[2] = unit.lines[i][2]
        end == SelectInSubSeq(unit.lines, i, Len(unit.lines), LAMBDA l : ~same(l))
    IN  IF i # 0 THEN Found(SubSeq(unit.lines, i, IF end = 0 THEN Len(unit.lines) ELSE end - 1))
        ELSE Missing(IF \E l \in ToSet(unit.lines) : l[1] = file THEN "line_not_found" ELSE "file_not_found")

(* The first of the lines, and so the one of the lowest column.            *)
lowest_address_line(lines) == lines[1]

-----------------------------------------------------------------------------
(* Symbols, by a name that is the beginning of theirs.  The indices of     *)
(* those that match are in a set: the first is its minimum.                *)

WithPrefix(symbols, name) == {i \in DOMAIN symbols : IsPrefix(name, symbols[i].name)}

ExactSymbol(symbols, candidates, name) ==
    LET matching == {i \in candidates : ~symbols[i].demangles \/ symbols[i].name = name}
        first == symbols[Min(matching)]
    IN  IF matching = {} THEN Missing("symbol_not_found")
        ELSE IF ~first.demangles THEN Missing("demangle")
        ELSE IF matching = {Min(matching)} THEN Found(first)
        ELSE IF \E i \in matching : symbols[i].binding = "weak" THEN Missing("symbol_ambiguous_weak")
        ELSE IF \E i \in matching : symbols[i].binding = "local" THEN Missing("symbol_ambiguous_static")
        ELSE Missing("symbol_ambiguous")

(* Mutant: of symbols that only differ in their suffix any is taken.       *)
FindSymbolAny(oi, name) ==
    LET matching == WithPrefix(oi.symbols, name) IN
    IF \E s \in ToSet(oi.symbols) : ~s.demangles THEN Missing("demangle")
    ELSE IF matching = {} THEN Missing("no_matches")
    ELSE Found(oi.symbols[Min(matching)])

(* find_function_symbol(): an exact match, or the only one, or the only one*)
(* without a suffix.                                                       *)
FindSymbol(oi, name) ==
    LET matching == WithPrefix(oi.symbols, name)
        exact == ExactSymbol(oi.symbols, matching, name)
        plain == {i \in matching : ~oi.symbols[i].suffix}
    IN  IF \E s \in ToSet(oi.symbols) : ~s.demangles THEN Missing("demangle")
        ELSE IF matching = {} THEN Missing("no_matches")
        ELSE IF matching = {Min(matching)} THEN Found(oi.symbols[Min(matching)])
        ELSE IF exact.error # "symbol_not_found" THEN exact
        ELSE IF plain = {} THEN Missing("symbol_ambiguous_suffix")
        ELSE IF plain # {Min(plain)} THEN Missing("symbol_ambiguous")
        ELSE Found(oi.symbols[Min(plain)])

(* The same within a unit, symbol by symbol.  Of several without a suffix  *)
(* the last one is taken.                                                  *)
TrySymbol(oi, unit, name, state, s) ==
    LET u == UnitOfSymbol(oi, s) IN
    IF state.done THEN state
    ELSE IF ~s.demangles THEN [done |-> TRUE, symbol |-> Missing("demangle")]
    ELSE IF ~IsPrefix(name, s.name) \/ u.error # Fine THEN state
    ELSE IF u.value.path # unit.path THEN state
    ELSE IF s.name = name THEN [done |-> TRUE, symbol |-> Found(s)]
    ELSE IF state.symbol.error # Fine \/ ~s.suffix THEN [done |-> FALSE, symbol |-> Found(s)]
    ELSE IF state.symbol.value.suffix THEN [done |-> TRUE, symbol |-> Missing("symbol_ambiguous_suffix")]
    ELSE state

FindSymbolIn(oi, unit, name) ==
    FoldLeft(LAMBDA state, s : TrySymbol(oi, unit, name, state, s),
             [done |-> FALSE, symbol |-> Missing("symbol_not_found")], oi.symbols).symbol

-----------------------------------------------------------------------------
(* Functions.                                                              *)

FunctionOfSymbolIn(unit, symbol) ==
    FirstWhere(unit.functions, LAMBDA f : StartsRange(symbol.address, f.addresses), "function_not_found")

(* The functions of the units, until one has it.                           *)
FunctionOfSymbol(oi, symbol) ==
    LET i == SelectInSeq(oi.units,
                 LAMBDA u : FunctionOfSymbolIn(u, symbol).error # "function_not_found")
    IN  IF i = 0 THEN Missing("function_not_found") ELSE FunctionOfSymbolIn(oi.units[i], symbol)

(* By name: the DIE's of a static function, the linkage name of others.    *)
FunctionOfName(unit, name) ==
    LET try(state, f) ==
            IF state.done THEN state
            ELSE IF ~f.static /\ ~f.demangles THEN [done |-> TRUE, f |-> Missing("demangle")]
            ELSE IF f.name = name THEN [done |-> TRUE, f |-> Found(f)]
            ELSE IF ~IsPrefix(name, f.name) THEN state
            ELSE IF state.f.error = Fine THEN [done |-> TRUE, f |-> Missing("function_ambiguous")]
            ELSE [done |-> FALSE, f |-> Found(f)]
    IN  FoldLeft(try, [done |-> FALSE, f |-> Missing("no_matches")], unit.functions).f

Pair(function, symbol) ==
    IF function.error # Fine THEN function
    ELSE Found([function |-> function.value, symbol |-> symbol])

(* find_function(): a unit that has no function of the name says           *)
(* "no_matches", which ends the search.                                    *)
FindFunction(oi, name) ==
    LET symbol == FindSymbol(oi, name)
        i == SelectInSeq(oi.units, LAMBDA u : FunctionOfName(u, name).error # "function_not_found")
    IN  IF symbol.error = Fine THEN Pair(FunctionOfSymbol(oi, symbol.value), symbol.value)
        ELSE IF symbol.error \notin NotFoundErrors THEN symbol
        ELSE IF i = 0 THEN Missing("function_not_found")
        ELSE Pair(FunctionOfName(oi.units[i], name), None)

(* In a unit: without a symbol the symbol there is not is looked up.       *)
FindFunctionIn(oi, unit, name) ==
    LET symbol == FindSymbolIn(oi, unit, name) IN
    CASE symbol.error = Fine -> Pair(FunctionOfSymbolIn(unit, symbol.value), symbol.value)
      [] symbol.error \in NotFoundErrors -> Missing(Undefined)
      [] OTHER -> symbol
=============================================================================
