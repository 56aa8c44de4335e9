---------------------------- MODULE TrapInsertion ----------------------------
(***************************************************************************)
(* profiler::run(), the insertion of the traps of the sections             *)
(* (src/profiler.cpp).  A table has the traps inserted so far: "armed", the*)
(* addresses where a trap instruction was written; "starts" and "ends", the*)
(* registered traps; "groups", the output so far, and "places", which      *)
(* section of which group in it the executions that begin at an address    *)
(* belong to.  An error ends the insertion, where it is.                   *)
(*                                                                         *)
(* The objects of the target have its "base" in memory, 0 if it is not     *)
(* position independent, and how much of it is "mapped".  A trap has the   *)
(* section it is for, its group, the devices its reader reads, and for the *)
(* calls of a function its symbol.  The texts of a configuration are split *)
(* into "words" as the debug information splits its own.                   *)
(***************************************************************************)
EXTENDS Lookups, Folds

NoTraps == [x \in {} |-> None]

EmptyTable == [error |-> Fine, armed |-> {}, starts |-> NoTraps, ends |-> NoTraps,
               groups |-> <<>>, places |-> NoTraps]

Fails(table, error) == [table EXCEPT !.error = error]

With(map, a, trap) == [x \in DOMAIN map \cup {a} |-> IF x = a THEN trap ELSE map[x]]

(* insert_trap() at an offset of the target.                               *)
Poke(table, objects, offset) ==
    IF offset < objects.mapped THEN [table EXCEPT !.armed = @ \cup {objects.base + offset}]
    ELSE Fails(table, "ptrace")

InsertStart(table, objects, offset, trap) ==
    LET poked == Poke(table, objects, offset)
        a == objects.base + offset
    IN  IF table.error # Fine THEN table
        ELSE IF poked.error # Fine THEN poked
        ELSE IF a \in DOMAIN table.starts THEN Fails(poked, "trap_exists")
        ELSE [poked EXCEPT !.starts = With(@, a, trap)]

InsertEnd(table, objects, offset, start) ==
    LET poked == Poke(table, objects, offset)
        a == objects.base + offset
    IN  IF table.error # Fine THEN table
        ELSE IF poked.error # Fine THEN poked
        ELSE IF a \in DOMAIN table.ends THEN Fails(poked, "trap_exists")
        ELSE [poked EXCEPT !.ends = With(@, a, objects.base + start)]

(* find_or_insert_output(): the entry of a label, at the end if there is   *)
(* none; two missing labels are equal.                                     *)
IndexOf(entries, label) ==
    LET i == SelectInSeq(entries, LAMBDA e : e.label = label) IN
    IF i = 0 THEN Len(entries) + 1 ELSE i

WithEntry(entries, new) ==
    IF IndexOf(entries, new.label) > Len(entries) THEN Append(entries, new) ELSE entries

(* output_mapping::insert()                                                *)
InsertOutput(table, objects, offset, group, section, devices) ==
    LET a == objects.base + offset
        g == IndexOf(table.groups, group.label)
        grown == WithEntry(table.groups, [label |-> group.label, extra |-> group.extra, sections |-> <<>>])
        new == [label |-> section.label, extra |-> section.extra, devices |-> devices, executions |-> <<>>]
    IN  IF table.error # Fine THEN table
        ELSE [table EXCEPT
                !.groups = [grown EXCEPT ![g].sections = WithEntry(@, new)],
                !.places = IF a \in DOMAIN @ THEN @
                           ELSE With(@, a, <<g, IndexOf(grown[g].sections, section.label)>>),
                !.error = Check(a \in DOMAIN table.places, "trap_exists")]

(* The trap of a function's entry.                                         *)
InsertCall(table, objects, trap, offset) ==
    InsertOutput(InsertStart(table, objects, offset, trap),
                 objects, offset, trap.group, trap.section, trap.devices)

(* Mutant: the end trap is inserted with itself as the start.              *)
InsertRangeOwnEnd(table, objects, trap, start, end) ==
    InsertOutput(InsertEnd(InsertStart(table, objects, start, trap), objects, end, end),
                 objects, start, trap.group, trap.section, trap.devices)

(* insert_traps_address_range()                                            *)
InsertRange(table, objects, trap, start, end) ==
    InsertOutput(InsertEnd(InsertStart(table, objects, start, trap), objects, end, start),
                 objects, start, trap.group, trap.section, trap.devices)

(* insert_traps_function(): the function, the trap of its calls, and then  *)
(* those of its inlined instances.                                         *)
FoundFunction(objects, bounds) ==
    LET name == objects.words[bounds.name]
        unit == UnitOfPath(objects, objects.words[bounds.cu])
    IN  IF bounds.cu = "absent" THEN FindFunction(objects, name)
        ELSE IF unit.error # Fine THEN unit
        ELSE FindFunctionIn(objects, unit.value, name)

InsertCalls(table, objects, trap, symbol) ==
    IF symbol = None THEN table
    ELSE InsertCall(table, objects, [trap EXCEPT !.symbol = symbol], symbol.entrypoint)

(* An instance can be measured if just one of its ranges is not empty.     *)
CodeOf(instance) == SelectSeq(instance, LAMBDA r : r[2] > r[1])

CanProfile(instance) == Len(CodeOf(instance)) = 1

InsertInstance(table, objects, trap, instance) ==
    IF CanProfile(instance)
    THEN InsertRange(table, objects, trap, CodeOf(instance)[1][1], CodeOf(instance)[1][2])
    ELSE table

(* insert_traps_position_start() and _end(): without a line, the error of  *)
(* the unit, which there is.                                               *)
FoundLine(objects, position) ==
    LET unit == UnitOfPath(objects, objects.words[position.cu])
        lines == FindLines(unit.value, unit.value.file, position.line)
    IN  IF unit.error # Fine THEN unit
        ELSE IF lines.error # Fine THEN Missing(Undefined)
        ELSE Found(lowest_address_line(lines.value))

InsertPositions(table, objects, trap, bounds) ==
    LET start == FoundLine(objects, bounds.start)
        end == FoundLine(objects, bounds.end)
        started == InsertStart(table, objects, start.value[4], trap)
    IN  IF start.error # Fine THEN Fails(table, start.error)
        ELSE IF started.error # Fine THEN started
        ELSE IF end.error # Fine THEN Fails(started, end.error)
        ELSE InsertOutput(InsertEnd(started, objects, end.value[4], start.value[4]),
                          objects, start.value[4], trap.group, trap.section, trap.devices)

(* The bounds that are not a function.                                     *)
InsertBounds(table, objects, trap) ==
    LET bounds == trap.section.bounds IN
    IF bounds.kind = "positions" THEN InsertPositions(table, objects, trap, bounds)
    ELSE InsertRange(table, objects, trap, bounds.start, bounds.end)
=============================================================================
