------------------------------ MODULE OccEvents ------------------------------
(***************************************************************************)
(* The events of the CPU reader of ppc64 (nrg/src/ppc64/reader_cpu.cpp):   *)
(* how its constructor parses the block of each on-chip controller in      *)
(* occ_inband_sensors, which sensors it makes events of, and how value()   *)
(* finds the reading of a location of a socket in a sample.                *)
(*                                                                         *)
(* A block has a "header", "entries", the sensors it names, and two sides  *)
(* of readings; "reads" says how the file behaves when each part is read:  *)
(* "fine", "short" at the end of the file, or "error".  The identifier     *)
(* (gsid) of a sensor is the location that bit_to_sensor_data gives it, or *)
(* another name.  A sensor of a named identifier is "genuine" if its type  *)
(* and its location are those expected too.                                *)
(***************************************************************************)
EXTENDS Checks, FiniteSets, Loops

MaxSockets == 8
MaxDomains == 6
LocationBits == <<"pkg", "cores", "uncore", "mem", "sys", "gpu">>
OccLocations == {LocationBits[i] : i \in 1..MaxDomains}
NoEvent == -1

(* A read of the file: at its end the format is blamed.                    *)
ReadError(outcome) ==
    FirstError(<<Check(outcome = "short", "file_format_error"), Check(outcome = "error", "errno")>>)

assert_header_block(header) ==
    /\ header.valid
    /\ header.version = 1
    /\ header.offsets = "expected"   \* of the names and of both buffers

HeaderError(block) ==
    FirstError(<<ReadError(block.reads.header),
                 Check(~assert_header_block(block.header), "file_format_error")>>)

assert_names_entry(entry) ==
    /\ entry.known                   \* type and location are in the enumerations
    /\ entry.version \in {1, 2}

NamesError(block) ==
    FirstError(<<ReadError(block.reads.names),
                 Check(\E i \in DOMAIN block.entries : ~assert_names_entry(block.entries[i]),
                       "file_format_error")>>)

BuffersError(block) == ReadError(block.reads.buffers)

(* get_time_stamp() reads the two bytes before the time stamp as well, so  *)
(* that the two lowest of its eight bytes are not compared.                *)
Coarse == 65536

(* get_sensor_record() of a whole structure: the newer one of two.         *)
NewerSide(block) ==
    LET valid(s) == block.side[s].valid
        coarse(s) == block.side[s].ts \div Coarse
    IN  IF valid("ping") /\ (valid("pong") => coarse("ping") > coarse("pong")) THEN "ping" ELSE "pong"

(* The structure of an entry, where the entry says it is.                  *)
get_sensor_structure(block, i) == [gsid |-> block.side[NewerSide(block)].gsids[i]]

assert_sensor_structure(structure, entry) == structure.gsid = entry.gsid

(* get_sensor_structs()                                                    *)
StructsError(block) ==
    FirstError(<<Check(block.entries # <<>> /\ \A s \in DOMAIN block.side : ~block.side[s].valid,
                       "readings_not_valid"),
                 Check(\E i \in DOMAIN block.entries :
                           ~assert_sensor_structure(get_sensor_structure(block, i), block.entries[i]),
                       "file_format_error")>>)

BlockError(block) ==
    FirstError(<<HeaderError(block), NamesError(block), BuffersError(block), StructsError(block)>>)

-----------------------------------------------------------------------------
None == [error |-> Fine, map |-> [o \in 0..(MaxSockets - 1) |-> [l \in OccLocations |-> NoEvent]],
         events |-> <<>>]

Serves(entry, l) == entry.gsid = l /\ entry.genuine

(* Mutant: a location without a sensor is not given the controller's event,*)
(* and a second location gets an event of its own.                         *)
EventOfAlways(found, occ) == Len(found.events)

(* All locations of a controller share its event.                          *)
EventOf(found, occ) ==
    LET same == {i \in DOMAIN found.events : found.events[i].occ = occ}
    IN  IF same = {} THEN Len(found.events) ELSE (CHOOSE i \in same : TRUE) - 1

AddEntry(found, idx, entry, l) ==
    IF found.error # Fine \/ ~Serves(entry, l) THEN found
    ELSE IF entry.version # 1 THEN [found EXCEPT !.error = "file_format_version_error"]
    ELSE [found EXCEPT !.events[idx + 1].entries = Append(@, entry)]

AddEntries(found, idx, entries, l) ==
    FoldLeft(LAMBDA f, e : AddEntry(f, idx, e, l), found, entries)

AddEvent(found, block, occ, l) ==
    LET idx == EventOf(found, occ)
        new == IF idx = Len(found.events) THEN <<[occ |-> occ, entries |-> <<>>]>> ELSE <<>>
    IN  IF found.error # Fine THEN found
        ELSE AddEntries([found EXCEPT !.map[occ][l] = idx, !.events = @ \o new], idx, block.entries, l)

(* Only the first controller has the sensor of the system.                 *)
AddLocation(found, block, occ, l, locations) ==
    IF l \in locations /\ (occ # 0 => l # "sys") THEN AddEvent(found, block, occ, l) ELSE found

AddLocations(found, block, occ, locations) ==
    FoldLeft(LAMBDA f, l : AddLocation(f, block, occ, l, locations), found, LocationBits)

AddBlock(found, block, occ, locations, sockets) ==
    IF found.error # Fine \/ occ \notin sockets THEN found
    ELSE IF BlockError(block) # Fine THEN [found EXCEPT !.error = BlockError(block)]
    ELSE AddLocations(found, block, occ, locations)

AddBlocks(blocks, locations, sockets) ==
    FoldLeftDomain(LAMBDA f, i : AddBlock(f, blocks[i], i - 1, locations, sockets), None, blocks)

NumEvents(reader) ==
    FoldLeft(LAMBDA n, e : n + Len(e.entries), 0, reader.events)

OccReaderOf(machine, locations, sockets) ==
    LET n == Cardinality(machine.packages)
        early == FirstError(<<Check(~machine.file, "errno"),
                              Check(~machine.topology, "errno"),
                              Check(n = 0, "no_sockets_found"),
                              Check(n > MaxSockets, "too_many_sockets")>>)
        found == AddBlocks(SubSeq(machine.blocks, 1, n), locations, sockets)
    IN  IF early # Fine THEN [None EXCEPT !.error = early]
        ELSE IF found.error = Fine /\ NumEvents(found) = 0
             THEN [None EXCEPT !.error = "no_events_added"]
             ELSE found

-----------------------------------------------------------------------------
(* A sample has a time stamp and a reading for each socket and location.   *)
(* read_single_occ() fills those of all entries of an event; the last of   *)
(* several entries of one identifier is the one that stays.                *)
ReadEvent(event, sample, record) ==
    [sample EXCEPT ![event.occ] =
        [l \in OccLocations |->
            LET mine == {i \in DOMAIN event.entries : event.entries[i].gsid = l}
            IN IF mine = {} THEN @[l] ELSE record[event.occ][l]]]

ReadAll(reader, record) ==
    FoldLeft(LAMBDA s, e : ReadEvent(e, s, record),
             [o \in 0..(MaxSockets - 1) |-> [l \in OccLocations |-> [ts |-> 0, value |-> 0]]],
             reader.events)

(* The reading, scaled by the entry's factor, if its unit is Watts.        *)
canonicalize_power(reading, entry) == IF entry.watts THEN reading ELSE 0

(* The first entry of the identifier tells.                                *)
HasValue(reader, sample, l, socket) ==
    LET idx == reader.map[socket][l]
        i == SelectInSeq(reader.events[idx + 1].entries, LAMBDA e : e.gsid = l)
    IN
    /\ idx # NoEvent
    /\ sample[socket][l].ts # 0 /\ sample[socket][l].value # 0
    /\ i # 0
    /\ canonicalize_power(sample[socket][l].value, reader.events[idx + 1].entries[i]) # 0

Value(reader, sample, l, socket) == sample[socket][l].value
=============================================================================
