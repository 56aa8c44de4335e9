----------------------------- MODULE RaplEvents -----------------------------
(***************************************************************************)
(* The events of the CPU reader of x86_64 (nrg/src/x86_64/reader_cpu.cpp): *)
(* which zones of /sys/class/powercap/intel-rapl its constructor makes     *)
(* events of, for a machine and two masks, and how value() finds the       *)
(* reading of a location of a socket in a sample.                          *)
(*                                                                         *)
(* A machine has "packages", the physical_package_id of its CPUs, and      *)
(* "zones", of which zone i + 1 is intel-rapl:i and absent if it is NoZone.*)
(* A zone has its name, the package number in it, and its subdomains.      *)
(***************************************************************************)
EXTENDS Checks, FiniteSets, Loops

MaxSockets == 8
RaplLocations == {"pkg", "cores", "uncore", "mem"}
NoEvent == -1
NoZone == [name |-> "none"]

(* domain_index_from_name()                                                *)
Domain(name) ==
    CASE name = "package" -> "pkg"
      [] name = "core"    -> "cores"
      [] name = "uncore"  -> "uncore"
      [] name = "dram"    -> "mem"
      [] OTHER            -> "unknown"

(* get_domain_idx()                                                        *)
DomainError(zone) ==
    FirstError(<<Check(zone.name = "unreadable", "errno"),
                 Check(Domain(zone.name) = "unknown", "invalid_domain_name")>>)

CountSocketsError(machine) ==
    FirstError(<<Check(~machine.topology, "errno"),
                 Check(machine.packages = {}, "no_sockets_found"),
                 Check(Cardinality(machine.packages) > MaxSockets, "too_many_sockets")>>)

(* "number" is negative if what follows the name is not a number.          *)
PackageNumberError(zone) ==
    FirstError(<<Check(zone.name = "unreadable", "errno"),
                 Check(Domain(zone.name) # "pkg", "package_num_wrong_domain"),
                 Check(zone.number < 0, "invalid_argument"),
                 Check(zone.number >= MaxSockets, "too_many_sockets")>>)

(* A file of a zone is "missing", "unreadable", "garbled" or a "number".   *)
OpenError(file) == Check(file = "missing", "errno")

(* read_uint64(): a file that is read but holds no number leaves errno as  *)
(* it was, which is the ENOENT that count_sockets() ended with.            *)
NumberError(file) == Check(file \in {"unreadable", "garbled"}, "errno")

EventDataError(zone) ==
    FirstError(<<OpenError(zone.range), NumberError(zone.range), OpenError(zone.counter)>>)

None == [error |-> Fine, map |-> [s \in 0..(MaxSockets - 1) |-> [l \in RaplLocations |-> NoEvent]],
         events |-> <<>>]

(* Mutant: the mask of locations is not applied.                           *)
AddEventUnmasked(found, zone, socket, locations) ==
    LET l == Domain(zone.name)
        error == FirstError(<<DomainError(zone), EventDataError(zone)>>)
    IN  IF found.error # Fine THEN found
        ELSE IF error # Fine THEN [found EXCEPT !.error = error]
        ELSE [found EXCEPT !.map[socket][l] = Len(found.events),
                           !.events = Append(@, [socket |-> socket, loc |-> l])]

AddEvent(found, zone, socket, locations) ==
    LET l == Domain(zone.name)
        error == FirstError(<<DomainError(zone),
                              IF l \in locations THEN EventDataError(zone) ELSE Fine>>)
    IN  IF found.error # Fine THEN found
        ELSE IF error # Fine THEN [found EXCEPT !.error = error]
        ELSE IF l \notin locations THEN found
        ELSE [found EXCEPT !.map[socket][l] = Len(found.events),
                           !.events = Append(@, [socket |-> socket, loc |-> l])]

(* A package zone, then its subdomains: its files are the name, the range  *)
(* and the counter.  The code tries five subdomains, which no package has  *)
(* more of.                                                                *)
Parts(zone) == <<zone>> \o zone.subdomains

AddEvents(found, zones, socket, locations) ==
    FoldLeft(LAMBDA f, z : AddEvent(f, z, socket, locations), found, zones)

AddZone(found, zone, locations, sockets) ==
    IF found.error # Fine \/ zone = NoZone THEN found
    ELSE IF PackageNumberError(zone) # Fine THEN [found EXCEPT !.error = PackageNumberError(zone)]
    ELSE IF zone.number \notin sockets THEN found
    ELSE AddEvents(found, Parts(zone), zone.number, locations)

AddZones(zones, locations, sockets) ==
    FoldLeft(LAMBDA f, z : AddZone(f, z, locations, sockets), None, zones)

(* As many zones are tried as there are sockets.                           *)
RaplReaderOf(machine, locations, sockets) ==
    LET early == FirstError(<<Check(locations = {}, "invalid_location_mask"),
                              Check(sockets = {}, "invalid_socket_mask"),
                              CountSocketsError(machine)>>)
        tried == SubSeq(machine.zones, 1, Cardinality(machine.packages))
        found == AddZones(tried, locations, sockets)
    IN  IF early # Fine THEN [None EXCEPT !.error = early]
        ELSE IF found.error = Fine /\ found.events = <<>>
             THEN [None EXCEPT !.error = "no_events_added"]
             ELSE found

EventIdx(reader, l, socket) == IF l \in RaplLocations THEN reader.map[socket][l] ELSE NoEvent

(* A sample is the readings of the events; a reading of 0 is none.         *)
HasValue(reader, sample, l, socket) ==
    LET i == EventIdx(reader, l, socket) IN i # NoEvent /\ sample[i + 1] # 0

Value(reader, sample, l, socket) == sample[EventIdx(reader, l, socket) + 1]
=============================================================================
