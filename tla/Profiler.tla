------------------------------ MODULE Profiler ------------------------------
(***************************************************************************)
(* The profiler from its command line to its output (src/main.cpp,         *)
(* src/profiler.cpp, src/target.cpp): it parses its arguments, loads the   *)
(* debug information and the configuration, forks the command, makes the   *)
(* readers, follows the command until it executes the program to evaluate, *)
(* inserts the traps of the sections, traces, and writes the readings.     *)
(*                                                                         *)
(* The child is the command's process as ptrace() and waitpid() show it.   *)
(* Its script is what it does next: it executes a file, which may fail,    *)
(* makes some other system call, or receives a signal; at the end it exits.*)
(* What a trap instruction does to it is left to Tracer, of which only the *)
(* outcome appears here: executions of sections, or an error.              *)
(***************************************************************************)
EXTENDS Output, TrapInsertion

CONSTANTS Scenarios,       \* command lines, files, machines and commands
          MaxExecutions    \* bound: executions of sections in one run

Args == INSTANCE CmdArgs
Cfg == INSTANCE Config

(* What a scenario is: the nodes of a document are in sequences, as are the*)
(* units of a file, their lines and its symbols, what the sensors show from*)
(* sample to sample, and the GPUs of a machine; the machine has a zone     *)
(* (NoZone where there is none) or a block of the OCC for each package;    *)
(* and the child first executes the command, unless it receives a signal   *)
(* before.                                                                 *)
IsSequence(s) == s \in Seq(ToSet(s))

ASSUME ProfilerAssumption ==
    /\ MaxExecutions \in Nat /\ EnergyBits \in Nat
    /\ \A s \in Scenarios :
          /\ IsSequence(s.doc.groups) /\ IsSequence(s.script) /\ s.levels \in Seq(Nat)
          /\ \A g \in ToSet(s.doc.groups) : IsSequence(g.sections)
          /\ \A f \in DOMAIN s.files :
                /\ {"base", "units", "symbols", "words"} \subseteq DOMAIN s.files[f]
                /\ IsSequence(s.files[f].symbols) /\ IsSequence(s.files[f].units)
                /\ \A u \in ToSet(s.files[f].units) : u.lines \in Seq(Line)
          /\ \A c \in ToSet(s.script) : c.kind \in {"exec", "badexec", "other", "signal"}
          /\ IsSequence(s.machine.gpu.devices)
          /\ LET machine == s.machine.cpu
                 enough(seq) == IsSequence(seq) /\ Cardinality(machine.packages) <= Len(seq)
             IN  /\ IsFiniteSet(machine.packages)
                 /\ IF s.machine.arch = "x86_64"
                    THEN /\ enough(machine.zones)
                         /\ \A z \in ToSet(machine.zones) :
                               z = Rapl!NoZone \/ (z.number \in Int /\ IsSequence(z.subdomains))
                    ELSE enough(machine.blocks) /\ \A b \in ToSet(machine.blocks) : IsSequence(b.entries)
          /\ s.script # <<>> /\ s.argv.command # <<>> =>
                LET first == Head(s.script) IN
                first.kind = "signal" \/ (first.kind = "exec" /\ first.file = s.argv.command[1])

VARIABLES scenario,   \* the environment of this run
          clamped,    \* what clamp() with bounds out of order gives in this build
          stage,      \* where main() is
          error,      \* what it ended with
          args,       \* arguments
          objects,    \* _dli
          config,     \* _cd
          readers,    \* _readers
          entry, matched,   \* of await_executable()'s loop
          idle,       \* _output.results.idle()
          todo,       \* where the loops of the insertion are
          table,      \* _traps, _output and the instructions written
          results,    \* what the tracer returned and is not yet in the output
          printed,    \* what was written to the output
          child       \* the process of the command

static == <<scenario, clamped>>
loaded == <<args, objects, config, readers>>
await  == <<entry, matched>>
made   == <<idle, todo, table, results, printed>>
vars   == <<scenario, clamped, stage, error, args, objects, config, readers, entry, matched, idle, todo,
            table, results, printed, child>>

Nothing == [kind |-> "nothing"]

(* The loops over the groups, their sections, and the inlined instances of *)
(* a function: the group, the section, the instances that are left, and    *)
(* whether anything of the function can be measured (inserted_traps).      *)
AtSection(g, s) == [group |-> g, section |-> s, instances |-> <<>>, inserted |-> FALSE]

NoChild == [st |-> "none", event |-> "none", image |-> "none", script |-> <<>>, call |-> Nothing,
            trap |-> FALSE, syscalls |-> FALSE, exitkill |-> FALSE]

Init ==
    /\ scenario \in Scenarios
    /\ clamped \in {0, 1}
    /\ stage = "arguments" /\ error = Fine
    /\ args = Nothing /\ objects = Nothing /\ config = Nothing /\ readers = Nothing
    /\ entry = TRUE /\ matched = FALSE
    /\ idle = <<>> /\ todo = AtSection(1, 1) /\ table = EmptyTable
    /\ results = <<>> /\ printed = Nothing
    /\ child = NoChild

-----------------------------------------------------------------------------
(* The child.                                                              *)

Stopped(event) == [child EXCEPT !.st = "stopped", !.event = event]

(* A system call of a child that is followed from call to call.            *)
ChildEnters ==
    /\ child.st = "running" /\ ~child.trap /\ child.call = Nothing /\ child.syscalls
    /\ child.script # <<>> /\ Head(child.script).kind # "signal"
    /\ child' = [Stopped("syscall") EXCEPT !.call = Head(child.script), !.script = Tail(@)]

Executed(call) ==
    IF call.kind = "exec" /\ call.works THEN [child EXCEPT !.image = call.file, !.trap = TRUE] ELSE child

ChildReturns ==
    /\ child.st = "running" /\ ~child.trap /\ child.call # Nothing
    /\ child' = [Executed(child.call) EXCEPT !.call = Nothing, !.st = "stopped", !.event = "syscall"]

ChildCalls ==
    /\ child.st = "running" /\ ~child.trap /\ child.call = Nothing /\ ~child.syscalls
    /\ child.script # <<>> /\ Head(child.script).kind # "signal"
    /\ child' = [Executed(Head(child.script)) EXCEPT !.script = Tail(@)]

(* A traced process that executes a file is sent a SIGTRAP.                *)
ChildTraps ==
    /\ child.st = "running" /\ child.trap
    /\ child' = [Stopped("trap") EXCEPT !.trap = FALSE]

ChildReceives ==
    /\ child.st = "running" /\ ~child.trap /\ child.call = Nothing
    /\ child.script # <<>> /\ Head(child.script).kind = "signal"
    /\ child' = [Stopped("signal") EXCEPT !.script = Tail(@)]

ChildExits ==
    /\ child.st = "running" /\ ~child.trap /\ child.call = Nothing /\ child.script = <<>>
    /\ child' = [child EXCEPT !.st = "dead", !.event = "exited"]

Child ==
    /\ ChildEnters \/ ChildReturns \/ ChildCalls \/ ChildTraps \/ ChildReceives \/ ChildExits
    /\ UNCHANGED <<static, stage, error, loaded, await, made>>

(* Somebody kills it.                                                      *)
ChildKilled ==
    /\ scenario.killer /\ child.st \in {"running", "stopped"}
    /\ child' = [child EXCEPT !.st = "dead", !.event = "signaled"]
    /\ UNCHANGED <<static, stage, error, loaded, await, made>>

-----------------------------------------------------------------------------
(* main().                                                                 *)

Goto(from, to) == stage = from /\ stage' = to /\ UNCHANGED error

(* An error, by return or by exception, ends main().                       *)
Fail(e) ==
    /\ stage' = "leave" /\ error' = e
    /\ UNCHANGED <<loaded, await, idle, todo, table, results, printed>>

ParseArguments ==
    LET e == Args!ArgumentsError(scenario.argv, scenario.openable) IN
    /\ stage = "arguments"
    /\ IF e # Fine THEN Fail(e)
       ELSE /\ Goto("arguments", "objects")
            /\ args' = Args!Arguments(scenario.argv)
            /\ UNCHANGED <<objects, config, readers, await, made>>
    /\ UNCHANGED <<static, child>>

LoadObjects ==
    /\ stage = "objects"
    /\ IF args.target \notin DOMAIN scenario.files THEN Fail("object_info")
       ELSE /\ Goto("objects", "config")
            /\ objects' = object_info(scenario.files[args.target])
            /\ UNCHANGED <<args, config, readers, await, made>>
    /\ UNCHANGED <<static, child>>

LoadConfig ==
    LET e == Cfg!ConfigError(scenario.doc, clamped) IN
    /\ stage = "config"
    /\ IF e # Fine THEN Fail(e)
       ELSE /\ Goto("config", "fork")
            /\ config' = Cfg!ConfigValue(scenario.doc, clamped)
            /\ UNCHANGED <<args, objects, readers, await, made>>
    /\ UNCHANGED <<static, child>>

(* The child asks to be traced and executes the command.                   *)
Fork ==
    /\ stage = "fork"
    /\ IF scenario.forks
       THEN /\ Goto("fork", "readers")
            /\ child' = [NoChild EXCEPT !.st = "running", !.image = "profiler", !.script = scenario.script]
            /\ UNCHANGED <<loaded, await, made>>
       ELSE Fail("fork") /\ UNCHANGED child
    /\ UNCHANGED static

CreateReaders ==
    LET r == ReadersOf(scenario.machine, args, config) IN
    /\ stage = "readers"
    /\ IF r.error # Fine THEN Fail(r.error)
       ELSE /\ Goto("readers", IF Args!same_target(args) THEN "run" ELSE "await")
            /\ readers' = r
            /\ UNCHANGED <<args, objects, config, await, made>>
    /\ UNCHANGED <<static, child>>

-----------------------------------------------------------------------------
(* await_executable().                                                     *)

Reported == child.event # "none"

Wait == child' = [child EXCEPT !.event = "none"]

IsStop(event) == event \in {"trap", "signal", "syscall"}

(* The wait at the beginning of await_executable() and of run().           *)
FirstWait(from, to) ==
    /\ stage = from /\ Reported
    /\ Wait
    /\ CASE child.event = "exited"  -> Fail("failed_to_run")
         [] IsStop(child.event)     -> Goto(from, to) /\ UNCHANGED <<loaded, await, made>>
         [] OTHER                   -> Fail("not_stopped")
    /\ UNCHANGED static

AwaitFirst == FirstWait("await", "awaitoptions")

(* A request to a child that has not stopped fails.                        *)
Request(from, to, effect) ==
    /\ stage = from
    /\ IF child.st = "stopped"
       THEN Goto(from, to) /\ child' = effect /\ UNCHANGED <<loaded, await, made>>
       ELSE Fail("ptrace") /\ UNCHANGED child
    /\ UNCHANGED static

AwaitOptions == Request("awaitoptions", "awaitsyscall", [child EXCEPT !.exitkill = TRUE])

AwaitResume ==
    Request("awaitsyscall", "awaitwait", [child EXCEPT !.st = "running", !.syscalls = TRUE])

(* Mutant: the first execve() is taken for the one that is awaited.        *)
MatchesAny(call) == call.kind = "exec"

Matches(call) == call.kind = "exec" /\ call.file = args.target

(* The path that is executed is read out of the child.                     *)
get_string(call) == Check(call.kind = "badexec", "get_string")

(* Only the entries of system calls are looked at; the one after the match *)
(* is the return of that call.                                             *)
AwaitCall ==
    /\ stage = "awaitwait" /\ child.event = "syscall"
    /\ Wait
    /\ CASE ~matched /\ entry /\ get_string(child.call) # Fine -> Fail(get_string(child.call))
         [] OTHER ->
              /\ entry' = ~entry
              /\ matched' = (matched \/ (entry /\ Matches(child.call)))
              /\ Goto("awaitwait", IF matched THEN "awaitcont" ELSE "awaitsyscall")
              /\ UNCHANGED <<loaded, made>>
    /\ UNCHANGED static

AwaitOther ==
    /\ stage = "awaitwait" /\ Reported /\ child.event # "syscall"
    /\ Wait
    /\ IF IsStop(child.event) THEN Goto("awaitwait", "awaitsyscall") /\ UNCHANGED <<loaded, await, made>>
       ELSE Fail("ended_before_exec")
    /\ UNCHANGED static

(* Mutant: the child is left where it is.                                  *)
AwaitContinueNot == Request("awaitcont", "run", child)

AwaitContinue == Request("awaitcont", "run", [child EXCEPT !.st = "running", !.syscalls = FALSE])

-----------------------------------------------------------------------------
(* run().                                                                  *)

RunWait == FirstWait("run", IF args.idle THEN "idle" ELSE "registers")

Sections(g) == config.groups[g].sections

Targeted(t) == \E g \in DOMAIN config.groups : \E s \in DOMAIN Sections(g) : t \in Sections(g)[s].targets

(* The sensors in a sample of the scenario: no two of them show the same.  *)
CpuSensor(level, socket, l) ==
    IF level = 0 THEN 0 ELSE 100 * level + 10 * socket + SelectInSeq(LocationBits, LAMBDA x : x = l)

GpuSensor(level, d, t) ==
    IF level = 0 THEN 0 ELSE 100 * level + 10 * d + (IF t = "power" THEN 1 ELSE 2)

CpuSensors(level) ==
    [x \in (0..(MaxSockets - 1)) \X ToSet(LocationBits) |-> CpuSensor(level, x[1], x[2])]

GpuSensors(level) ==
    [x \in (0..(Gpu!MaxDevices - 1)) \X Gpu!ReadingTypes |-> GpuSensor(level, x[1], x[2])]

Samples(devices) ==
    [i \in DOMAIN scenario.levels |->
        Read(readers, devices, CpuSensors(scenario.levels[i]), GpuSensors(scenario.levels[i]))]

ObtainIdle ==
    LET devices == Having(<<"cpu", "gpu">>, Targeted) IN
    /\ stage = "idle"
    /\ \/ /\ devices # <<>>
          /\ Goto("idle", "registers")
          /\ idle' = [i \in DOMAIN devices |-> [device |-> devices[i], samples |-> Samples(<<devices[i]>>)]]
          /\ UNCHANGED <<loaded, await, todo, table, results, printed>>
       \/ devices = <<>> /\ Fail("no_sections")
       \/ devices # <<>> /\ scenario.sensorsFail /\ Fail("reader")
    /\ UNCHANGED <<static, child>>

(* getregs(), and for a position independent target /proc/<pid>/maps.      *)
Registers == Request("registers", "options", child)

SetOptions == Request("options", "insert", [child EXCEPT !.exitkill = TRUE])

TrapOf(g, s) ==
    [group |-> config.groups[g], section |-> Sections(g)[s],
     devices |-> find(readers, Sections(g)[s].targets), symbol |-> None]

NextSection ==
    IF todo.section < Len(Sections(todo.group)) THEN AtSection(todo.group, todo.section + 1)
    ELSE AtSection(todo.group + 1, 1)

AllInserted == todo.group > Len(config.groups)

Trap == TrapOf(todo.group, todo.section)

(* Nothing can be written into a child that was killed meanwhile.          *)
Target == IF child.st = "stopped" THEN objects ELSE [objects EXCEPT !.mapped = 0]

(* Mutant: an error does not end the loops.                                *)
InsertedGoesOn(inserted, to, next) ==
    /\ table' = inserted
    /\ stage' = to
    /\ error' = inserted.error
    /\ todo' = next
    /\ UNCHANGED <<static, loaded, await, idle, results, printed, child>>

(* An error ends the loops.                                                *)
Inserted(inserted, to, next) ==
    /\ table' = inserted
    /\ stage' = IF inserted.error = Fine THEN to ELSE "leave"
    /\ error' = inserted.error
    /\ todo' = next
    /\ UNCHANGED <<static, loaded, await, idle, results, printed, child>>

InsertSection ==
    /\ stage = "insert" /\ ~AllInserted /\ Trap.section.bounds.kind # "function"
    /\ Inserted(InsertBounds(table, Target, Trap), "insert", NextSection)

InsertFunction ==
    LET found == FoundFunction(objects, Trap.section.bounds) IN
    /\ stage = "insert" /\ ~AllInserted /\ Trap.section.bounds.kind = "function"
    /\ IF found.error # Fine THEN Fail(found.error) /\ UNCHANGED <<static, child>>
       ELSE Inserted(InsertCalls(table, Target, Trap, found.value.symbol), "instances",
                     [todo EXCEPT !.instances = found.value.function.instances,
                                  !.inserted = found.value.symbol # None])

InsertInlined ==
    /\ stage = "instances" /\ todo.instances # <<>>
    /\ LET instance == Head(todo.instances) IN
       Inserted(InsertInstance(table, Target, Trap, instance), "instances",
                [todo EXCEPT !.instances = Tail(@), !.inserted = @ \/ CanProfile(instance)])

FunctionInserted ==
    /\ stage = "instances" /\ todo.instances = <<>>
    /\ IF todo.inserted THEN Inserted(table, "insert", NextSection)
       ELSE Fail("unable_to_profile") /\ UNCHANGED <<static, child>>

(* The tracer of the first thread: it ends with the target, which has run  *)
(* through sections, each measured or not, or with an error, and detaches  *)
(* the target.                                                             *)
TraceEnds ==
    /\ stage = "insert" /\ AllInserted /\ child.st = "stopped"
    /\ Goto("insert", "collect")
    /\ \E n \in 0..MaxExecutions :
         \E starts \in [1..n -> DOMAIN table.starts], fine \in [1..n -> BOOLEAN] :
            results' = [i \in 1..n |->
                           [start |-> starts[i], fine |-> fine[i],
                            samples |-> Samples(table.starts[starts[i]].devices)]]
    /\ child' = [child EXCEPT !.st = "dead", !.event = "none"]
    /\ UNCHANGED <<static, loaded, await, idle, todo, table, printed>>

TraceFails ==
    /\ stage = "insert" /\ AllInserted
    /\ Fail("tracer")
    /\ child' = IF child.st = "dead" THEN child ELSE [child EXCEPT !.st = "detached"]
    /\ UNCHANGED static

(* Each execution that was measured goes to its section's output.          *)
Collected(groups, r) ==
    LET place == table.places[r.start] IN
    IF ~r.fine THEN groups
    ELSE [groups EXCEPT ![place[1]].sections[place[2]].executions =
             Append(@, [range |-> r.start, samples |-> r.samples])]

Collect ==
    /\ stage = "collect" /\ results # <<>>
    /\ table' = [table EXCEPT !.groups = Collected(@, Head(results))]
    /\ results' = Tail(results)
    /\ UNCHANGED <<static, stage, error, loaded, await, idle, todo, printed, child>>

WriteResults ==
    /\ results = <<>>
    /\ Goto("collect", "leave")
    /\ printed' = ResultsOutput(scenario.machine, readers, idle, table.groups)
    /\ UNCHANGED <<static, loaded, await, idle, todo, table, results, child>>

(* main() returns: the kernel kills or detaches a child that is left.      *)
Leave ==
    /\ Goto("leave", "done")
    /\ child' = IF child.st \in {"running", "stopped"}
                THEN [child EXCEPT !.st = IF child.exitkill THEN "dead" ELSE "detached"] ELSE child
    /\ UNCHANGED <<static, loaded, await, made>>

Main ==
    \/ ParseArguments \/ LoadObjects \/ LoadConfig \/ Fork \/ CreateReaders
    \/ AwaitFirst \/ AwaitOptions \/ AwaitResume \/ AwaitCall \/ AwaitOther \/ AwaitContinue
    \/ RunWait \/ ObtainIdle \/ Registers \/ SetOptions \/ InsertSection \/ InsertFunction
    \/ InsertInlined \/ FunctionInserted \/ TraceEnds \/ TraceFails \/ Collect \/ WriteResults \/ Leave

Finished == stage = "done" /\ UNCHANGED vars

Next == Main \/ Child \/ ChildKilled \/ Finished

Spec == Init /\ [][Next]_vars

-----------------------------------------------------------------------------
Stages == {"arguments", "objects", "config", "fork", "readers", "await", "awaitoptions",
           "awaitsyscall", "awaitwait", "awaitcont", "run", "idle", "registers", "options", "insert",
           "instances", "collect", "leave", "done"}

(* Type invariant: of the stages of main() and run(), of the child's states, *)
(* and of which results there are at each stage.                           *)
TypeOK ==
    /\ clamped \in {0, 1}
    /\ stage \in Stages
    /\ error # Fine => stage \in {"leave", "done"}
    /\ entry \in BOOLEAN /\ matched \in BOOLEAN
    /\ stage \notin {"arguments", "leave", "done"} => args # Nothing
    /\ stage \notin {"arguments", "objects", "config", "leave", "done"} => config # Nothing
    /\ readers # Nothing => args # Nothing /\ config # Nothing
    /\ results # <<>> => stage = "collect"
    /\ Len(results) <= MaxExecutions
    /\ printed # Nothing => stage \in {"leave", "done"}
    /\ child.st \in {"none", "running", "stopped", "dead", "detached"}
    /\ child.event \in {"none", "trap", "signal", "syscall", "exited", "signaled"}
    /\ child.st = "none" => child = NoChild

(* Each execution is in the output of the section at whose start trap it   *)
(* began, and a section's output has the executions of no other section    *)
(* (output_mapping, with the labels that config_t accepts).                *)
ResultsUnderOwnSection ==
    \A g \in DOMAIN table.groups : \A s \in DOMAIN table.groups[g].sections :
        LET executions == table.groups[g].sections[s].executions
            trap(i) == table.starts[executions[i].range]
        IN  \A i \in DOMAIN executions :
                /\ trap(i).group.label = table.groups[g].label
                /\ trap(i).section.label = table.groups[g].sections[s].label
                /\ \A j \in DOMAIN executions : trap(j).section = trap(i).section

(* A command that executes the program to evaluate without failing, and    *)
(* receives no signal before it executes anything.                         *)
CommandBehaves ==
    /\ \A i \in DOMAIN scenario.script :
          LET c == scenario.script[i] IN c.kind = "exec" /\ c.file = args.target => c.works
    /\ scenario.script # <<>> => scenario.script[1].kind # "signal"

(* Trap instructions are only written into the program that is evaluated,  *)
(* not into one that launches it (await_executable()).                     *)
InstrumentsNamedImage ==
    table.armed # {} /\ CommandBehaves => child.image = args.target

(* "Kill the tracee when the profiler errors" (get_ptrace_opts()): when the *)
(* option is set, an error does not leave the target to run on.            *)
KilledOnError == error # Fine /\ child.exitkill => child.st # "detached"

Tracing == stage \in {"insert", "collect"} /\ AllInserted

(* When the tracer starts, each section of the configuration has a start   *)
(* trap, each start trap has its place in the output, each end trap belongs*)
(* to a start trap, and each has its instruction (run()).                  *)
TrapsComplete ==
    Tracing =>
        /\ DOMAIN table.places = DOMAIN table.starts
        /\ \A e \in DOMAIN table.ends : table.ends[e] \in DOMAIN table.starts
        /\ table.armed = DOMAIN table.starts \cup DOMAIN table.ends
        /\ \A g \in DOMAIN config.groups : \A s \in DOMAIN Sections(g) :
              \E a \in DOMAIN table.starts : table.starts[a].section = Sections(g)[s]

(* How well a symbol fits a name: exactly, but for its parameters, or but  *)
(* for what the compiler appended.                                         *)
Fit(symbol, name) == IF symbol.name = name THEN 1 ELSE IF ~symbol.suffix THEN 2 ELSE 3

Unambiguous(a, trap) ==
    LET bounds == trap.section.bounds
        symbol == trap.symbol
        name == objects.words[bounds.name]
        matching == {s \in ToSet(objects.symbols) : IsPrefix(name, s.name)}
    IN  symbol # None /\ bounds.cu = "absent" =>
            /\ symbol \in matching /\ a = objects.base + symbol.entrypoint
            /\ \A s \in matching \ {symbol} : Fit(symbol, name) < Fit(s, name)

(* A function that is named without its unit is measured at the one symbol *)
(* that fits its name best (find_function_symbol()).                       *)
CallsUnambiguous == \A a \in DOMAIN table.starts : Unambiguous(a, table.starts[a])

StartsAsAsked(a, trap) ==
    LET asked == trap.section.bounds.start
        from(u) == {l \in ToSet(u.lines) : l[1] = u.file /\ l[2] >= asked.line}
    IN  trap.section.bounds.kind = "positions" =>
            \E u \in ToSet(objects.units) : \E l \in from(u) :
                /\ is_sub_path(objects.words[asked.cu], u.path)
                /\ a = objects.base + l[4]
                /\ \A m \in from(u) : l[2] < m[2] \/ (l[2] = m[2] /\ l[3] <= m[3])

(* A section that starts at a line starts in the unit it names, at the     *)
(* first line from there on, and the first column of that line, that has   *)
(* code, whatever the order of the line table and the lines of other files *)
(* in it (find_lines(), load_lines()).                                     *)
LinesAsAsked == \A a \in DOMAIN table.starts : StartsAsAsked(a, table.starts[a])

(* "Find line with the lowest address in range": no code of the line where *)
(* a section starts is before its start trap (lowest_address_line()).      *)
LinesFromLowest ==
    \A a \in DOMAIN table.starts : table.starts[a].section.bounds.kind = "positions" =>
        \E u \in ToSet(objects.units) : \E l \in ToSet(u.lines) :
            /\ a = objects.base + l[4]
            /\ \A m \in ToSet(u.lines) : m[1] = l[1] /\ m[2] = l[2] => l[4] <= m[4]

Params == config.parameters

ZoneEvents == ToSet(readers.cpu.events)

(* On x86_64 the events are the zones of the masks, and where a package is *)
(* one zone and a domain one of its parts, each is found by its location   *)
(* and socket and none is there twice (reader_rapl_impl's constructor).    *)
RaplEventsComplete ==
    readers # Nothing /\ readers.arch = "x86_64" =>
        LET machine == scenario.machine.cpu
            zone(i) == machine.zones[i]
            tried == {i \in 1..Cardinality(machine.packages) : zone(i) # Rapl!NoZone}
            parts(i) == Rapl!Parts(zone(i))
            domain(i, k) == Rapl!Domain(parts(i)[k].name)
        IN  /\ ZoneEvents =
                   {e \in UNION {{[socket |-> zone(i).number, loc |-> domain(i, k)] : k \in DOMAIN parts(i)}
                                  : i \in tried} :
                       e.socket \in SocketMask(args, Params) /\ e.loc \in LocationMask(args, Params)}
            /\ /\ \A i, j \in tried : zone(i).number = zone(j).number => i = j
               /\ \A i \in tried : \A k, m \in DOMAIN parts(i) : domain(i, k) = domain(i, m) => k = m
               => \A i \in DOMAIN readers.cpu.events :
                      readers.cpu.map[readers.cpu.events[i].socket][readers.cpu.events[i].loc] = i - 1

(* On ppc64 each controller of the mask has one event, by which each of the*)
(* locations asked for is found, and which holds each sensor asked for that*)
(* the controller has (add_event()); the sensor of the system is the first *)
(* one's.                                                                  *)
OccEventsComplete ==
    readers # Nothing /\ readers.arch # "x86_64" =>
        LET machine == scenario.machine.cpu
            events == readers.cpu.events
            asked(o) == {l \in LocationMask(args, Params) \cap Occ!OccLocations : o # 0 => l # "sys"}
        IN  /\ {e.occ : e \in ToSet(events)} =
                   {o \in 0..(Cardinality(machine.packages) - 1) :
                       o \in SocketMask(args, Params) /\ asked(o) # {}}
            /\ \A i, j \in DOMAIN events : events[i].occ = events[j].occ => i = j
            /\ \A i \in DOMAIN events : \A l \in asked(events[i].occ) :
                  readers.cpu.map[events[i].occ][l] = i - 1
            /\ \A e \in ToSet(events) :
                  {x.gsid : x \in ToSet(e.entries)} =
                      {x.gsid : x \in {y \in ToSet(machine.blocks[e.occ + 1].entries) :
                                          y.genuine /\ y.gsid \in asked(e.occ)}}

(* Each device of the mask has one event, and all have the same reading    *)
(* (create_gpu_reader() and reader_gpu_impl's constructor).                *)
GpuEventsComplete ==
    readers # Nothing /\ readers.gpu.vendor # "none" =>
        \E t \in Gpu!ReadingTypes :
            readers.gpu.events = Gpu!Chosen(scenario.machine.gpu, DeviceMask(args, Params)) \X {t}

(* The readers have the events the masks and the machine call for:         *)
(* RaplEventsComplete, OccEventsComplete and GpuEventsComplete.            *)
EventsComplete == RaplEventsComplete /\ OccEventsComplete /\ GpuEventsComplete

NotZero == Having(scenario.levels, LAMBDA level : level # 0)

(* A location is read in Watts if the entries that give it are.            *)
InWatts(event, l) ==
    LET mine == {x \in ToSet(event.entries) : x.gsid = l} IN mine # {} /\ \A x \in mine : x.watts

CpuEvents ==
    IF readers.arch = "x86_64" THEN {<<e.socket, e.loc>> : e \in ZoneEvents}
    ELSE UNION {{<<e.occ, l>> : l \in {k \in Occ!OccLocations : InWatts(e, k)}} :
                   e \in ToSet(readers.cpu.events)}

CpuComplete(out) ==
    \A e \in CpuEvents :
        \E r \in out.cpu : r.socket = e[1] /\ r.lists[e[2]] =
            [i \in DOMAIN NotZero |-> CpuSensor(NotZero[i], e[1], e[2])]

GpuComplete(out) ==
    \A e \in readers.gpu.events :
        \E r \in out.gpu : r.device = e[1] /\ r.board =
            [i \in DOMAIN NotZero |->
                IF e[2] = "energy" THEN GpuSensor(NotZero[i], e[1], e[2]) % 2^EnergyBits
                ELSE GpuSensor(NotZero[i], e[1], e[2])]

(* What is written of an execution, and of the idle times, has for each    *)
(* target of its section all readings of all events, but for those that    *)
(* are 0 (readings_output_dev::output()).                                  *)
ReadingsComplete ==
    printed # Nothing /\ NotZero # <<>> =>
        /\ \A i \in DOMAIN idle :
              IF idle[i].device = "cpu" THEN CpuComplete(printed.idle[i])
                                        ELSE GpuComplete(printed.idle[i])
        /\ \A g \in DOMAIN table.groups : \A s \in DOMAIN table.groups[g].sections :
              LET executions == table.groups[g].sections[s].executions IN
              \A i \in DOMAIN executions :
                  LET targets == table.starts[executions[i].range].section.targets
                      out == printed.groups[g].sections[s].executions[i].readings
                  IN  ("cpu" \in targets => CpuComplete(out)) /\ ("gpu" \in targets => GpuComplete(out))

(* The format that is written says what the GPU readings are, if the mask  *)
(* leaves no device out: gpu_format() does not know the mask.              *)
GpuFormatMatches ==
    printed # Nothing /\ readers.gpu.vendor # "none"
    /\ Gpu!Chosen(scenario.machine.gpu, DeviceMask(args, Params)) = 0..(Len(scenario.machine.gpu.devices) - 1) =>
        \A e \in readers.gpu.events : e[2] = printed.format

(* The output has all readings, and says of which kind they are:           *)
(* ReadingsComplete and GpuFormatMatches.                                  *)
OutputComplete == ReadingsComplete /\ GpuFormatMatches

(* main() never waits for a child that waits for main() (await_executable()  *)
(* and run()): who is waited for runs, or has something to report.         *)
NoMutualWait ==
    stage \in {"await", "awaitwait", "run"} => child.st = "running" \/ Reported
=============================================================================
