----------------------------- MODULE MCProfiler -----------------------------
(* Command lines, configurations, machines and commands for Profiler: each *)
(* scenario changes what it is about of a plain one.                       *)
EXTENDS Profiler

NoMask == [given |-> FALSE, valid |-> TRUE, bits |-> {}]
AMask(bits) == [given |-> TRUE, valid |-> TRUE, bits |-> bits]
NoParams == [domain_mask |-> NoMask, socket_mask |-> NoMask, device_mask |-> NoMask]

Position(cu, line) ==
    [cuAttribute |-> cu, cuChild |-> "absent", lineAttribute |-> -1, lineChild |-> line]
NoBounds ==
    [has |-> {}, func |-> [cu |-> "absent", name |-> "absent"],
     addr |-> [hasStart |-> FALSE, hasEnd |-> FALSE, start |-> 0, end |-> 0],
     start |-> Position("absent", -1), end |-> Position("absent", -1)]
Func(cu, name) == [NoBounds EXCEPT !.has = {"func"}, !.func = [cu |-> cu, name |-> name]]
Addresses(a, b) ==
    [NoBounds EXCEPT !.has = {"addr"}, !.addr = [hasStart |-> TRUE, hasEnd |-> TRUE, start |-> a, end |-> b]]
Lines(cu, a, b) ==
    [NoBounds EXCEPT !.has = {"start", "end"}, !.start = Position(cu, a), !.end = Position(cu, b)]

Section(label, targets, bounds) ==
    [label |-> label, extra |-> "absent", targets |-> targets, bounds |-> bounds,
     method |-> "profile", short |-> FALSE, long |-> FALSE, interval |-> 10, freq |-> -1,
     duration |-> 15, samples |-> -1, allow_concurrency |-> FALSE]
Group(label, sections) == [label |-> label, extra |-> "absent", sections |-> sections]
Doc(groups) == [status |-> "ok", hasConfig |-> TRUE, params |-> NoParams, groups |-> groups]
One(section) == Doc(<<Group("absent", <<section>>)>>)

(* The objects of the program: one file in two units.                      *)
Symbol(name, suffix, address) ==
    [name |-> name, suffix |-> suffix, demangles |-> TRUE, binding |-> "global",
     address |-> address, entrypoint |-> address + 1]
Function(name, decl, addresses, instances) ==
    [name |-> name, static |-> FALSE, demangles |-> TRUE, decl |-> decl,
     addresses |-> addresses, instances |-> instances]

Main_c ==
    [path |-> <<"src", "main.c">>, file |-> 1, addresses |-> <<<<0, 40>>>>,
     lines |-> <<<<1, 7, 1, 12>>, <<1, 5, 9, 10>>, <<1, 5, 3, 8>>, <<1, 9, 1, 20>>>>,
     concrete |-> <<Function(<<"foo">>, 1, <<<<0, 10>>>>, <<>>),
                    Function(<<"bar", "(int)">>, 2, <<<<10, 20>>>>, <<>>)>>,
     inlined |-> <<Function(<<"bar", "(int)">>, 2, <<>>, <<<<<<24, 28>>>>, <<<<4, 4>>>>, <<<<0, 2>>, <<5, 6>>>>>>),
                   Function(<<"tiny">>, 3, <<>>, <<<<<<30, 33>>>>>>),
                   Function(<<"gap">>, 4, <<>>, <<<<<<36, 36>>>>, <<<<36, 37>>, <<38, 39>>>>>>)>>]
Lib_c ==
    [path |-> <<"src", "lib.c">>, file |-> 2, addresses |-> <<<<40, 60>>>>,
     lines |-> <<<<2, 3, 1, 44>>, <<2, 3, 8, 42>>, <<2, 6, 1, 50>>>>,
     concrete |-> <<Function(<<"baz", "(int)">>, 1, <<<<40, 50>>>>, <<>>),
                    Function(<<"baz", "(char)">>, 2, <<<<50, 55>>>>, <<>>),
                    Function(<<"qux", "()">>, 3, <<<<55, 60>>>>, <<>>)>>,
     inlined |-> <<Function(<<"late">>, 4, <<>>, <<<<<<52, 54>>>>>>)>>]
Program ==
    [units |-> <<Main_c, Lib_c>>, base |-> 100, mapped |-> 60,
     symbols |-> <<Symbol(<<"foo">>, FALSE, 0), Symbol(<<"bar", "(int)">>, FALSE, 10),
                   Symbol(<<"qux", "()", ".cold">>, TRUE, 34), Symbol(<<"baz", "(int)">>, FALSE, 40),
                   Symbol(<<"baz", "(char)">>, FALSE, 50), Symbol(<<"qux", "()">>, FALSE, 55)>>,
     words |-> [t \in {"foo", "bar", "tiny", "gap", "late", "baz", "qux", "gone", "main.c", "lib.c", "src"} |-> <<t>>]]

(* Machines.                                                               *)
Zone(name) == [name |-> name, number |-> 0, range |-> "number", counter |-> "number", subdomains |-> <<>>]
Package(n) ==
    [Zone("package") EXCEPT !.number = n, !.subdomains = <<Zone("core"), Zone("dram")>>]
Device == [power |-> "yes", energy |-> "yes"]
OldDevice == [power |-> "yes", energy |-> "no"]
NoGpu == [vendor |-> "none", library |-> TRUE, counts |-> TRUE, devices |-> <<>>]
Nvidia(devices) == [vendor |-> "nvidia", library |-> TRUE, counts |-> TRUE, devices |-> devices]
Intel ==
    [arch |-> "x86_64", gpu |-> Nvidia(<<Device, OldDevice>>),
     cpu |-> [topology |-> TRUE, packages |-> {0, 1}, zones |-> <<Package(1), Package(0)>>]]
Sensor(l) == [known |-> TRUE, version |-> 1, gsid |-> l, genuine |-> TRUE, watts |-> TRUE]
Block(gsids) ==
    [header |-> [valid |-> TRUE, version |-> 1, offsets |-> "expected"],
     reads |-> [header |-> "fine", names |-> "fine", buffers |-> "fine"],
     entries |-> [i \in DOMAIN gsids |-> Sensor(gsids[i])],
     side |-> [s \in {"ping", "pong"} |-> [valid |-> TRUE, ts |-> 1, gsids |-> gsids]]]
Power9 ==
    [arch |-> "ppc64", gpu |-> [Nvidia(<<Device, Device>>) EXCEPT !.vendor = "amd"],
     cpu |-> [file |-> TRUE, topology |-> TRUE, packages |-> {0, 8},
              blocks |-> <<Block(<<"sys", "pkg", "other", "mem">>), Block(<<"pkg", "mem", "gpu">>)>>]]

(* Commands.                                                               *)
Exec(file) == [kind |-> "exec", file |-> file, works |-> TRUE]
NoExec(file) == [kind |-> "exec", file |-> file, works |-> FALSE]
Other == [kind |-> "other"]
BadExec == [kind |-> "badexec"]
Signal == [kind |-> "signal"]

Argv(options, command) == [options |-> options, command |-> command]
Option(name, value) == [name |-> name, value |-> value]
Mask(name, bits) == Option(name, [valid |-> TRUE, bits |-> bits])

Plain ==
    [argv |-> Argv(<<Option("no-idle", "")>>, <<"prog">>), openable |-> {"out", "cfg"},
     files |-> [f \in {"prog"} |-> Program], doc |-> One(Section("absent", <<>>, Func("absent", "foo"))),
     forks |-> TRUE, machine |-> Intel, levels |-> <<1, 2>>, script |-> <<Exec("prog")>>,
     killer |-> FALSE, sensorsFail |-> FALSE]

Configured(doc) == [Plain EXCEPT !.doc = doc]
Measured(bounds) == Configured(One(Section("absent", <<"cpu">>, bounds)))
Wrapped(script) ==
    [Plain EXCEPT !.argv = Argv(<<Option("no-idle", ""), Option("exec", "prog")>>, <<"sh", "prog">>),
                  !.script = script]
Both == Section("both", <<"gpu", "cpu", "">>, Lines("main.c", 4, 9))

CommandLines ==
    {[Plain EXCEPT !.argv = Argv(o, <<"prog">>)] :
        o \in {<<>>, <<Option("help", "")>>, <<Option("exec", "")>>, <<Option("exec", "gone")>>,
               <<Option("output", "out"), Option("config", "none")>>, <<Option("quiet", ""), Option("log", "out")>>,
               <<Option("cpu-sensors", [valid |-> FALSE])>>, <<Option("dump", "none"), Option("idle", "")>>,
               <<Option("output", "none")>>,
               <<Mask("cpu-sensors", {1, 40}), Mask("cpu-sockets", {1}), Mask("gpu-devices", {0})>>,
               <<Mask("cpu-sensors", {40}), Mask("gpu-devices", {5})>>}}
    \cup {[Configured(Doc(<<>>)) EXCEPT !.argv.options = <<>>],
          [Plain EXCEPT !.argv.command = <<>>], [Plain EXCEPT !.argv.command = <<"gone">>, !.script = <<Exec("gone")>>],
          [Plain EXCEPT !.forks = FALSE]}

Bounds ==
    {Measured(b) : b \in {Func("absent", "bar"), Func("absent", "baz"), Func("absent", "qux"),
                          Func("absent", "tiny"), Func("absent", "gone"),
                          Func("absent", "gap"), Func("absent", "late"), Func("lib.c", "late"), Func("main.c", "bar"),
                          Func("lib.c", "baz"), Func("main.c", "tiny"), Func("src", "foo"),
                          Lines("main.c", 4, 6), Lines("main.c", 4, 5), Lines("main.c", 5, 30),
                          Lines("lib.c", 1, 6), Lines("lib.c", 9, 9), Lines("gone", 1, 2),
                          Lines("lib.c", 0, 2), Addresses(3, 9), Addresses(3, 60), Addresses(70, 9),
                          Func("absent", ""), NoBounds}}

Configurations ==
    {Configured(d) : d \in {
        Doc(<<Group("a", <<Section("x", <<>>, Func("absent", "foo")), Section("y", <<>>, Addresses(1, 9))>>)>>),
        Doc(<<>>), [Doc(<<>>) EXCEPT !.hasConfig = FALSE], [Doc(<<>>) EXCEPT !.status = "other"],
        Doc(<<Group("absent", <<>>)>>),
        [One(Both) EXCEPT !.params.device_mask.given = TRUE],
        [One(Both) EXCEPT !.params.domain_mask = AMask({0, 3}), !.params.socket_mask = AMask({1})],
        [One(Both) EXCEPT !.params.domain_mask = [given |-> TRUE, valid |-> FALSE, bits |-> {}]],
        One([Both EXCEPT !.method = "total", !.short = TRUE]),
        One([Both EXCEPT !.method = "total", !.short = TRUE, !.long = TRUE]),
        One([Both EXCEPT !.interval = -1, !.freq = 2000]), One([Both EXCEPT !.targets = <<"disk">>]),
        Doc(<<Group("a", <<Section("x", <<>>, Func("absent", "foo")), Section("y", <<>>, Addresses(0, 9))>>)>>),
        Doc(<<Group("a", <<Section("absent", <<>>, Func("absent", "foo")),
                           Section("absent", <<"gpu">>, Addresses(3, 9))>>)>>),
        Doc(<<Group("a", <<Section("x", <<>>, Func("absent", "foo")), Both>>),
              Group("b", <<Section("x", <<"gpu">>, Addresses(3, 9))>>)>>),
        Doc(<<Group("a", <<Both>>), Group("absent", <<Both>>)>>)}}

Machines ==
    {[Configured(One(Both)) EXCEPT !.machine = m, !.argv.options = o, !.levels = v] :
        m \in {Intel, Power9, [Intel EXCEPT !.gpu = NoGpu], [Intel EXCEPT !.gpu = Nvidia(<<Device, Device>>)],
               [Intel EXCEPT !.gpu = Nvidia(<<Device, [Device EXCEPT !.power = "no"]>>)]},
        o \in {<<>>, <<Mask("cpu-sensors", {1, 3}), Mask("gpu-devices", {1})>>},
        v \in {<<1, 2>>, <<2, 0, 3>>}}
    \cup {[Plain EXCEPT !.machine.gpu = g] :
            g \in {Nvidia(<<>>), [Nvidia(<<Device>>) EXCEPT !.library = FALSE],
                   [Nvidia(<<Device>>) EXCEPT !.counts = FALSE],
                   Nvidia(<<Device, [Device EXCEPT !.energy = "error"]>>),
                   Nvidia(<<OldDevice, [Device EXCEPT !.power = "no"]>>)}}
    \cup {[Plain EXCEPT !.machine.cpu.zones = z] :
            z \in {<<Package(0), Rapl!NoZone>>, <<Package(0), Package(0)>>, <<Package(9), Package(1)>>,
                   <<Rapl!NoZone, Rapl!NoZone>>, <<Zone("psys"), Package(0)>>,
                   <<[Package(0) EXCEPT !.subdomains = <<Zone("gt")>>], Package(1)>>,
                   <<[Package(0) EXCEPT !.range = "garbled"], Package(1)>>,
                   <<[Package(0) EXCEPT !.number = -1], Package(1)>>,
                   <<Package(0), [Package(1) EXCEPT !.counter = "missing"]>>,
                   <<Package(0), [Package(1) EXCEPT !.subdomains[2].name = "unreadable"]>>}}
    \cup {[Plain EXCEPT !.machine = [Power9 EXCEPT !.cpu.blocks[2] = b]] :
            b \in {[Block(<<"pkg">>) EXCEPT !.header.valid = FALSE], [Block(<<"pkg">>) EXCEPT !.reads.names = "short"],
                   [Block(<<"pkg">>) EXCEPT !.entries[1].version = 2],
                   [Block(<<"pkg">>) EXCEPT !.entries[1].genuine = FALSE],
                   [Block(<<"pkg">>) EXCEPT !.side["pong"].valid = FALSE],
                   [Block(<<"pkg">>) EXCEPT !.side["pong"].gsids = <<"mem">>]}}

Commands ==
    {[Plain EXCEPT !.script = s] : s \in {<<NoExec("prog")>>, <<Signal, Exec("prog"), Other>>,
                                          <<NoExec("prog"), Exec("prog")>>}}
    \cup {Wrapped(s) : s \in {<<Exec("sh"), Exec("prog")>>, <<Exec("sh"), Other, Exec("env"), Signal, Exec("prog")>>,
                              <<Exec("sh"), NoExec("prog"), Exec("env")>>, <<Exec("sh"), BadExec, Exec("prog")>>,
                              <<Exec("sh"), Other>>, <<NoExec("sh")>>, <<Signal, Exec("sh"), Exec("prog")>>}}
    \cup {[Wrapped(<<Exec("sh"), Exec("prog")>>) EXCEPT !.killer = TRUE, !.doc = One(Both)],
          [Plain EXCEPT !.argv.options = <<>>, !.sensorsFail = TRUE]}

(* Having selects what SelectSeq does.                                     *)
ASSUME HavingSelects ==
    \A s \in UNION {[1..n -> {0, 1, 2}] : n \in 0..5} : \A T \in SUBSET {0, 1, 2} :
        Having(s, LAMBDA x : x \in T) = SelectSeq(s, LAMBDA x : x \in T)

(* The loops are those of SequencesExt.                                    *)
ASSUME LoopsAgree ==
    \A s \in UNION {[1..n -> {0, 1, 2}] : n \in 0..5} :
        /\ Rapl!FoldLeft(Append, <<>>, s) = FoldLeft(Append, <<>>, s)
        /\ Occ!FoldLeftDomain(Append, <<>>, s) = FoldLeftDomain(Append, <<>>, s)
        /\ \A x \in {0, 1, 2} : Occ!SelectInSeq(s, LAMBDA y : x = y) = SelectInSeq(s, LAMBDA y : x = y)
        /\ Args!ToSet(s) = ToSet(s)

MCScenarios == CommandLines \cup Bounds \cup Configurations \cup Machines \cup Commands
=============================================================================
