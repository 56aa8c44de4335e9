------------------------------- MODULE Readers -------------------------------
(***************************************************************************)
(* The readers of the profiler (src/reader_container.cpp) and what they    *)
(* read: the masks of the command line and of the configuration, the CPU   *)
(* reader of the machine's architecture, the GPU reader, and a reader of   *)
(* both for each section that has both targets.                            *)
(***************************************************************************)
EXTENDS Checks, FiniteSets, SequencesExt

CONSTANT EnergyBits

Rapl == INSTANCE RaplEvents
Occ  == INSTANCE OccEvents
Gpu  == INSTANCE GpuEvents

LocationBits == <<"pkg", "cores", "uncore", "mem", "sys", "gpu">>
MaxSockets == 8

(* The k-th of some indices, what a sequence has at them, in order, and    *)
(* its elements that pass a test: SelectSeq without its recursion.         *)
Nth(I, k) == CHOOSE i \in I : Cardinality({j \in I : j <= i}) = k

Picked(s, I) == [k \in 1..Cardinality(I) |-> s[Nth(I, k)]]

Having(s, Test(_)) == Picked(s, {i \in DOMAIN s : Test(s[i])})

(* A mask of the command line, that of the configuration if it is zero, all*)
(* ones if there is neither.  Bits beyond the width of the mask are lost.  *)
MaskOf(flag, param, width) ==
    LET fits(bits) == bits \cap 0..(width - 1) IN
    IF fits(flag) # {} THEN fits(flag) ELSE IF param.given THEN fits(param.bits) ELSE 0..(width - 1)

LocationMask(args, params) ==
    {IF b < Len(LocationBits) THEN LocationBits[b + 1] ELSE "unused" :
        b \in MaskOf(args.masks["cpu-sensors"], params.domain_mask, 32)}

SocketMask(args, params) == MaskOf(args.masks["cpu-sockets"], params.socket_mask, MaxSockets)

DeviceMask(args, params) == MaskOf(args.masks["gpu-devices"], params.device_mask, 8)

create_cpu_reader(machine, args, params) ==
    IF machine.arch = "x86_64"
    THEN Rapl!RaplReaderOf(machine.cpu, LocationMask(args, params), SocketMask(args, params))
    ELSE Occ!OccReaderOf(machine.cpu, LocationMask(args, params), SocketMask(args, params))

(* Mutant: power is preferred.                                             *)
effective_readings_type_power(types) == IF "power" \in types THEN "power" ELSE "energy"

effective_readings_type(types) == IF "energy" \in types THEN "energy" ELSE "power"

create_gpu_reader(machine, args, params) ==
    LET mask == DeviceMask(args, params) IN
    Gpu!GpuReaderOf(machine.gpu, {effective_readings_type(Gpu!Support(machine.gpu, mask))}, mask)

TargetSeq(targets) == Having(<<"cpu", "gpu">>, LAMBDA t : t \in targets)

(* The hybrid readers, one for each combination of several targets that a  *)
(* section has.                                                            *)
hybrids(config) ==
    {[targets |-> s.targets, readers |-> TargetSeq(s.targets)] :
        s \in {x \in UNION {ToSet(g.sections) : g \in ToSet(config.groups)} : {"cpu", "gpu"} \subseteq x.targets}}

ReadersOf(machine, args, config) ==
    LET cpu == create_cpu_reader(machine, args, config.parameters)
        gpu == create_gpu_reader(machine, args, config.parameters)
    IN  [error |-> FirstError(<<cpu.error, gpu.error>>), arch |-> machine.arch,
         cpu |-> cpu, gpu |-> gpu, hybrids |-> hybrids(config)]

(* find(): the devices a section's reader reads, in order.                 *)
find(readers, targets) ==
    IF targets = {"cpu"} THEN <<"cpu">>
    ELSE IF targets = {"gpu"} THEN <<"gpu">>
    ELSE (CHOOSE h \in readers.hybrids : h.targets = targets).readers

-----------------------------------------------------------------------------
(* Reading a sample, when the sensors show cpu, for each socket and        *)
(* location, and gpu, for each device and type; what is not read stays 0.  *)
ReadCpu(readers, cpu) ==
    IF readers.arch = "x86_64"
    THEN [i \in DOMAIN readers.cpu.events |-> cpu[<<readers.cpu.events[i].socket, readers.cpu.events[i].loc>>]]
    ELSE Occ!ReadAll(readers.cpu, [o \in 0..(MaxSockets - 1) |->
             [l \in Occ!OccLocations |-> [ts |-> 1, value |-> cpu[<<o, l>>]]]])

ReadGpu(readers, gpu) == [e \in readers.gpu.events |-> gpu[e]]

Unread(sensors) == [x \in DOMAIN sensors |-> 0]

Read(readers, devices, cpu, gpu) ==
    [cpu |-> ReadCpu(readers, IF "cpu" \in ToSet(devices) THEN cpu ELSE Unread(cpu)),
     gpu |-> ReadGpu(readers, IF "gpu" \in ToSet(devices) THEN gpu ELSE Unread(gpu))]

CpuHasValue(readers, sample, l, socket) ==
    IF readers.arch = "x86_64" THEN Rapl!HasValue(readers.cpu, sample.cpu, l, socket)
    ELSE Occ!HasValue(readers.cpu, sample.cpu, l, socket)

CpuValue(readers, sample, l, socket) ==
    IF readers.arch = "x86_64" THEN Rapl!Value(readers.cpu, sample.cpu, l, socket)
    ELSE Occ!Value(readers.cpu, sample.cpu, l, socket)
=============================================================================
