------------------------------- MODULE Output -------------------------------
(***************************************************************************)
(* What is written at the end (src/output.cpp): the readings of the samples*)
(* of each execution of a section, and of the idle times, in JSON.  A list *)
(* is left out of the output if it is empty.                               *)
(***************************************************************************)
EXTENDS Readers

(* A list of the readings of the samples that have one.                    *)
CpuList(readers, samples, l, socket) ==
    LET with == Having(samples, LAMBDA x : CpuHasValue(readers, x, l, socket))
    IN  [i \in DOMAIN with |-> CpuValue(readers, with[i], l, socket)]

(* Mutant: only sockets with package readings.                             *)
CpuOutputPkg(readers, samples) ==
    {[socket |-> s, lists |-> [l \in ToSet(LocationBits) |-> CpuList(readers, samples, l, s)]] :
        s \in {k \in 0..(MaxSockets - 1) : CpuList(readers, samples, "pkg", k) # <<>>}}

CpuOutput(readers, samples) ==
    {[socket |-> s, lists |-> [l \in ToSet(LocationBits) |-> CpuList(readers, samples, l, s)]] :
        s \in {k \in 0..(MaxSockets - 1) :
                  \E l \in ToSet(LocationBits) : CpuList(readers, samples, l, k) # <<>>}}

(* Of a device the energy, or else the power.                              *)
BoardList(readers, samples, d) ==
    LET energy(x) == Gpu!HasBoardEnergy(readers.gpu, x.gpu, d)
        with == Having(samples, LAMBDA x : energy(x) \/ Gpu!HasBoardPower(readers.gpu, x.gpu, d))
    IN  [i \in DOMAIN with |-> IF energy(with[i]) THEN Gpu!BoardEnergy(with[i].gpu, d)
                               ELSE Gpu!BoardPower(with[i].gpu, d)]

GpuOutput(readers, samples) ==
    {[device |-> d, board |-> BoardList(readers, samples, d)] :
        d \in {k \in 0..(Gpu!MaxDevices - 1) : BoardList(readers, samples, k) # <<>>}}

(* readings_output::output() of a section's devices.                       *)
ReadingsOutput(readers, devices, samples) ==
    [times |-> Len(samples),
     cpu |-> IF "cpu" \in ToSet(devices) THEN CpuOutput(readers, samples) ELSE {},
     gpu |-> IF "gpu" \in ToSet(devices) THEN GpuOutput(readers, samples) ELSE {}]

(* gpu_format(): what all the devices of the machine support.              *)
GpuFormat(machine) ==
    LET all == 0..(Gpu!MaxDevices - 1)
        types == Gpu!Support(machine.gpu, all)
    IN  IF Gpu!SupportError(machine.gpu, all) # Fine THEN "none"
        ELSE IF "energy" \in types THEN "energy"
        ELSE IF "power" \in types THEN "power"
        ELSE "none"

SectionOutput(readers, section) ==
    [label |-> section.label, extra |-> section.extra,
     executions |-> [i \in DOMAIN section.executions |->
                        [range |-> section.executions[i].range,
                         readings |-> ReadingsOutput(readers, section.devices,
                                                     section.executions[i].samples)]]]

GroupOutput(readers, group) ==
    [label |-> group.label, extra |-> group.extra,
     sections |-> [i \in DOMAIN group.sections |-> SectionOutput(readers, group.sections[i])]]

ResultsOutput(machine, readers, idle, groups) ==
    [format |-> GpuFormat(machine),
     idle |-> [i \in DOMAIN idle |-> ReadingsOutput(readers, <<idle[i].device>>, idle[i].samples)],
     groups |-> [i \in DOMAIN groups |-> GroupOutput(readers, groups[i])]]
=============================================================================
