------------------------------ MODULE GpuEvents ------------------------------
(***************************************************************************)
(* The events of the GPU reader (nrg/src/nvidia/reader_gpu.cpp,            *)
(* nrg/src/amd/reader_gpu.cpp, nrg/src/common/gpu): which readings a set of*)
(* devices supports, which events the constructor makes for a mask, and    *)
(* how a reading of a sample is taken.                                     *)
(*                                                                         *)
(* A machine has a "vendor", whether its "library" starts and "counts" the *)
(* devices, and "devices", of which device d is the (d + 1)-th: what it    *)
(* answers, "yes", "no" or "error", when it is asked for a type of reading.*)
(***************************************************************************)
EXTENDS Checks, FiniteSets

CONSTANT EnergyBits       \* width of an energy reading in millijoules, 32 in the code

MaxDevices == 8
ReadingTypes == {"power", "energy"}

assert_device_count(gpu) ==
    FirstError(<<Check(Len(gpu.devices) > MaxDevices, "too_many_devices"),
                 Check(gpu.devices = <<>>, "no_devices_found")>>)

lib_handle(gpu) == Check(~gpu.library, "library")

get_device_count(gpu) ==
    FirstError(<<Check(~gpu.counts, "library"), assert_device_count(gpu)>>)

Chosen(gpu, mask) == {d \in mask : d < Len(gpu.devices)}

(* support(handle).  ROCm has no energy readings.                          *)
Asked(gpu) == IF gpu.vendor = "nvidia" THEN ReadingTypes ELSE {"power"}

DeviceTypes(gpu, d) == {t \in Asked(gpu) : gpu.devices[d + 1][t] = "yes"}

DeviceFails(gpu, d) == \E t \in Asked(gpu) : gpu.devices[d + 1][t] = "error"

(* Mutant: what some of the devices support.                               *)
CommonTypesUnion(gpu, mask) == {t \in ReadingTypes : \E d \in Chosen(gpu, mask) : t \in DeviceTypes(gpu, d)}

(* What all of them support: everything, if there is none of them.         *)
CommonTypes(gpu, mask) == {t \in ReadingTypes : \A d \in Chosen(gpu, mask) : t \in DeviceTypes(gpu, d)}

SupportError(gpu, mask) ==
    IF gpu.vendor = "none" THEN Fine
    ELSE FirstError(<<Check(mask = {}, "invalid_device_mask"),
                      lib_handle(gpu),
                      get_device_count(gpu),
                      Check(\E d \in Chosen(gpu, mask) : DeviceFails(gpu, d), "library"),
                      Check(CommonTypes(gpu, mask) = {}, "readings_not_supported")>>)

Support(gpu, mask) == IF gpu.vendor = "none" THEN {} ELSE CommonTypes(gpu, mask)

(* The constructor, for some types of readings.                            *)
GpuReaderOf(gpu, types, mask) ==
    LET events == {e \in Chosen(gpu, mask) \X types :
                      e[2] \in DeviceTypes(gpu, e[1]) \cap Support(gpu, mask)}
        error == FirstError(<<SupportError(gpu, mask), Check(events = {}, "no_events_added")>>)
    IN  IF gpu.vendor = "none" THEN [error |-> Fine, vendor |-> "none", events |-> {}]
        ELSE [error |-> error, vendor |-> gpu.vendor, events |-> events]

-----------------------------------------------------------------------------
(* A sample has a reading of each event; a reading of 0 is none.  An energy*)
(* is read with 64 bits and returned with EnergyBits.                      *)
HasReading(reader, sample, t, d) == <<d, t>> \in reader.events /\ sample[<<d, t>>] # 0

HasBoardEnergy(reader, sample, d) == reader.vendor = "nvidia" /\ HasReading(reader, sample, "energy", d)

BoardEnergy(sample, d) == sample[<<d, "energy">>] % 2^EnergyBits

HasBoardPower(reader, sample, d) == HasReading(reader, sample, "power", d)

BoardPower(sample, d) == sample[<<d, "power">>]
=============================================================================
