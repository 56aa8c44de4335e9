------------------------------ MODULE Sampling ------------------------------
(***************************************************************************)
(* A sampler of one section and the counters it reads.  Each sample is a   *)
(* call of read() of the reader of the section's targets: the reader of    *)
(* the CPU (RaplReader on x86_64, OccReader on ppc64), that of the GPU, or *)
(* the hybrid_reader that calls both in this order and stops at the first  *)
(* that fails.  The sampler of another section calls the same CPU reader.  *)
(*                                                                         *)
(* What Sampler takes for one step, reading and storing a sample, takes    *)
(* many here, while the section, its owner and the counters move on.       *)
(***************************************************************************)
EXTENDS Integers

CONSTANTS Cases,            \* the samplers considered: kind, architecture, targets
          Events, Max, MaxTurns,   \* of RaplReader
          Occs, MaxTicks           \* of OccReader

AllKinds == {"short", "bounded", "unbounded"}

ASSUME CasesAssumption ==
    Cases \subseteq [kind : AllKinds, arch : {"x86_64", "ppc64"},
                     targets : {{"cpu"}, {"gpu"}, {"cpu", "gpu"}}]

VARIABLES kind, open, waiter, finished, opc, wpc, first, last, count, future, got, ub
VARIABLES counter, turns, age, read, prev, ranges, call, raced, late
VARIABLES buffer, tick, pos, bad, reading, overlapped
VARIABLES arch,             \* the architecture compiled for
          targets,          \* the targets of the section
          stage,            \* how far the sampler's call of read() is
          began,            \* history: the phase in which that call began
          lastBegan,        \* history: and that of the last sample stored
          parts,            \* history: the targets that call has read
          partial           \* history: a sample without all targets was stored

Mine == "mine"
Other == "other"
Callers == {Mine, Other}

Sampler == INSTANCE Sampler WITH Kinds <- AllKinds, ReadsFail <- TRUE
Rapl == INSTANCE RaplReader WITH ReadsFail <- TRUE
Occ == INSTANCE OccReader WITH ReadsFail <- TRUE

samplerVars == <<kind, open, waiter, finished, opc, wpc, first, last, count, future, got, ub>>
raplVars == <<counter, turns, age, read, prev, ranges, call, raced, late>>
occVars == <<buffer, tick, pos, bad, reading, overlapped>>
readerVars == <<raplVars, occVars>>
ASSUME CountersAssumption == Rapl!ConstantsOK /\ Occ!ConstantsOK

callVars == <<arch, targets, stage, began, lastBegan, parts, partial>>
vars == <<samplerVars, readerVars, callVars>>

Init ==
    /\ Sampler!Init /\ Rapl!Init /\ Occ!Init
    /\ \E c \in Cases : kind = c.kind /\ arch = c.arch /\ targets = c.targets
    /\ stage = "idle"
    /\ began = Sampler!Before /\ lastBegan = Sampler!Before
    /\ parts = {} /\ partial = FALSE

-----------------------------------------------------------------------------
(* The CPU reader of the architecture; the other one does not exist.       *)
CpuBegin(c) ==
    \/ arch = "x86_64" /\ Rapl!Begin(c) /\ UNCHANGED occVars
    \/ arch = "ppc64" /\ Occ!Begin(c) /\ UNCHANGED raplVars

CpuStep(c) ==
    \/ arch = "x86_64" /\ Rapl!Step(c) /\ UNCHANGED occVars
    \/ arch = "ppc64" /\ Occ!Step(c) /\ UNCHANGED raplVars

CpuEnd(c) ==
    \/ arch = "x86_64" /\ Rapl!End(c) /\ UNCHANGED occVars
    \/ arch = "ppc64" /\ Occ!End(c) /\ UNCHANGED raplVars

CpuFailed(c) == IF arch = "x86_64" THEN call[c].at = "failed" ELSE reading[c].at = "failed"

-----------------------------------------------------------------------------
(* The sampler's call of read().                                           *)

ShortReads == kind = "short" /\ (opc = "created" \/ (opc = "section" /\ future = "none"))

ThreadReads == wpc \in {"first", "last", "final"} /\ Sampler!DerivedAlive

(* The section has ended when the owner has called results().              *)
PhaseNow == IF kind = "short" /\ opc = "section" THEN Sampler!After ELSE Sampler!Phase

ReadBegin ==
    /\ stage = "idle"
    /\ ShortReads \/ ThreadReads
    /\ began' = PhaseNow
    /\ parts' = {}
    /\ \/ "cpu" \in targets /\ stage' = "cpu" /\ CpuBegin(Mine)
       \/ "cpu" \notin targets /\ stage' = "gpu" /\ UNCHANGED readerVars
    /\ UNCHANGED <<samplerVars, arch, targets, lastBegan, partial>>

ReadCpu ==
    /\ stage = "cpu"
    /\ CpuStep(Mine)
    /\ UNCHANGED <<samplerVars, callVars>>

(* Mutant: the second reader is called even if the first one has failed,   *)
(* and its result is the one returned.                                     *)
ReadCpuEndIgnored ==
    /\ stage = "cpu"
    /\ CpuEnd(Mine)
    /\ stage' = IF "gpu" \in targets THEN "gpu" ELSE IF CpuFailed(Mine) THEN "failed" ELSE "ok"
    /\ parts' = IF CpuFailed(Mine) THEN parts ELSE parts \cup {"cpu"}
    /\ UNCHANGED <<samplerVars, arch, targets, began, lastBegan, partial>>

ReadCpuEnd ==
    /\ stage = "cpu"
    /\ CpuEnd(Mine)
    /\ stage' = IF CpuFailed(Mine) THEN "failed" ELSE IF "gpu" \in targets THEN "gpu" ELSE "ok"
    /\ parts' = IF CpuFailed(Mine) THEN parts ELSE parts \cup {"cpu"}
    /\ UNCHANGED <<samplerVars, arch, targets, began, lastBegan, partial>>

(* One call of the vendor's library for each active event; nothing shared. *)
ReadGpu ==
    /\ stage = "gpu"
    /\ \/ stage' = "ok" /\ parts' = parts \cup {"gpu"}
       \/ stage' = "failed" /\ UNCHANGED parts
    /\ UNCHANGED <<samplerVars, readerVars, arch, targets, began, lastBegan, partial>>

(* The sample is stored, or the error is.                                  *)
ReadEnd ==
    /\ stage \in {"ok", "failed"}
    /\ stage' = "idle"
    /\ \/ Sampler!RunShort /\ (stage = "failed") = (future' = "error")
       \/ Sampler!ResultsShort /\ (stage = "failed") = (got' = "error")
       \/ \E place \in {"first", "last", "final"} :
              /\ Sampler!ReadSample(place)
              /\ Sampler!DerivedAlive => (stage = "failed") = (future' = "error")
    /\ lastBegan' = IF stage = "ok" THEN began ELSE lastBegan
    /\ partial' = (partial \/ (stage = "ok" /\ parts # targets))
    /\ UNCHANGED <<readerVars, arch, targets, began, parts>>

-----------------------------------------------------------------------------
(* The rest of the sampler; an owner in read() does nothing else.          *)

OwnerStep ==
    /\ kind = "short" => stage = "idle"
    /\ \/ Sampler!RunPeriodic \/ Sampler!ResultsFinish \/ Sampler!Destroy
       \/ kind = "short" /\ future = "error" /\ Sampler!ResultsShort
    /\ UNCHANGED <<readerVars, callVars>>

OwnerFinish == Sampler!Finish /\ UNCHANGED <<readerVars, callVars>>

ThreadStep ==
    /\ stage = "idle"
    /\ \/ Sampler!Start \/ Sampler!Check \/ Sampler!WaitForBegin \/ Sampler!WaitForEnd \/ Sampler!Done
       \/ /\ ~Sampler!DerivedAlive
          /\ \E place \in {"first", "last", "final"} : Sampler!ReadSample(place)
    /\ UNCHANGED <<readerVars, callVars>>

Gone == Sampler!Gone /\ UNCHANGED vars

(* The sampler of another section that shares the CPU reader, and the      *)
(* machine.                                                                *)
OtherStep ==
    /\ "cpu" \in targets
    /\ CpuBegin(Other) \/ CpuStep(Other) \/ CpuEnd(Other)
    /\ UNCHANGED <<samplerVars, callVars>>

Machine ==
    /\ \/ arch = "x86_64" /\ (\E e \in 1..Events : Rapl!Consume(e)) /\ UNCHANGED occVars
       \/ /\ arch = "ppc64" /\ UNCHANGED raplVars
          /\ \E o \in 1..Occs, s \in {"ping", "pong"} : Occ!Invalidate(o, s) \/ Occ!Publish(o, s)
    /\ UNCHANGED <<samplerVars, callVars>>

Reading == ReadBegin \/ ReadCpu \/ ReadCpuEnd \/ ReadGpu \/ ReadEnd

Next == Reading \/ OwnerStep \/ OwnerFinish \/ ThreadStep \/ OtherStep \/ Machine \/ Gone

Spec == Init /\ [][Next]_vars

(* An owner in results() or in the destructor, the thread, and a call of   *)
(* read() that was begun keep running.                                     *)
FairSpec == Spec /\ WF_vars(OwnerFinish) /\ WF_vars(ThreadStep) /\ WF_vars(Reading)

-----------------------------------------------------------------------------
TypeOK ==
    /\ Sampler!TypeOK /\ Rapl!TypeOK /\ Occ!TypeOK
    /\ [kind |-> kind, arch |-> arch, targets |-> targets] \in Cases
    /\ stage \in {"idle", "cpu", "gpu", "ok", "failed"}
    /\ began \in Sampler!Phases /\ lastBegan \in Sampler!Phases
    /\ parts \subseteq targets /\ partial \in BOOLEAN

(* Results have no sample that lacks a target: a hybrid_reader that failed *)
(* half way leaves its sample to be dropped, and its error to be returned. *)
ResultsHaveAllTargets == got = "ok" => ~partial

(* CoversSectionEnd of Sampler, and more: the last sample of a short or an *)
(* unbounded sampler is not merely stored after the section, its reading   *)
(* of the counters began after it.                                         *)
CoversSectionEnd ==
    Sampler!CoversSectionEnd /\ (got = "ok" /\ kind # "bounded" => lastBegan = Sampler!After)

(* As in Sampler, here of the sampler with its reader: only a thread whose *)
(* sampler was destroyed uncollected uses a destroyed member.              *)
CollectedIsSafe == Sampler!CollectedIsSafe

(* As in Sampler: samples given away are not written any more, not even by *)
(* a read that was already under way.                                      *)
FrozenWhenCollected == Sampler!FrozenWhenCollected

(* As in Sampler: results() returns, once the read under way has.          *)
ResultsReturn == Sampler!ResultsReturn

(* As in Sampler: the destructor returns, once the read under way has.     *)
DestructorReturns == Sampler!DestructorReturns

(* As in RaplReader: samples have all the ranges their counters wrapped.   *)
WrapsAccumulated == Rapl!WrapsAccumulated

(* As in OccReader: samples have records of their controllers, at most one *)
(* behind, or torn.                                                        *)
RecordFresh == Occ!RecordFresh
=============================================================================
