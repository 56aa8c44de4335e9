--------------------------- MODULE SamplingProofs ---------------------------
(***************************************************************************)
(* A sampler whose reads take many steps, among other samplers and moving  *)
(* counters, is still a Sampler, and the readers it calls are RaplReader   *)
(* and OccReader: what was proved of those readers holds here.  Beyond     *)
(* that, a call of read() that ends in the last sample of a section began  *)
(* after the section, and stores all targets or nothing.                   *)
(***************************************************************************)
EXTENDS Sampling, TLAPS

RP == INSTANCE RaplReaderProofs WITH ReadsFail <- TRUE
OP == INSTANCE OccReaderProofs WITH ReadsFail <- TRUE

-----------------------------------------------------------------------------
(* What a step is for the readers, and what it is for the sampler.         *)
LEMMA ReaderStep ==
  ASSUME [Next]_vars
  PROVE  UNCHANGED readerVars \/ Machine \/ \E c \in Callers : CpuBegin(c) \/ CpuStep(c) \/ CpuEnd(c)
  <1> USE DEF Callers
  <1>1. CASE UNCHANGED vars
    BY <1>1 DEF vars
  <1>2. CASE Reading
    BY <1>2 DEF Reading, ReadBegin, ReadCpu, ReadCpuEnd, ReadGpu, ReadEnd
  <1>3. CASE OwnerStep \/ OwnerFinish \/ ThreadStep
    BY <1>3 DEF OwnerStep, OwnerFinish, ThreadStep
  <1>4. CASE OtherStep
    BY <1>4 DEF OtherStep
  <1>5. CASE Gone
    BY <1>1, <1>5 DEF Gone
  <1> QED BY <1>1, <1>2, <1>3, <1>4, <1>5 DEF Next

(* A step of either reader is a step of its module, or none.               *)
LEMMA RaplStep == ASSUME [Next]_vars PROVE [RP!Next]_(RP!vars)
  <1>1. CASE UNCHANGED raplVars
    BY <1>1 DEF raplVars, RP!vars
  <1>2. ASSUME NEW e \in 1..Events, Rapl!Consume(e) PROVE RP!Next
    <2>1. RP!Consume(e)
      BY <1>2 DEF Rapl!Consume, RP!Consume, Rapl!Unread, RP!Unread
    <2> QED BY <2>1 DEF RP!Next, RP!Event
  <1>3. ASSUME NEW c \in Callers, Rapl!Begin(c) \/ Rapl!Step(c) \/ Rapl!End(c) PROVE RP!Next
    <2> USE DEF Rapl!Idle, RP!Idle, Rapl!NoSample, RP!NoSample, Rapl!Event, RP!Event
    <2>1. CASE Rapl!Begin(c)
      BY <2>1 DEF Rapl!Begin, RP!Begin, Rapl!Busy, RP!Busy, RP!Next
    <2>2. CASE Rapl!Load(c)
      BY <2>2 DEF Rapl!Load, RP!Load, RP!Step, RP!Next
    <2>3. CASE Rapl!Compare(c)
      BY <2>3 DEF Rapl!Compare, RP!Compare, RP!Step, RP!Next
    <2>4. CASE Rapl!Accumulate(c)
      BY <2>4 DEF Rapl!Accumulate, RP!Accumulate, RP!Step, RP!Next
    <2>5. CASE Rapl!Store(c)
      BY <2>5 DEF Rapl!Store, RP!Store, RP!Step, RP!Next
    <2>6. CASE Rapl!End(c)
      BY <2>6 DEF Rapl!End, RP!End, RP!Next
    <2> QED BY <1>3, <2>1, <2>2, <2>3, <2>4, <2>5, <2>6 DEF Rapl!Step
  <1> QED BY <1>1, <1>2, <1>3, ReaderStep DEF readerVars, Machine, CpuBegin, CpuStep, CpuEnd

LEMMA OccStep == ASSUME [Next]_vars PROVE [OP!Next]_(OP!vars)
  <1>1. CASE UNCHANGED occVars
    BY <1>1 DEF occVars, OP!vars
  <1>2. ASSUME NEW o \in 1..Occs, NEW s \in {"ping", "pong"}, Occ!Invalidate(o, s) \/ Occ!Publish(o, s)
        PROVE  OP!Next
    <2> USE DEF Occ!Sides, OP!Sides, Occ!Torn, OP!Torn
    <2>1. OP!Invalidate(o, s) \/ OP!Publish(o, s)
      BY <1>2 DEF Occ!Invalidate, OP!Invalidate, Occ!Publish, OP!Publish
    <2> QED BY <2>1 DEF OP!Next, OP!Occ
  <1>3. ASSUME NEW c \in Callers, Occ!Begin(c) \/ Occ!Step(c) \/ Occ!End(c) PROVE OP!Next
    <2> USE DEF Occ!Free, OP!Free, Occ!Garbage, OP!Garbage, Occ!Nothing, OP!Nothing, Occ!Occ, OP!Occ,
                Occ!Sides, OP!Sides, Occ!Torn, OP!Torn, Occ!Elsewhere, OP!Elsewhere
    <2>1. CASE Occ!Begin(c)
      BY <2>1 DEF Occ!Begin, OP!Begin, Occ!InRead, OP!InRead, OP!Next
    <2>2. CASE Occ!Seek(c)
      BY <2>2 DEF Occ!Seek, OP!Seek, OP!Step, OP!Next
    <2>3. CASE Occ!CopyFlag(c) \/ Occ!CopyRecord(c) \/ Occ!CopyFails(c)
      <3>1. OP!CopyFlag(c) \/ OP!CopyRecord(c) \/ OP!CopyFails(c)
        BY <2>3 DEF Occ!CopyFlag, OP!CopyFlag, Occ!CopyRecord, OP!CopyRecord, Occ!CopyFails, OP!CopyFails
      <3> QED BY <3>1 DEF OP!Step, OP!Next
    <2>4. CASE Occ!Store(c)
      BY <2>4 DEF Occ!Store, OP!Store, Occ!Chosen, OP!Chosen, OP!Step, OP!Next
    <2>5. CASE Occ!End(c)
      BY <2>5 DEF Occ!End, OP!End, OP!Next
    <2> QED BY <1>3, <2>1, <2>2, <2>3, <2>4, <2>5 DEF Occ!Step
  <1> QED BY <1>1, <1>2, <1>3, ReaderStep DEF readerVars, Machine, CpuBegin, CpuStep, CpuEnd

(* A step is one of the sampler, or leaves the sampler alone.              *)
LEMMA SamplerStep == ASSUME [Next]_vars PROVE [Sampler!Next]_(Sampler!vars)
  <1> USE DEF Sampler!Next, Sampler!Run, Sampler!Results, Sampler!Finish, Sampler!Thread
  <1>1. CASE UNCHANGED samplerVars
    BY <1>1 DEF samplerVars, Sampler!vars
  <1>2. CASE Reading
    BY <1>1, <1>2 DEF Reading, ReadBegin, ReadCpu, ReadCpuEnd, ReadGpu, ReadEnd
  <1>3. CASE OwnerStep \/ OwnerFinish
    BY <1>3 DEF OwnerStep, OwnerFinish
  <1>4. CASE ThreadStep
    BY <1>4 DEF ThreadStep
  <1>5. CASE OtherStep \/ Machine
    BY <1>1, <1>5 DEF OtherStep, Machine
  <1>6. CASE Gone
    BY <1>6 DEF Gone
  <1> QED BY <1>1, <1>2, <1>3, <1>4, <1>5, <1>6 DEF Next, vars

(* The readers begin as their modules say.                                 *)
LEMMA RaplInit == Init => RP!Init
  BY DEF Init, Rapl!Init, RP!Init, Rapl!Idle, RP!Idle, Rapl!NoSample, RP!NoSample, Rapl!Event, RP!Event,
         Rapl!Unread, RP!Unread

LEMMA OccInit == Init => OP!Init
  BY DEF Init, Occ!Init, OP!Init, Occ!Free, OP!Free, Occ!Garbage, OP!Garbage, Occ!Nothing, OP!Nothing, Occ!Occ, OP!Occ,
         Occ!Sides, OP!Sides, Occ!Torn, OP!Torn, Occ!Elsewhere, OP!Elsewhere

-----------------------------------------------------------------------------
(* A sampler with its readers is a sampler: reading and storing a sample   *)
(* may be thought of as one step.                                          *)
THEOREM SamplingImplementsSampler == Spec => Sampler!Spec
  <1>1. Init => Sampler!Init
    BY DEF Init
  <1>2. [Next]_vars => [Sampler!Next]_(Sampler!vars)
    BY SamplerStep
  <1> QED BY <1>1, <1>2, PTL DEF Spec, Sampler!Spec

(* As in RaplReader, here of a reader that samplers call.                  *)
THEOREM SamplingWrapsAccumulated == Spec => []WrapsAccumulated
  <1>1. RP!ConstantsOK
    BY CountersAssumption DEF RP!ConstantsOK, Rapl!ConstantsOK
  <1>2. Spec => RP!Spec
    BY RaplInit, RaplStep, PTL DEF Spec, RP!Spec
  <1>3. RP!Spec => []RP!WrapsAccumulated
    BY <1>1, RP!RaplWrapsAccumulated
  <1>4. RP!WrapsAccumulated => WrapsAccumulated
    BY DEF RP!WrapsAccumulated, WrapsAccumulated, Rapl!WrapsAccumulated, Rapl!Event, RP!Event
  <1> QED BY <1>2, <1>3, <1>4, PTL

(* As in OccReader, here of a reader that samplers call.                   *)
THEOREM SamplingRecordFresh == Spec => []RecordFresh
  <1>1. OP!ConstantsOK
    BY CountersAssumption DEF OP!ConstantsOK, Occ!ConstantsOK
  <1>2. Spec => OP!Spec
    BY OccInit, OccStep, PTL DEF Spec, OP!Spec
  <1>3. OP!Spec => []OP!RecordFresh
    BY <1>1, OP!OccRecordFresh
  <1>4. OP!RecordFresh => RecordFresh
    BY DEF OP!RecordFresh, RecordFresh, Occ!RecordFresh, Occ!Occ, OP!Occ, Occ!Torn, OP!Torn
  <1> QED BY <1>2, <1>3, <1>4, PTL

-----------------------------------------------------------------------------
(* The invariant of the sampler.  The thread of an unbounded sampler only  *)
(* takes its final sample when it has seen _finished, which is only set    *)
(* after the section; and a result that was handed over means that the     *)
(* thread has ended.                                                       *)

(* A short sampler: no thread, one sample by run() and one by results().   *)
ShortOK ==
    kind = "short" =>
        /\ wpc = "none" /\ ~ub
        /\ opc \in {"created", "section", "collected", "gone"}
        /\ opc = "created" => count = 0 /\ future = "none"
        /\ opc \in {"created", "section"} => got = "none"
        /\ opc = "section" /\ future = "none" => count = 1
        /\ got = "ok" => count >= 2 /\ last = Sampler!After

(* The thread of a periodic sampler has ended when there is a result.      *)
HandoverOK ==
    Sampler!Periodic =>
        /\ wpc # "none"
        /\ future # "none" => wpc = "ended"
        /\ got # "none" => got = future /\ opc \in {"collected", "gone"}
        /\ finished => opc \notin {"created", "section", "derived"}
        /\ ub => wpc = "crashed"

(* How far the thread of an unbounded sampler is, and what it has stored.  *)
UnboundedOK ==
    kind = "unbounded" =>
        /\ wpc # "last"
        /\ wpc \in {"begin", "sleep", "check", "final", "done"} => count >= 1
        /\ wpc \in {"final", "done"} => finished
        /\ wpc = "done" \/ future = "ok" => count >= 2 /\ last = Sampler!After

SamplerInv == Sampler!TypeOK /\ ShortOK /\ HandoverOK /\ UnboundedOK

-----------------------------------------------------------------------------
(* The initial state satisfies the invariant.                              *)
LEMMA SamplerInvInit == Sampler!Init => SamplerInv
  <1> SUFFICES ASSUME Sampler!Init PROVE SamplerInv
    OBVIOUS
  <1> USE DEF Sampler!Init, AllKinds, Sampler!Periodic
  <1>1. Sampler!TypeOK
    <2>1. waiter \in [{Sampler!Worker} -> Sampler!Sig!Modes \cup {"none"}]
      BY DEF Sampler!Sig!Modes
    <2>2. Sampler!Sig!TypeOK
      BY <2>1 DEF Sampler!Sig!TypeOK
    <2>3. 0 \in 0..Sampler!Many
      BY DEF Sampler!Many
    <2> QED BY <2>2, <2>3 DEF Sampler!TypeOK
  <1>2. ShortOK /\ HandoverOK /\ UnboundedOK
    BY DEF ShortOK, HandoverOK, UnboundedOK
  <1> QED BY <1>1, <1>2 DEF SamplerInv

(* A vector that grows has one more sample, up to Many.                    *)
LEMMA GrownBounds ==
  ASSUME count \in 0..Sampler!Many
  PROVE  Sampler!Grown \in 0..Sampler!Many /\ (count >= 1 => Sampler!Grown >= 2)
  BY DEF Sampler!Grown, Sampler!Many

(* The phase of a sample.                                                  *)
LEMMA PhaseBounds == Sampler!Phase \in Sampler!Phases /\ (opc \notin {"created",
     "section"} => Sampler!Phase = Sampler!After)
  BY DEF Sampler!Phase, Sampler!Phases

(* The owner's steps preserve the invariant.                               *)
LEMMA OwnerInvStep ==
  ASSUME SamplerInv, Sampler!Run \/ Sampler!Results \/ Sampler!Finish \/ Sampler!Destroy
  PROVE  SamplerInv'
  <1> USE DEF SamplerInv, ShortOK, HandoverOK, UnboundedOK, Sampler!Periodic
  <1>t. Sampler!TypeOK'
    <2> USE DEF Sampler!TypeOK, Sampler!Sig!TypeOK, Sampler!Sig!Post
    <2>1. CASE Sampler!RunPeriodic
      BY <2>1 DEF Sampler!RunPeriodic
    <2>2. CASE Sampler!RunShort
      BY <2>2 DEF Sampler!RunShort, Sampler!Phases, Sampler!Many
    <2>3. CASE Sampler!ResultsShort
      BY <2>3, GrownBounds DEF Sampler!ResultsShort, Sampler!Phases
    <2>4. CASE Sampler!ResultsFinish
      BY <2>4 DEF Sampler!ResultsFinish
    <2>5. CASE Sampler!ResultsPost
      BY <2>5 DEF Sampler!ResultsPost
    <2>6. CASE Sampler!ResultsGet
      BY <2>6 DEF Sampler!ResultsGet
    <2>7. CASE Sampler!Destroy
      BY <2>7 DEF Sampler!Destroy
    <2>8. CASE Sampler!DestroyFinish
      BY <2>8 DEF Sampler!DestroyFinish
    <2>9. CASE Sampler!DestroyPost
      BY <2>9 DEF Sampler!DestroyPost
    <2>10. CASE Sampler!DestroyWait
      BY <2>10 DEF Sampler!DestroyWait
    <2> QED BY <2>1, <2>2, <2>3, <2>4, <2>5, <2>6, <2>7, <2>8, <2>9, <2>10 DEF Sampler!Run, Sampler!Results,
         Sampler!Finish
  <1>1. CASE Sampler!RunPeriodic
    BY <1>t, <1>1 DEF Sampler!RunPeriodic
  <1>2. CASE Sampler!RunShort
    BY <1>t, <1>2 DEF Sampler!RunShort
  <1>3. CASE Sampler!ResultsShort
    <2>1. count \in 0..Sampler!Many
      BY DEF Sampler!TypeOK
    <2> QED BY <1>t, <1>3, <2>1, GrownBounds DEF Sampler!ResultsShort
  <1>4. CASE Sampler!ResultsFinish
    BY <1>t, <1>4 DEF Sampler!ResultsFinish
  <1>5. CASE Sampler!ResultsPost
    BY <1>t, <1>5 DEF Sampler!ResultsPost
  <1>6. CASE Sampler!ResultsGet
    BY <1>t, <1>6 DEF Sampler!ResultsGet
  <1>7. CASE Sampler!Destroy
    BY <1>t, <1>7 DEF Sampler!Destroy
  <1>8. CASE Sampler!DestroyFinish
    BY <1>t, <1>8 DEF Sampler!DestroyFinish
  <1>9. CASE Sampler!DestroyPost
    BY <1>t, <1>9 DEF Sampler!DestroyPost
  <1>10. CASE Sampler!DestroyWait
    BY <1>t, <1>10 DEF Sampler!DestroyWait
  <1> QED BY <1>1, <1>2, <1>3, <1>4, <1>5, <1>6, <1>7, <1>8, <1>9, <1>10 DEF Sampler!Run, Sampler!Results,
       Sampler!Finish

(* The steps of the thread preserve the invariant.                         *)
LEMMA ThreadInvStep ==
  ASSUME SamplerInv, Sampler!Thread
  PROVE  SamplerInv'
  <1> USE DEF SamplerInv, ShortOK, HandoverOK, UnboundedOK, Sampler!Periodic
  <1>1. CASE Sampler!Start
    BY <1>1 DEF Sampler!Start, Sampler!Sig!Leave, Sampler!TypeOK, Sampler!Sig!TypeOK
  <1>2. CASE Sampler!Check
    BY <1>2 DEF Sampler!Check, Sampler!TypeOK, Sampler!Sig!TypeOK
  <1>3. CASE Sampler!WaitForBegin
    BY <1>3 DEF Sampler!WaitForBegin, Sampler!Sig!Begin, Sampler!TypeOK, Sampler!Sig!TypeOK, Sampler!Sig!Modes
  <1>4. CASE Sampler!WaitForEnd
    BY <1>4 DEF Sampler!WaitForEnd, Sampler!Sig!Leave, Sampler!TypeOK, Sampler!Sig!TypeOK
  <1>5. CASE Sampler!Done
    <2>1. CASE Sampler!DerivedAlive
      BY <1>5, <2>1 DEF Sampler!Done, Sampler!TypeOK, Sampler!Sig!TypeOK
    <2>2. CASE ~Sampler!DerivedAlive
      BY <1>5, <2>2 DEF Sampler!Done, Sampler!TypeOK, Sampler!Sig!TypeOK
    <2> QED BY <2>1, <2>2
  <1>6. ASSUME NEW place \in {"first", "last", "final"}, Sampler!ReadSample(place) PROVE SamplerInv'
    <2>1. CASE ~Sampler!DerivedAlive
      BY <1>6, <2>1 DEF Sampler!ReadSample, Sampler!TypeOK, Sampler!Sig!TypeOK
    <2>2. CASE Sampler!DerivedAlive /\ future' = "error" /\ UNCHANGED <<first, last, count>> /\ wpc' = "ended"
      BY <1>6, <2>2 DEF Sampler!ReadSample, Sampler!TypeOK, Sampler!Sig!TypeOK
    <2>3. CASE Sampler!DerivedAlive /\ Sampler!Store(place) /\ wpc' = Sampler!AfterRead(place) /\ UNCHANGED future
      <3>1. count \in 0..Sampler!Many
        BY DEF Sampler!TypeOK
      <3>2. Sampler!TypeOK'
        BY <1>6, <2>3, <3>1, GrownBounds, PhaseBounds DEF Sampler!ReadSample, Sampler!Store, Sampler!AfterRead,
             Sampler!TypeOK, Sampler!Sig!TypeOK, Sampler!Many
      <3>3. ShortOK' /\ HandoverOK'
        BY <1>6, <2>3 DEF Sampler!ReadSample, Sampler!AfterRead
      <3>4. UnboundedOK'
        <4>1. CASE place = "final"
          BY <1>6, <2>3, <3>1, <4>1, GrownBounds, PhaseBounds DEF Sampler!ReadSample, Sampler!Store,
               Sampler!AfterRead
        <4>2. CASE place = "first"
          <5>1. kind = "unbounded" => count' = Sampler!Grown /\ Sampler!Grown >= 1 /\ wpc' = "begin"
            BY <2>3, <3>1, <4>2 DEF Sampler!Store, Sampler!AfterRead, Sampler!Grown, Sampler!Many
          <5> QED BY <1>6, <4>2, <5>1 DEF Sampler!ReadSample
        <4>3. CASE place = "last"
          BY <1>6, <4>3 DEF Sampler!ReadSample
        <4> QED BY <4>1, <4>2, <4>3
      <3> QED BY <3>2, <3>3, <3>4
    <2> QED BY <1>6, <2>1, <2>2, <2>3 DEF Sampler!ReadSample
  <1> QED BY <1>1, <1>2, <1>3, <1>4, <1>5, <1>6 DEF Sampler!Thread

(* Every step preserves the invariant.                                     *)
LEMMA SamplerInvStep == SamplerInv /\ [Sampler!Next]_(Sampler!vars) => SamplerInv'
  <1> SUFFICES ASSUME SamplerInv, [Sampler!Next]_(Sampler!vars) PROVE SamplerInv'
    OBVIOUS
  <1>1. CASE UNCHANGED Sampler!vars
    BY <1>1 DEF Sampler!vars, SamplerInv, Sampler!TypeOK, Sampler!Sig!TypeOK, ShortOK, HandoverOK, UnboundedOK,
         Sampler!Periodic
  <1>2. CASE Sampler!Gone
    BY <1>1, <1>2 DEF Sampler!Gone
  <1> QED BY <1>1, <1>2, OwnerInvStep, ThreadInvStep DEF Sampler!Next

(* Nothing writes the samples once they were handed over.                  *)
LEMMA FrozenStep ==
  ASSUME SamplerInv, [Sampler!Next]_(Sampler!vars), got # "none"
  PROVE  UNCHANGED <<first, last, count>>
  <1>1. opc \in {"collected", "gone"} /\ wpc \in {"none", "ended"} /\ (kind = "short" \/ Sampler!Periodic)
    BY DEF AllKinds, SamplerInv, ShortOK, HandoverOK, Sampler!TypeOK, Sampler!Periodic
  <1>2. CASE Sampler!Thread
    BY <1>1, <1>2 DEF Sampler!Thread, Sampler!Start, Sampler!ReadSample, Sampler!Check, Sampler!WaitForBegin,
         Sampler!WaitForEnd, Sampler!Done
  <1>3. CASE Sampler!Run \/ Sampler!Results \/ Sampler!Finish \/ Sampler!Destroy
    BY <1>1, <1>3 DEF Sampler!Run, Sampler!Results, Sampler!Finish, Sampler!RunPeriodic, Sampler!RunShort,
         Sampler!ResultsShort, Sampler!ResultsFinish, Sampler!ResultsPost,
         Sampler!ResultsGet, Sampler!Destroy, Sampler!DestroyFinish, Sampler!DestroyPost, Sampler!DestroyWait
  <1>4. CASE Sampler!Gone \/ UNCHANGED Sampler!vars
    BY <1>4 DEF Sampler!Gone, Sampler!vars
  <1> QED BY <1>2, <1>3, <1>4 DEF Sampler!Next

(* What the invariant says of a result.                                    *)
LEMMA SamplerInvMeans == SamplerInv => Sampler!CoversSectionEnd /\ Sampler!CollectedIsSafe
  BY DEF AllKinds, SamplerInv, Sampler!TypeOK, ShortOK, HandoverOK, UnboundedOK, Sampler!Periodic,
       Sampler!CoversSectionEnd, Sampler!CollectedIsSafe

(* The invariant holds in every behaviour of a sampler, with readers of    *)
(* its own or without.                                                     *)
LEMMA SamplerAlways == Sampler!Spec => []SamplerInv
  <1> QED BY SamplerInvInit, SamplerInvStep, PTL DEF Sampler!Spec

LEMMA SamplingAlways == Spec => []SamplerInv
  <1> QED BY SamplerAlways, SamplingImplementsSampler, PTL

(* Type correctness of a sampler of any kind whose reads may fail.         *)
THEOREM SamplerTypeOK == Sampler!Spec => []Sampler!TypeOK
  <1>1. SamplerInv => Sampler!TypeOK
    BY DEF SamplerInv
  <1> QED BY <1>1, SamplerAlways, PTL

(* The results of a short or an unbounded sampler have two samples at      *)
(* least, the last of which was stored after the section.                  *)
THEOREM SamplerCoversSectionEnd == Sampler!Spec => []Sampler!CoversSectionEnd
  <1> QED BY SamplerInvMeans, SamplerAlways, PTL

(* Only a thread whose sampler was destroyed uncollected uses its members  *)
(* after that.                                                             *)
THEOREM SamplerCollectedIsSafe == Sampler!Spec => []Sampler!CollectedIsSafe
  <1> QED BY SamplerInvMeans, SamplerAlways, PTL

(* Samples that results() gave away are not written any more.              *)
THEOREM SamplerFrozenWhenCollected == Sampler!Spec => Sampler!FrozenWhenCollected
  <1>1. SamplerInv /\ [Sampler!Next]_(Sampler!vars)
          => [got # "none" => UNCHANGED <<first, last, count>>]_(Sampler!vars)
    BY FrozenStep
  <1> QED BY <1>1, SamplerAlways, PTL DEF Sampler!Spec, Sampler!FrozenWhenCollected

(* As in Sampler: a thread that outlives its sampler was never collected.  *)
THEOREM SamplingCollectedIsSafe == Spec => []CollectedIsSafe
  <1> QED BY SamplerCollectedIsSafe, SamplingImplementsSampler DEF CollectedIsSafe

(* As in Sampler: samples given away are not written any more.             *)
THEOREM SamplingFrozenWhenCollected == Spec => FrozenWhenCollected
  <1> QED BY SamplerFrozenWhenCollected, SamplingImplementsSampler DEF FrozenWhenCollected

-----------------------------------------------------------------------------
(* A call of read() has read, or is yet to read, each target of its section. *)
PartsOK ==
    /\ targets \in {{"cpu"}, {"gpu"}, {"cpu", "gpu"}}
    /\ stage = "cpu" => "cpu" \in targets /\ parts = {}
    /\ stage = "gpu" => "gpu" \in targets /\ parts = targets \ {"gpu"}
    /\ stage = "ok" => parts = targets
    /\ parts \subseteq targets /\ partial = FALSE

(* The initial state and every step.                                       *)
LEMMA PartsInit == Init => PartsOK
  <1> SUFFICES ASSUME Init PROVE PartsOK
    OBVIOUS
  <1>1. PICK c \in Cases : targets = c.targets
    BY DEF Init
  <1>2. c.targets \in {{"cpu"}, {"gpu"}, {"cpu", "gpu"}}
    BY CasesAssumption
  <1> QED BY <1>1, <1>2 DEF Init, PartsOK

LEMMA PartsStep == PartsOK /\ [Next]_vars => PartsOK'
  <1> SUFFICES ASSUME PartsOK, [Next]_vars PROVE PartsOK'
    OBVIOUS
  <1>1. CASE UNCHANGED callVars
    BY <1>1 DEF callVars, PartsOK
  <1>2. CASE ReadBegin
    BY <1>2 DEF ReadBegin, PartsOK
  <1>3. CASE ReadCpuEnd
    <2>1. CpuFailed(Mine) => stage' = "failed" /\ parts' = parts
      BY <1>3, Zenon DEF ReadCpuEnd
    <2>2. ~CpuFailed(Mine) => /\ stage' = IF "gpu" \in targets THEN "gpu" ELSE "ok"
                              /\ parts' = parts \cup {"cpu"}
      BY <1>3, Zenon DEF ReadCpuEnd
    <2>3. stage = "cpu" /\ UNCHANGED <<targets, partial>>
      BY <1>3 DEF ReadCpuEnd
    <2> QED BY <2>1, <2>2, <2>3 DEF PartsOK
  <1>4. CASE ReadGpu
    BY <1>4 DEF ReadGpu, PartsOK
  <1>5. CASE ReadEnd
    BY <1>5 DEF ReadEnd, PartsOK
  <1> QED BY <1>1, <1>2, <1>3, <1>4, <1>5 DEF Next, vars, Reading, ReadCpu, OwnerStep, OwnerFinish, ThreadStep,
       OtherStep,
            Machine, Gone

(* Results have no sample that lacks a target, whatever reads fail.        *)
THEOREM SamplingResultsHaveAllTargets == Spec => []ResultsHaveAllTargets
  <1>1. PartsOK => ResultsHaveAllTargets
    BY DEF PartsOK, ResultsHaveAllTargets
  <1> QED BY <1>1, PartsInit, PartsStep, PTL DEF Spec

-----------------------------------------------------------------------------
(* The types of the call of read().                                        *)
CallTypeOK ==
    /\ [kind |-> kind, arch |-> arch, targets |-> targets] \in Cases
    /\ stage \in {"idle", "cpu", "gpu", "ok", "failed"}
    /\ began \in Sampler!Phases /\ lastBegan \in Sampler!Phases

LEMMA CallTypeInit == Init => CallTypeOK
  <1> SUFFICES ASSUME Init PROVE CallTypeOK
    OBVIOUS
  <1>1. PICK c \in Cases : kind = c.kind /\ arch = c.arch /\ targets = c.targets
    BY DEF Init
  <1>2. c = [kind |-> c.kind, arch |-> c.arch, targets |-> c.targets]
    BY CasesAssumption
  <1> QED BY <1>1, <1>2 DEF Init, CallTypeOK, Sampler!Phases

(* The sampler of a case keeps its kind.                                   *)
LEMMA CallTypeStep == CallTypeOK /\ [Next]_vars => CallTypeOK'
  <1> SUFFICES ASSUME CallTypeOK, [Next]_vars PROVE CallTypeOK'
    OBVIOUS
  <1>1. kind' = kind
    BY SamplerStep DEF Sampler!vars, Sampler!Next, Sampler!Run, Sampler!Results, Sampler!Finish, Sampler!Thread,
       Sampler!RunPeriodic, Sampler!RunShort, Sampler!ResultsShort, Sampler!ResultsFinish, Sampler!ResultsPost,
       Sampler!ResultsGet, Sampler!Destroy, Sampler!DestroyFinish, Sampler!DestroyPost, Sampler!DestroyWait,
       Sampler!Start, Sampler!ReadSample, Sampler!Check, Sampler!WaitForBegin, Sampler!WaitForEnd, Sampler!Done,
       Sampler!Gone
  <1>2. CASE UNCHANGED callVars
    BY <1>1, <1>2 DEF callVars, CallTypeOK
  <1>3. CASE ReadBegin
    BY <1>1, <1>3 DEF ReadBegin, CallTypeOK, PhaseNow, Sampler!Phase, Sampler!Phases
  <1>4. CASE ReadCpuEnd
    <2>1. stage' \in {"failed", "gpu", "ok"}
      BY <1>4, Zenon DEF ReadCpuEnd
    <2> QED BY <1>1, <1>4, <2>1 DEF ReadCpuEnd, CallTypeOK
  <1>5. CASE ReadGpu \/ ReadEnd
    BY <1>1, <1>5 DEF ReadGpu, ReadEnd, CallTypeOK
  <1> QED BY <1>2, <1>3, <1>4, <1>5 DEF Next, vars, Reading, ReadCpu, OwnerStep, OwnerFinish, ThreadStep, OtherStep,
            Machine, Gone

(* Type correctness of a sampler, its call of read() and both CPU readers. *)
THEOREM SamplingTypeOK == Spec => []TypeOK
  <1>1. RP!ConstantsOK /\ OP!ConstantsOK
    BY CountersAssumption DEF RP!ConstantsOK, Rapl!ConstantsOK, OP!ConstantsOK, Occ!ConstantsOK
  <1>2. Spec => RP!Spec /\ OP!Spec
    BY RaplInit, OccInit, RaplStep, OccStep, PTL DEF Spec, RP!Spec, OP!Spec
  <1>3. RP!Spec => []RP!TypeOK
    BY <1>1, RP!RaplTypeOK
  <1>4. OP!Spec => []OP!TypeOK
    BY <1>1, OP!OccTypeOK
  <1>5. SamplerInv => Sampler!TypeOK
    BY DEF SamplerInv
  <1>6. RP!TypeOK => Rapl!TypeOK
    BY DEF RP!TypeOK, Rapl!TypeOK, RP!Event, Rapl!Event, RP!Call, Rapl!Call, RP!Sample, Rapl!Sample,
       RP!Unread, Rapl!Unread
  <1>7. OP!TypeOK => Occ!TypeOK
    BY DEF OP!TypeOK, Occ!TypeOK, OP!Occ, Occ!Occ, OP!Sides, Occ!Sides, OP!Side, Occ!Side, OP!Record, Occ!Record,
       OP!Call, Occ!Call, OP!Copy, Occ!Copy, OP!Torn, Occ!Torn, OP!Elsewhere, Occ!Elsewhere
  <1>8. Sampler!TypeOK /\ Rapl!TypeOK /\ Occ!TypeOK /\ CallTypeOK /\ PartsOK => TypeOK
    BY DEF TypeOK, CallTypeOK, PartsOK
  <1> QED BY <1>2, <1>3, <1>4, <1>5, <1>6, <1>7, <1>8, SamplingAlways, CallTypeInit, CallTypeStep, PartsInit,
       PartsStep,
             PTL DEF Spec

-----------------------------------------------------------------------------
(* The sample being read, and the last one stored, began after the section *)
(* wherever it matters.                                                    *)
ShortBegan ==
    kind = "short" =>
        /\ opc \in {"collected", "gone"} => stage = "idle"
        /\ opc = "section" /\ stage # "idle" => began = Sampler!After
        /\ got = "ok" => lastBegan = Sampler!After

UnboundedBegan ==
    kind = "unbounded" =>
        /\ stage # "idle" => wpc \in {"first", "last", "final"}
        /\ wpc = "final" /\ stage # "idle" => began = Sampler!After
        /\ wpc = "done" \/ future = "ok" => lastBegan = Sampler!After

BeganOK == kind \in AllKinds /\ ShortBegan /\ UnboundedBegan

(* The initial state: nothing was read.                                    *)
LEMMA BeganInit == Init => BeganOK
  <1> SUFFICES ASSUME Init PROVE BeganOK
    OBVIOUS
  <1>1. PICK c \in Cases : kind = c.kind
    BY DEF Init
  <1>2. kind \in AllKinds
    BY <1>1, CasesAssumption
  <1> QED BY <1>2 DEF Init, Sampler!Init, Sampler!Periodic, BeganOK, ShortBegan, UnboundedBegan

(* A call of read() begins.                                                *)
LEMMA BeganReadBegin == ASSUME SamplerInv, BeganOK, ReadBegin PROVE BeganOK'
  <1> USE DEF SamplerInv, HandoverOK, ShortOK, Sampler!Periodic
  <1>1. CASE kind = "short"
    <2>1. ShortReads
      BY <1>1 DEF ReadBegin, ThreadReads
    <2> QED BY <1>1, <2>1 DEF ReadBegin, ShortReads, PhaseNow, BeganOK, ShortBegan, UnboundedBegan, samplerVars
  <1>2. CASE kind = "unbounded"
    <2>1. ThreadReads
      BY <1>2 DEF ReadBegin, ShortReads
    <2>2. wpc = "final" => opc \notin {"created", "section"}
      BY <1>2 DEF UnboundedOK
    <2>3. wpc = "final" => PhaseNow = Sampler!After
      BY <1>2, <2>2 DEF PhaseNow, Sampler!Phase
    <2> QED BY <1>2, <2>1, <2>3 DEF ReadBegin, ThreadReads, BeganOK, ShortBegan, UnboundedBegan, samplerVars
  <1>3. CASE kind = "bounded"
    BY <1>3 DEF ReadBegin, BeganOK, ShortBegan, UnboundedBegan, samplerVars
  <1> QED BY <1>1, <1>2, <1>3 DEF BeganOK, AllKinds

(* A call of read() ends, and its sample is stored unless it failed.       *)
LEMMA BeganReadEnd == ASSUME SamplerInv, BeganOK, ReadEnd PROVE BeganOK'
  <1> USE DEF SamplerInv, HandoverOK, ShortOK, Sampler!Periodic
  <1>1. CASE Sampler!RunShort
    BY <1>1 DEF ReadEnd, Sampler!RunShort, BeganOK, ShortBegan, UnboundedBegan
  <1>2. CASE Sampler!ResultsShort /\ (stage = "failed") = (got' = "error")
    <2>1. got' = "ok" => stage = "ok"
      BY <1>2 DEF ReadEnd
    <2> QED BY <1>2, <2>1 DEF ReadEnd, Sampler!ResultsShort, BeganOK, ShortBegan, UnboundedBegan
  <1>3. ASSUME NEW place \in {"first", "last", "final"}, Sampler!ReadSample(place),
               Sampler!DerivedAlive => (stage = "failed") = (future' = "error")
        PROVE  BeganOK'
    <2>1. wpc = place /\ kind # "short" /\ future = "none"
      BY <1>3 DEF Sampler!ReadSample, BeganOK, AllKinds
    <2>2. wpc' = "done" => Sampler!DerivedAlive /\ future' = future
      BY <1>3 DEF Sampler!ReadSample
    <2>3. kind = "unbounded" /\ wpc' = "done" => wpc = "final" /\ stage = "ok"
      BY <1>3, <2>1, <2>2 DEF Sampler!ReadSample, Sampler!AfterRead, ReadEnd
    <2>4. future' # "ok" /\ kind' = kind
      BY <1>3, <2>1 DEF Sampler!ReadSample
    <2>5. stage' = "idle" /\ (stage = "ok" => lastBegan' = began) /\ stage \in {"ok", "failed"}
      BY DEF ReadEnd
    <2> QED BY <2>1, <2>3, <2>4, <2>5 DEF BeganOK, ShortBegan, UnboundedBegan, Sampler!ReadSample
  <1> QED BY <1>1, <1>2, <1>3 DEF ReadEnd

(* Every step.                                                             *)
LEMMA BeganStep == SamplerInv /\ BeganOK /\ [Next]_vars => BeganOK'
  <1> SUFFICES ASSUME SamplerInv, BeganOK, [Next]_vars PROVE BeganOK'
    OBVIOUS
  <1> USE DEF SamplerInv, HandoverOK, ShortOK, Sampler!Periodic, BeganOK, ShortBegan, UnboundedBegan
  <1>1. CASE UNCHANGED <<samplerVars, callVars>>
    BY <1>1 DEF samplerVars, callVars
  <1>2. CASE ReadCpuEnd \/ ReadGpu
    BY <1>2 DEF ReadCpuEnd, ReadGpu, samplerVars
  <1>3. CASE OwnerStep
    BY <1>3 DEF OwnerStep, callVars, Sampler!RunPeriodic, Sampler!ResultsFinish, Sampler!Destroy,
         Sampler!ResultsShort,
         Sampler!Periodic
  <1>4. CASE OwnerFinish
    BY <1>4 DEF OwnerFinish, callVars, Sampler!Finish, Sampler!ResultsPost, Sampler!ResultsGet,
         Sampler!DestroyFinish,
         Sampler!DestroyPost, Sampler!DestroyWait
  <1>5. CASE ThreadStep
    <2>1. stage' = "idle" /\ lastBegan' = lastBegan /\ kind' = kind
      BY <1>5 DEF ThreadStep, callVars, Sampler!Start, Sampler!Check, Sampler!WaitForBegin, Sampler!WaitForEnd,
           Sampler!Done, Sampler!ReadSample
    <2>2. kind # "short"
      BY <1>5 DEF ThreadStep, Sampler!Start, Sampler!Check, Sampler!WaitForBegin, Sampler!WaitForEnd,
           Sampler!Done, Sampler!ReadSample
    <2>3. kind = "unbounded" => wpc' # "done"
      BY <1>5 DEF ThreadStep, Sampler!Start, Sampler!Check, Sampler!WaitForBegin, Sampler!WaitForEnd,
           Sampler!Done, Sampler!ReadSample
    <2>4. future' = "ok" => wpc = "done" \/ future = "ok"
      BY <1>5 DEF ThreadStep, Sampler!Start, Sampler!Check, Sampler!WaitForBegin, Sampler!WaitForEnd,
           Sampler!Done, Sampler!ReadSample
    <2> QED BY <2>1, <2>2, <2>3, <2>4
  <1>6. CASE ReadBegin
    BY <1>6, BeganReadBegin
  <1>7. CASE ReadEnd
    BY <1>7, BeganReadEnd
  <1> QED BY <1>1, <1>2, <1>3, <1>4, <1>5, <1>6, <1>7
          DEF Next, vars, Reading, ReadCpu, OtherStep, Machine, Gone

(* The last sample of a short or an unbounded sampler is read from its     *)
(* beginning on after the section, by however many steps.                  *)
THEOREM SamplingCoversSectionEnd == Spec => []CoversSectionEnd
  <1>1. SamplerInv /\ BeganOK => CoversSectionEnd
    BY SamplerInvMeans DEF CoversSectionEnd, Sampler!CoversSectionEnd, SamplerInv, HandoverOK, Sampler!Periodic,
         BeganOK, ShortBegan, UnboundedBegan, AllKinds, Sampler!After
  <1> QED BY <1>1, SamplingAlways, BeganInit, BeganStep, PTL DEF Spec
=============================================================================
