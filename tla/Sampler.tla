------------------------------- MODULE Sampler -------------------------------
(***************************************************************************)
(* The samplers (src/sampler.cpp): how the energy of one section is read.  *)
(*                                                                         *)
(*   short      run() reads the first sample and results() the last one,   *)
(*              both in the caller's thread;                               *)
(*   bounded    (method "total") a thread started by the constructor reads *)
(*              the first sample, then overwrites the last one each period *)
(*              until it sees _finished;                                   *)
(*   unbounded  (method "profile") that thread keeps every sample.         *)
(*                                                                         *)
(* The owner (a tracer, or the idle measurement) runs the sampler, lets    *)
(* the section execute, and collects the results or, when it met an error, *)
(* destroys the sampler without them.  Owner and thread meet on _finished  *)
(* and on _sig, a signaler used through its contract AutoResetEvent.       *)
(*                                                                         *)
(* A sample is abstracted to the phase of the section it was read in, and  *)
(* a vector of samples to its first, its last and its length.              *)
(***************************************************************************)
EXTENDS Integers

CONSTANTS Kinds,       \* kinds of samplers considered
          ReadsFail    \* whether reading the counters may fail

ConstantsOK == Kinds \subseteq {"short", "bounded", "unbounded"} /\ ReadsFail \in BOOLEAN

VARIABLES kind,
          open, waiter,    \* _sig
          finished,        \* _finished
          opc,             \* where the owner is
          wpc,             \* where the sampling thread is
          first, last,     \* the first and last sample stored, Default if none
          count,           \* how many samples are stored, up to Many
          future,          \* the result of the thread or of run(): "none", "ok", "error"
          got,             \* what results() gave the owner
          ub               \* the thread has used a destroyed member

vars == <<kind, open, waiter, finished, opc, wpc, first, last, count, future, got, ub>>

Worker == "worker"
Sig == INSTANCE AutoResetEvent WITH Waiters <- {Worker}

Many    == 3             \* lengths are told apart up to 2
Default == -1            \* a timed_sample that was never read into
Before == 0   Section == 1   After == 2

Periodic == kind \in {"bounded", "unbounded"}

(* The phase a sample read now belongs to.  The section executes from the  *)
(* return of run() to the call of results().                               *)
Phase ==
    CASE opc = "created" -> Before
      [] opc = "section" -> Section
      [] OTHER -> After

Init ==
    /\ kind \in Kinds
    /\ open = FALSE
    /\ waiter = [w \in {Worker} |-> IF Periodic THEN "wait" ELSE "none"]
    /\ finished = FALSE
    /\ opc = "created"
    /\ wpc = IF Periodic THEN "start" ELSE "none"
    /\ first = Default /\ last = Default /\ count = 0
    /\ future = "none"
    /\ got = "none"
    /\ ub = FALSE

-----------------------------------------------------------------------------
(* The owner.                                                              *)

(* Mutant: the length saturates one too late.                              *)
GrownLate == IF count <= Many THEN count + 1 ELSE count

Grown == IF count < Many THEN count + 1 ELSE count

RunPeriodic ==
    /\ opc = "created" /\ Periodic
    /\ opc' = "section"
    /\ Sig!Post
    /\ UNCHANGED <<kind, finished, wpc, first, last, count, future, got, ub>>

(* The promise of a short sampler that could not read is that error.       *)
RunShort ==
    /\ opc = "created" /\ kind = "short"
    /\ opc' = "section"
    /\ \/ first' = Before /\ count' = 1 /\ UNCHANGED future
       \/ ReadsFail /\ future' = "error" /\ UNCHANGED <<first, count>>
    /\ UNCHANGED <<kind, open, waiter, finished, wpc, last, got, ub>>

ResultsShort ==
    /\ opc = "section" /\ kind = "short"
    /\ opc' = "collected"
    /\ \/ future = "error" /\ got' = "error" /\ UNCHANGED <<last, count>>
       \/ future = "none" /\ last' = After /\ count' = Grown /\ got' = "ok"
       \/ future = "none" /\ ReadsFail /\ got' = "error" /\ UNCHANGED <<last, count>>
    /\ UNCHANGED <<kind, open, waiter, finished, wpc, first, future, ub>>

(* Mutant: results() forgets to tell the thread that the section is over.  *)
ResultsForget ==
    /\ opc = "section" /\ Periodic
    /\ opc' = "post"
    /\ UNCHANGED <<kind, open, waiter, finished, wpc, first, last, count, future, got, ub>>

ResultsFinish ==
    /\ opc = "section" /\ Periodic
    /\ opc' = "post"
    /\ finished' = TRUE
    /\ UNCHANGED <<kind, open, waiter, wpc, first, last, count, future, got, ub>>

ResultsPost ==
    /\ opc = "post" /\ opc' = "get"
    /\ Sig!Post
    /\ UNCHANGED <<kind, finished, wpc, first, last, count, future, got, ub>>

(* Mutant: results() takes the samples without waiting for the thread.     *)
ResultsGetNow ==
    /\ opc = "get" /\ opc' = "collected"
    /\ got' = IF future = "none" THEN "ok" ELSE future
    /\ UNCHANGED <<kind, open, waiter, finished, wpc, first, last, count, future, ub>>

ResultsGet ==
    /\ opc = "get" /\ opc' = "collected"
    /\ future # "none"
    /\ got' = future
    /\ UNCHANGED <<kind, open, waiter, finished, wpc, first, last, count, future, ub>>

(* Destroying a sampler first destroys the members of bounded_ps or        *)
(* unbounded_ps; only then does ~periodic_sampler stop the thread, unless  *)
(* results() has already taken the future.                                 *)
Destroy ==
    /\ opc \in {"created", "section", "collected"}
    /\ opc' = IF Periodic /\ opc # "collected" THEN "derived" ELSE "gone"
    /\ UNCHANGED <<kind, open, waiter, finished, wpc, first, last, count, future, got, ub>>

DestroyFinish ==
    /\ opc = "derived" /\ opc' = "dtorpost"
    /\ finished' = TRUE
    /\ UNCHANGED <<kind, open, waiter, wpc, first, last, count, future, got, ub>>

(* Mutant: the destructor does not wake the thread.                        *)
DestroyPostNothing ==
    /\ opc = "dtorpost" /\ opc' = "dtorwait"
    /\ UNCHANGED <<kind, open, waiter, finished, wpc, first, last, count, future, got, ub>>

DestroyPost ==
    /\ opc = "dtorpost" /\ opc' = "dtorwait"
    /\ Sig!Post
    /\ UNCHANGED <<kind, finished, wpc, first, last, count, future, got, ub>>

DestroyWait ==
    /\ opc = "dtorwait" /\ opc' = "gone"
    /\ future # "none"
    /\ UNCHANGED <<kind, open, waiter, finished, wpc, first, last, count, future, got, ub>>

DerivedAlive == opc \notin {"derived", "dtorpost", "dtorwait", "gone"}

-----------------------------------------------------------------------------
(* The thread of a periodic sampler.                                       *)

(* The lambda: wait for run(), then call async_work(), a virtual function  *)
(* of the derived class.                                                   *)
Start ==
    /\ wpc = "start"
    /\ Sig!Leave(Worker)
    /\ wpc' = IF DerivedAlive THEN "first" ELSE "crashed"
    /\ ub' = ~DerivedAlive
    /\ UNCHANGED <<kind, finished, opc, first, last, count, future, got>>

(* Where the thread goes after it stored a sample at a given place.        *)
AfterRead(place) ==
    IF kind = "bounded" THEN "check" ELSE IF place = "final" THEN "done" ELSE "begin"

(* Both async_work()s read a sample into a member: _first, _last or the    *)
(* vector _exec.                                                           *)
Store(place) ==
    /\ first' = IF count = 0 THEN Phase ELSE first
    /\ last' = IF place # "first" \/ kind = "unbounded" THEN Phase ELSE last
    /\ count' = IF kind = "unbounded" \/ place = "first" THEN Grown ELSE 2

ReadSample(place) ==
    /\ wpc = place
    /\ ub' = (ub \/ ~DerivedAlive)
    /\ \/ /\ DerivedAlive
          /\ Store(place)
          /\ wpc' = AfterRead(place)
          /\ UNCHANGED future
       \/ /\ DerivedAlive /\ ReadsFail
          /\ wpc' = "ended" /\ future' = "error"
          /\ UNCHANGED <<first, last, count>>
       \/ /\ ~DerivedAlive
          /\ wpc' = "crashed"
          /\ UNCHANGED <<first, last, count, future>>
    /\ UNCHANGED <<kind, open, waiter, finished, opc, got>>

(* while (!finished()): on to the next period, or out of the loop.         *)
(* Mutant: the loop of unbounded_ps is the last to read.                   *)
CheckNoFinal ==
    /\ wpc = "check"
    /\ wpc' = CASE ~finished /\ kind = "bounded"   -> "begin"
                [] ~finished /\ kind = "unbounded" -> "first"
                [] OTHER                           -> "done"
    /\ UNCHANGED <<kind, open, waiter, finished, opc, first, last, count, future, got, ub>>

Check ==
    /\ wpc = "check"
    /\ wpc' = CASE ~finished /\ kind = "bounded"   -> "begin"
                [] ~finished /\ kind = "unbounded" -> "first"
                [] finished /\ kind = "bounded"    -> "done"
                [] OTHER                           -> "final"
    /\ UNCHANGED <<kind, open, waiter, finished, opc, first, last, count, future, got, ub>>

WaitForBegin ==
    /\ wpc = "begin" /\ wpc' = "sleep"
    /\ Sig!Begin(Worker, "wait_for")
    /\ UNCHANGED <<kind, finished, opc, first, last, count, future, got, ub>>

WaitForEnd ==
    /\ wpc = "sleep"
    /\ wpc' = IF kind = "bounded" THEN "last" ELSE "check"
    /\ Sig!Leave(Worker)
    /\ UNCHANGED <<kind, finished, opc, first, last, count, future, got, ub>>

(* The samples are moved out of the members into the future.               *)
Done ==
    /\ wpc = "done"
    /\ IF DerivedAlive
       THEN wpc' = "ended" /\ future' = "ok" /\ UNCHANGED ub
       ELSE wpc' = "crashed" /\ ub' = TRUE /\ UNCHANGED future
    /\ UNCHANGED <<kind, open, waiter, finished, opc, first, last, count, got>>

-----------------------------------------------------------------------------
Run == RunPeriodic \/ RunShort

Results == ResultsShort \/ ResultsFinish

Finish == ResultsPost \/ ResultsGet \/ DestroyFinish \/ DestroyPost \/ DestroyWait

Thread ==
    Start \/ (\E place \in {"first", "last", "final"} : ReadSample(place))
    \/ Check \/ WaitForBegin \/ WaitForEnd \/ Done

(* The program has nothing more to do with this sampler.                   *)
Gone == (opc = "gone" \/ wpc = "crashed") /\ UNCHANGED vars

Next == Run \/ Results \/ Finish \/ Destroy \/ Thread \/ Gone

Spec == Init /\ [][Next]_vars

(* The owner inside results() or the destructor and the thread both keep   *)
(* running; a wait_for() ends within its period.                           *)
FairSpec == Spec /\ WF_vars(Finish) /\ WF_vars(Thread)

-----------------------------------------------------------------------------
Phases == {Before, Section, After}

TypeOK ==
    /\ kind \in Kinds
    /\ Sig!TypeOK
    /\ finished \in BOOLEAN
    /\ opc \in {"created", "section", "post", "get", "collected",
                "derived", "dtorpost", "dtorwait", "gone"}
    /\ wpc \in {"none", "start", "first", "begin", "sleep", "last", "check", "final",
                "done", "ended", "crashed"}
    /\ first \in Phases \cup {Default} /\ last \in Phases \cup {Default}
    /\ count \in 0..Many
    /\ future \in {"none", "ok", "error"}
    /\ got \in {"none", "ok", "error"}
    /\ ub \in BOOLEAN

(* Short and unbounded samplers: a result has at least two samples and the *)
(* last one was read after the section had ended, however late the thread  *)
(* started and however the posts of run() and results() fell together.     *)
CoversSectionEnd ==
    got = "ok" /\ kind # "bounded" => count >= 2 /\ last = After

(* The samples results() gave away are no longer written by the thread.    *)
FrozenWhenCollected == [][got # "none" => UNCHANGED <<first, last, count>>]_vars

(* The thread only outlives the members it uses in a sampler whose results *)
(* were never collected.                                                   *)
CollectedIsSafe == ub => got = "none"

(* results() returns, even when the thread consumed both posts at once or  *)
(* had not even started.                                                   *)
ResultsReturn == (opc \in {"post", "get"}) ~> (opc \in {"collected", "gone"})

(* The destructor of an abandoned sampler returns, unless the thread has   *)
(* already called into the destroyed object.                               *)
DestructorReturns == (opc = "derived") ~> (opc = "gone" \/ ub)

(* Method "total" stores the first and the last sample of the section.     *)
TotalHasBothSamples == got = "ok" /\ kind = "bounded" => count = 2
=============================================================================
