------------------------------- MODULE Tracer -------------------------------
(***************************************************************************)
(* The tracers (src/tracer.cpp, src/ptrace_restarter.cpp).  One tracer     *)
(* thread follows each thread of the target (its tracee): it resumes it,   *)
(* waits for it to stop, and handles the stop.  Sections to measure are    *)
(* delimited by trap instructions in the code all tracees share.  The      *)
(* tracer of the tracee that hits a start trap takes TRAP_BARRIER, stops   *)
(* the other tracees with SIGSTOP unless the section allows concurrency,   *)
(* takes the trap out, steps over it, lets the section run while a sampler *)
(* reads the counters, and puts the traps back at its end.                 *)
(*                                                                         *)
(* The first part is the kernel's: tracees run, stop, and are reported to  *)
(* waitpid() once per stop.  A pending SIGSTOP is one bit: two of them     *)
(* merge.  A clone()d thread starts with a SIGSTOP pending, the stop of    *)
(* its attachment.  A PTRACE_CONT of a tracee that is not stopped fails    *)
(* with ESRCH.                                                             *)
(*                                                                         *)
(* A section is two places in the target, <<"start", s>> and <<"end", s>>. *)
(* A range section has a trap at each for the whole execution; the end of  *)
(* a function section is the return address of the measured call, where a  *)
(* trap is put for that call only.                                         *)
(***************************************************************************)
EXTENDS Integers, Sequences

CONSTANTS Threads, Root,    \* threads of the target, its first one
          Sections,
          FuncSections,     \* sections that are functions
          Concurrent,       \* sections with <allow_concurrency/>
          SlowSignals,      \* a tracee may run on before it sees a SIGSTOP
          MaxVisits,        \* bound: passes through sections of one thread
          MaxSignals,       \* bound: signals the target receives
          None

ASSUME ThreadsAssumption == Root \in Threads /\ None \notin Threads
ASSUME SectionsAssumption == FuncSections \subseteq Sections /\ Concurrent \subseteq Sections
ASSUME BoundsAssumption == MaxVisits \in Nat /\ MaxSignals \in Nat /\ SlowSignals \in BOOLEAN

VARIABLES kst,        \* kernel state of each tracee
          ev,         \* what waitpid() will report of it, "none" if nothing new
          pend,       \* a SIGSTOP is pending
          msg,        \* PTRACE_GETEVENTMSG: the thread it last cloned
          pos,        \* where it is in the target's code
          armed,      \* the places that hold a trap instruction
          sigs,       \* signals received so far
          barrier,    \* TRAP_BARRIER: the tracee of the tracer that holds it
          pc,         \* where each tracer is in trace()
          sect,       \* the section each tracer is measuring
          toStop,     \* tracees stop_tracees() has still to stop
          results,    \* _results: the sections measured so far
          visited,    \* history: the sections each thread has entered
          spared      \* history: tracees a SIGSTOP of stop_tracees() had no effect on

kernel  == <<kst, ev, pend, msg>>
target  == <<pos, armed, sigs>>
tracers == <<barrier, pc, sect, toStop, results>>
history == <<visited, spared>>
vars    == <<kst, ev, pend, msg, pos, armed, sigs, barrier, pc, sect, toStop, results,
             visited, spared>>

Out == <<"out">>
Start(s) == <<"start", s>>
In(s)    == <<"in", s>>
End(s)   == <<"end", s>>

(* The traps profiler::run() has inserted before the first tracer starts.  *)
Registered == {Start(s) : s \in Sections} \cup {End(s) : s \in Sections \ FuncSections}

Init ==
    /\ kst = [k \in Threads |-> IF k = Root THEN "stopped" ELSE "none"]
    /\ ev = [k \in Threads |-> "none"]
    /\ pend = [k \in Threads |-> FALSE]
    /\ msg = [k \in Threads |-> None]
    /\ pos = [k \in Threads |-> Out]
    /\ armed = Registered
    /\ sigs = 0
    /\ barrier = None
    /\ pc = [k \in Threads |-> IF k = Root THEN "cont" ELSE "off"]
    /\ sect = [k \in Threads |-> None]
    /\ toStop = {}
    /\ results = [k \in Threads |-> <<>>]
    /\ visited = [k \in Threads |-> <<>>]
    /\ spared = {}

-----------------------------------------------------------------------------
(* The kernel and the target.                                              *)

Goto(k, from, to) == pc[k] = from /\ pc' = [pc EXCEPT ![k] = to]

(* k stops, and waitpid() has something to report.                         *)
Stop(k, event) ==
    /\ kst' = [kst EXCEPT ![k] = IF event = "exit" THEN "exiting" ELSE "stopped"]
    /\ ev' = [ev EXCEPT ![k] = event]

(* A tracer has not resumed k since k was created.                         *)
Fresh(k) == pc[k] \in {"off", "cont", "contwait"}

(* k executes its own code.  A pending SIGSTOP stops it at its next return *)
(* to user mode, which is immediate for a new thread.                      *)
Executes(k) == kst[k] = "running" /\ (pend[k] => SlowSignals /\ ~Fresh(k))

DeliverStop(k) ==
    /\ kst[k] \in {"running", "step"} /\ pend[k]
    /\ Stop(k, "sigstop")
    /\ pend' = [pend EXCEPT ![k] = FALSE]
    /\ UNCHANGED <<msg, target, tracers, history>>

ReceiveSignal(k) ==
    /\ Executes(k) \/ (kst[k] = "step" /\ ~pend[k])
    /\ sigs < MaxSignals
    /\ sigs' = sigs + 1
    /\ Stop(k, "signal")
    /\ UNCHANGED <<pend, msg, pos, armed, tracers, history>>

Clone(k, c) ==
    /\ Executes(k) /\ pos[k] = Out /\ kst[c] = "none"
    /\ kst' = [kst EXCEPT ![k] = "stopped", ![c] = "running"]
    /\ ev' = [ev EXCEPT ![k] = "clone"]
    /\ pend' = [pend EXCEPT ![c] = TRUE]
    /\ msg' = [msg EXCEPT ![k] = c]
    /\ UNCHANGED <<target, tracers, history>>

(* The first thread leaves last: it joins the others.                      *)
Exit(k) ==
    /\ Executes(k) /\ pos[k] = Out
    /\ k = Root => \A u \in Threads \ {k} : kst[u] \in {"none", "dead", "detached"}
    /\ Stop(k, "exit")
    /\ UNCHANGED <<pend, msg, target, tracers, history>>

EnterSection(k, s) ==
    /\ Executes(k) /\ pos[k] = Out
    /\ Len(visited[k]) < MaxVisits
    /\ visited' = [visited EXCEPT ![k] = Append(@, s)]
    /\ IF Start(s) \in armed
       THEN Stop(k, "trap") /\ pos' = [pos EXCEPT ![k] = Start(s)]
       ELSE pos' = [pos EXCEPT ![k] = In(s)] /\ UNCHANGED <<kst, ev>>
    /\ UNCHANGED <<pend, msg, armed, sigs, tracers, spared>>

(* Another thread's call of a measured function may or may not return to   *)
(* the address where the trap is.                                          *)
LeaveSection(k, s) ==
    /\ Executes(k) /\ pos[k] = In(s)
    /\ \/ /\ End(s) \in armed
          /\ Stop(k, "trap") /\ pos' = [pos EXCEPT ![k] = End(s)]
       \/ /\ End(s) \notin armed \/ (s \in FuncSections /\ barrier # k)
          /\ pos' = [pos EXCEPT ![k] = Out] /\ UNCHANGED <<kst, ev>>
    /\ UNCHANGED <<pend, msg, armed, sigs, tracers, history>>

(* The single-stepped instruction, with its trap taken out, is executed.   *)
StepDone(k) ==
    /\ kst[k] = "step" /\ ~pend[k]
    /\ Stop(k, "step")
    /\ \E s \in Sections :
          \/ pos[k] = Start(s) /\ pos' = [pos EXCEPT ![k] = In(s)]
          \/ pos[k] = End(s) /\ pos' = [pos EXCEPT ![k] = Out]
    /\ UNCHANGED <<pend, msg, armed, sigs, tracers, history>>

(* PTRACE_CONT and PTRACE_SINGLESTEP of a stopped tracee; a stop nobody    *)
(* waited for is not reported any more.                                    *)
Resume(k, how) ==
    /\ kst' = [kst EXCEPT ![k] = IF @ = "exiting" THEN "dead" ELSE how]
    /\ ev' = [ev EXCEPT ![k] = IF kst[k] = "exiting" THEN "exited" ELSE "none"]

Waited(k) == ev' = [ev EXCEPT ![k] = "none"]

-----------------------------------------------------------------------------
(* The tracer of tracee k: the loop of trace().                            *)

CanResume(k) == kst[k] \in {"stopped", "exiting"}

(* ptrace_restarter::cont().                                               *)
Cont(k) ==
    /\ Goto(k, "cont", "wait")
    /\ CanResume(k)
    /\ Resume(k, "running")
    /\ UNCHANGED <<pend, msg, target, barrier, sect, toStop, results, history>>

ContEsrch(k) ==
    /\ Goto(k, "cont", "contwait")
    /\ ~CanResume(k)
    /\ UNCHANGED <<kernel, target, barrier, sect, toStop, results, history>>

(* Wait for the tracee by hand, whatever it stopped for, and resume it.    *)
ContWait(k) ==
    /\ Goto(k, "contwait", "wait")
    /\ ev[k] # "none" /\ CanResume(k)
    /\ Resume(k, "running")
    /\ UNCHANGED <<pend, msg, target, barrier, sect, toStop, results, history>>

(* Mutant: the barrier is not held by a scoped lock.                       *)
FailKeepsBarrier(k) ==
    /\ pc' = [pc EXCEPT ![k] = "failed"]
    /\ kst' = [kst EXCEPT ![k] = "detached"]
    /\ ev' = [ev EXCEPT ![k] = "none"]
    /\ UNCHANGED <<pend, msg, target, barrier, sect, toStop, results, history>>

(* The destructors of trace()'s locals: the barrier is released and the    *)
(* tracee detached.                                                        *)
Fail(k) ==
    /\ pc' = [pc EXCEPT ![k] = "failed"]
    /\ barrier' = IF barrier = k THEN None ELSE barrier
    /\ kst' = [kst EXCEPT ![k] = "detached"]
    /\ ev' = [ev EXCEPT ![k] = "none"]
    /\ UNCHANGED <<pend, msg, target, sect, toStop, results, history>>

(* Mutant: the loop goes on after the tracee has exited.                   *)
HandlerNoBreak(event) ==
    CASE event = "clone"   -> "lockChild"
      [] event = "exit"    -> "lockExit"
      [] event = "trap"    -> "lockTrap"
      [] event = "sigstop" -> "lockStop"
      [] OTHER             -> "cont"

Handler(event) ==
    CASE event = "clone"   -> "lockChild"
      [] event = "exit"    -> "lockExit"
      [] event = "trap"    -> "lockTrap"
      [] event = "sigstop" -> "lockStop"
      [] event = "exited"  -> "done"
      [] OTHER             -> "cont"       \* other signals are not passed on

Wait(k) ==
    /\ ev[k] # "none"
    /\ Goto(k, "wait", Handler(ev[k]))
    /\ Waited(k)
    /\ UNCHANGED <<kst, pend, msg, target, barrier, sect, toStop, results, history>>

(* Take the barrier, hand the new thread to a tracer, release the barrier. *)
LockChild(k) ==
    /\ pc[k] = "lockChild" /\ barrier = None
    /\ pc' = [pc EXCEPT ![k] = "cont", ![msg[k]] = "cont"]
    /\ UNCHANGED <<kernel, target, barrier, sect, toStop, results, history>>

(* Stopped or exiting tracees just wait until no section is measured.      *)
LockPass(k) ==
    /\ \/ Goto(k, "lockStop", "cont")
       \/ Goto(k, "lockExit", "cont")
    /\ barrier = None
    /\ UNCHANGED <<kernel, target, barrier, sect, toStop, results, history>>

(* Mutant: the barrier is taken after the tracees have been stopped.       *)
LockTrapLate(k) ==
    /\ pc[k] = "lockTrap"
    /\ \E s \in Sections :
          /\ pos[k] = Start(s)
          /\ sect' = [sect EXCEPT ![k] = s]
          /\ pc' = [pc EXCEPT ![k] = "stop"]
          /\ toStop' = {u \in Threads \ {k} : pc[u] # "off"}
    /\ barrier' = k
    /\ UNCHANGED <<kernel, target, results, history>>

LockTrap(k) ==
    /\ pc[k] = "lockTrap" /\ barrier = None
    /\ \E s \in Sections :
          /\ pos[k] = Start(s)
          /\ sect' = [sect EXCEPT ![k] = s]
          /\ IF s \in Concurrent
             THEN pc' = [pc EXCEPT ![k] = "step"] /\ UNCHANGED toStop
             ELSE /\ pc' = [pc EXCEPT ![k] = "stop"]
                  /\ toStop' = {u \in Threads \ {k} : pc[u] # "off"}
    /\ barrier' = k
    /\ UNCHANGED <<kernel, target, results, history>>

(* The trap is not registered as a start trap: NO_TRAP.                    *)
LockNoTrap(k) ==
    /\ pc[k] = "lockTrap" /\ barrier = None
    /\ \A s \in Sections : pos[k] # Start(s)
    /\ Fail(k)

(* stop_tracees() walks the tree of tracers; stop_self() of each one.      *)
(* Mutant: a tracee that is already stopped is not signalled.              *)
StopSelfRunning(k, u) ==
    /\ pc[k] = "stop" /\ u \in toStop
    /\ toStop' = toStop \ {u}
    /\ pend' = [pend EXCEPT ![u] = kst[u] = "running"]
    /\ spared' = IF kst[u] = "running" /\ Fresh(u) THEN spared \cup {u} ELSE spared
    /\ UNCHANGED <<kst, ev, msg, target, barrier, pc, sect, results, visited>>

StopSelf(k, u) ==
    /\ pc[k] = "stop" /\ u \in toStop
    /\ toStop' = toStop \ {u}
    /\ IF kst[u] \in {"dead", "detached"}
       THEN UNCHANGED <<pend, spared>>
       ELSE /\ pend' = [pend EXCEPT ![u] = TRUE]
            /\ spared' = IF kst[u] = "running" /\ Fresh(u) THEN spared \cup {u} ELSE spared
    /\ UNCHANGED <<kst, ev, msg, target, barrier, pc, sect, results, visited>>

StopDone(k) ==
    /\ Goto(k, "stop", "step")
    /\ toStop = {}
    /\ UNCHANGED <<kernel, target, barrier, sect, toStop, results, history>>

(* handle_breakpoint(): take the trap out and single-step.                 *)
StepOver(k, place) ==
    /\ armed' = armed \ {place}
    /\ Resume(k, "step")

StartStep(k) ==
    /\ Goto(k, "step", "stepwait")
    /\ StepOver(k, Start(sect[k]))
    /\ UNCHANGED <<pend, msg, pos, sigs, barrier, sect, toStop, results, history>>

(* Mutant: a SIGSTOP during the single-step is an error.                   *)
StepAgainFails(k) ==
    /\ pc[k] \in {"stepwait", "endwait"} /\ ev[k] = "sigstop"
    /\ Fail(k)

(* A SIGSTOP queued for this tracee comes first: step once more.           *)
StepAgain(k) ==
    /\ \/ Goto(k, "stepwait", "stepwait2")
       \/ Goto(k, "endwait", "endwait2")
    /\ ev[k] = "sigstop"
    /\ Resume(k, "step")
    /\ UNCHANGED <<pend, msg, target, barrier, sect, toStop, results, history>>

StepFail(k) ==
    /\ \/ pc[k] \in {"stepwait", "endwait"} /\ ev[k] \notin {"none", "step", "sigstop"}
       \/ pc[k] \in {"stepwait2", "endwait2"} /\ ev[k] \notin {"none", "step"}
    /\ Fail(k)

(* The start trap is passed: insert the return trap of a function, start   *)
(* the sampler and let the section run.                                    *)
BeginSection(k) ==
    /\ pc[k] \in {"stepwait", "stepwait2"} /\ ev[k] = "step"
    /\ pc' = [pc EXCEPT ![k] = "section"]
    /\ armed' = IF sect[k] \in FuncSections THEN armed \cup {End(sect[k])} ELSE armed
    /\ Resume(k, "running")
    /\ UNCHANGED <<pend, msg, pos, sigs, barrier, sect, toStop, results, history>>

(* The section is over: put the traps back, keep the result and release    *)
(* the barrier.                                                            *)
(* Mutant: the section is forgotten before its result is stored.           *)
FinishCleared(k) ==
    /\ sect' = [sect EXCEPT ![k] = None]
    /\ results' = [results EXCEPT ![k] = Append(@, sect'[k])]
    /\ barrier' = None
    /\ UNCHANGED <<toStop, history>>

Finish(k) ==
    /\ results' = [results EXCEPT ![k] = Append(@, sect[k])]
    /\ sect' = [sect EXCEPT ![k] = None]
    /\ barrier' = None
    /\ UNCHANGED <<toStop, history>>

EndFunction(k) ==
    /\ Goto(k, "section", "cont")
    /\ ev[k] = "trap" /\ sect[k] \in FuncSections /\ pos[k] = End(sect[k])
    /\ armed' = (armed \ {End(sect[k])}) \cup {Start(sect[k])}
    /\ pos' = [pos EXCEPT ![k] = Out]
    /\ Waited(k)
    /\ Finish(k)
    /\ UNCHANGED <<kst, pend, msg, sigs>>

EndRange(k) ==
    /\ Goto(k, "section", "endwait")
    /\ ev[k] = "trap" /\ sect[k] \notin FuncSections /\ pos[k] = End(sect[k])
    /\ StepOver(k, End(sect[k]))
    /\ UNCHANGED <<pend, msg, pos, sigs, barrier, sect, toStop, results, history>>

(* Mutant: the start trap is not put back.                                 *)
EndResetOnly(k) ==
    /\ pc[k] \in {"endwait", "endwait2"} /\ ev[k] = "step"
    /\ pc' = [pc EXCEPT ![k] = "cont"]
    /\ armed' = armed \cup {End(sect[k])}
    /\ Waited(k)
    /\ Finish(k)
    /\ UNCHANGED <<kst, pend, msg, pos, sigs>>

EndReset(k) ==
    /\ pc[k] \in {"endwait", "endwait2"} /\ ev[k] = "step"
    /\ pc' = [pc EXCEPT ![k] = "cont"]
    /\ armed' = armed \cup {End(sect[k]), Start(sect[k])}
    /\ Waited(k)
    /\ Finish(k)
    /\ UNCHANGED <<kst, pend, msg, pos, sigs>>

(* A signal during the section, or a trap that is not its end.             *)
SectionFail(k) ==
    /\ pc[k] = "section" /\ ev[k] # "none"
    /\ ev[k] # "trap" \/ pos[k] # End(sect[k])
    /\ Fail(k)

-----------------------------------------------------------------------------
Kernel(k) ==
    \/ DeliverStop(k) \/ StepDone(k) \/ ReceiveSignal(k) \/ Exit(k)
    \/ \E c \in Threads \ {k} : Clone(k, c)
    \/ \E s \in Sections : EnterSection(k, s) \/ LeaveSection(k, s)

Tracer(k) ==
    \/ Cont(k) \/ ContEsrch(k) \/ ContWait(k) \/ Wait(k)
    \/ LockChild(k) \/ LockPass(k) \/ LockTrap(k) \/ LockNoTrap(k)
    \/ StopDone(k) \/ \E u \in Threads : StopSelf(k, u)
    \/ StartStep(k) \/ StepAgain(k) \/ StepFail(k) \/ BeginSection(k)
    \/ EndFunction(k) \/ EndRange(k) \/ EndReset(k) \/ SectionFail(k)

AllDone == \A k \in Threads : pc[k] \in {"off", "done", "failed"}

Finished == AllDone /\ UNCHANGED vars

Next == (\E k \in Threads : Kernel(k) \/ Tracer(k)) \/ Finished

Spec == Init /\ [][Next]_vars

(* The target's threads run and end their sections; tracer threads run.    *)
(* Nothing more than weak fairness is asked of TRAP_BARRIER: passes are    *)
(* finite in number, so it ends up free for those that still wait.         *)
FairSpec ==
    /\ Spec
    /\ \A k \in Threads : WF_vars(Kernel(k)) /\ WF_vars(Tracer(k))

-----------------------------------------------------------------------------
Places == {Start(s) : s \in Sections} \cup {End(s) : s \in Sections}

Positions == {Out} \cup Places \cup {In(s) : s \in Sections}

KernelStates == {"none", "running", "step", "stopped", "exiting", "dead", "detached"}

Events == {"none", "sigstop", "signal", "clone", "trap", "step", "exit", "exited"}

TracerStates == {"off", "cont", "contwait", "wait", "lockChild", "lockExit", "lockStop",
                 "lockTrap", "stop", "step", "stepwait", "stepwait2", "section", "endwait",
                 "endwait2", "done", "failed"}

TypeOK ==
    /\ kst \in [Threads -> KernelStates]
    /\ ev \in [Threads -> Events]
    /\ pend \in [Threads -> BOOLEAN]
    /\ msg \in [Threads -> Threads \cup {None}]
    /\ pos \in [Threads -> Positions]
    /\ armed \subseteq Places
    /\ sigs \in 0..MaxSignals
    /\ barrier \in Threads \cup {None}
    /\ pc \in [Threads -> TracerStates]
    /\ sect \in [Threads -> Sections \cup {None}]
    /\ toStop \subseteq Threads
    /\ results \in [Threads -> Seq(Sections)] /\ visited \in [Threads -> Seq(Sections)]
    /\ spared \subseteq Threads

(* Where the holder of the barrier is, from its start trap to the end.     *)
Stopping  == {"stop"}
Measuring == {"step", "stepwait", "stepwait2", "section", "endwait", "endwait2"}

(* Only the holder of TRAP_BARRIER measures: the traps, the counters and   *)
(* the list of stopped tracees are touched by one tracer at a time.        *)
OneSection == \A k \in Threads : pc[k] \in Stopping \cup Measuring <=> barrier = k

NoFailure == \A k \in Threads : pc[k] # "failed"

(* Whenever no section is measured, every registered trap is in the code,  *)
(* and no return trap is left behind: no later pass is missed or stops at  *)
(* a trap nobody knows.                                                    *)
TrapsRestored == barrier = None /\ NoFailure => armed = Registered

Exclusive(k) == pc[k] \in Measuring /\ sect[k] \notin Concurrent

(* While a section that does not allow concurrency is measured, no other   *)
(* traced thread executes, except for the short time a SIGSTOP takes and   *)
(* unless its SIGSTOP merged with the one of its attachment.               *)
OthersStopped ==
    \A k \in Threads : Exclusive(k) =>
        \A u \in Threads \ ({k} \cup spared) : kst[u] = "running" => pend[u]

(* The SIGSTOP of stop_tracees() is never swallowed otherwise: the manual  *)
(* wait of cont() only ever takes the stop of the attachment, which comes  *)
(* before the tracee has executed anything.                                *)
ManualWaitIsAttach ==
    \A k \in Threads : pc[k] = "contwait" =>
        /\ visited[k] = <<>> /\ pos[k] = Out
        /\ (kst[k] = "running" /\ pend[k]) \/ ev[k] = "sigstop"

(* When every section excludes the other threads, no SIGSTOP merged and no *)
(* signal came, no tracer gives up and every pass through every section,   *)
(* of every thread, is measured once, in order.                            *)
Quiet == Concurrent = {} /\ ~SlowSignals /\ spared = {} /\ sigs = 0

EveryPassMeasured ==
    Quiet => /\ NoFailure
             /\ \A k \in Threads : pos[k] = Out /\ pc[k] \notin {"endwait", "endwait2"} =>
                    results[k] = visited[k]

(* The profiler ends: no tracer waits for ever for a tracee, the barrier   *)
(* or a stop that does not come.                                           *)
Termination == <>AllDone

(* A section without <allow_concurrency/> is measured with the other       *)
(* threads stopped.                                                        *)
OthersAlwaysStopped ==
    \A k \in Threads : Exclusive(k) =>
        \A u \in Threads \ {k} : kst[u] = "running" => pend[u]

(* With <allow_concurrency/>, threads may execute while another one's      *)
(* section is measured.                                                    *)
ConcurrencyAllowed == Concurrent = Sections => NoFailure
=============================================================================
