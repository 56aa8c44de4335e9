---------------------------- MODULE TracerProofs ----------------------------
(***************************************************************************)
(* For any number of threads and sections, whatever sections allow         *)
(* concurrency, however slowly signals arrive and however many come: one   *)
(* section is measured at a time, every trap is back in the code when no   *)
(* section is measured, and a section that excludes the other threads runs *)
(* alone.                                                                  *)
(* When every section excludes the other threads and no signal interferes, *)
(* every pass of every thread through a section is measured once, in order.*)
(*                                                                         *)
(* The inductive invariant IInv has, next to the types:                    *)
(*   KernelInv    what the kernel knows of a tracee, and where its tracer  *)
(*                is, fit together;                                        *)
(*   AttachInv    a tracee its tracer waits for by hand, or has not seen   *)
(*                yet, is new: it has executed nothing;                    *)
(*   ChildrenInv  the thread a clone event announces has no tracer, and no *)
(*                other event announces it;                                *)
(*   OneSection, SectionInv  the holder of the barrier measures a section; *)
(*   TrapsInv     which traps are out at each point of a measurement;      *)
(*   StopInv, HaltedInv  the tracees stop_tracees() is done with cannot    *)
(*                run: a SIGSTOP is pending, or has stopped the tracee and *)
(*                its tracer waits for the barrier, or is about to.        *)
(***************************************************************************)
EXTENDS Tracer, TLAPS

StepStates == {"stepwait", "stepwait2", "endwait", "endwait2"}
LockStates == {"lockChild", "lockExit", "lockStop", "lockTrap"}

(* The kernel's state of a tracee and the state of its tracer.             *)
KernelInv ==
    \A k \in Threads :
        /\ kst[k] = "none" => pc[k] = "off"
        /\ kst[k] \in {"none", "running", "step"} => ev[k] = "none"
        /\ kst[k] = "running" => pc[k] \in {"off", "cont", "contwait", "wait", "section"}
        /\ kst[k] = "step" => pc[k] \in StepStates
        /\ kst[k] = "dead" => pc[k] \in {"wait", "done"}
        /\ kst[k] = "detached" => pc[k] = "failed"
        /\ ev[k] = "exit" => kst[k] = "exiting"
        /\ ev[k] = "exited" => kst[k] = "dead"
        /\ ev[k] \in {"sigstop", "signal", "clone", "trap", "step"} => kst[k] = "stopped"
        /\ pc[k] \in LockStates \cup {"stop", "step"} =>
              kst[k] \in {"stopped", "exiting"} /\ ev[k] = "none"
        /\ pc[k] \in {"lockTrap", "lockStop", "stop", "step"} => kst[k] = "stopped"

(* The tracee is at most stopped by its attachment, and has executed       *)
(* nothing yet.                                                            *)
Attaching(k) == pc[k] \in {"off", "contwait"} \/ (pc[k] = "cont" /\ kst[k] = "running")

AttachInv ==
    \A k \in Threads : Attaching(k) =>
        /\ visited[k] = <<>> /\ pos[k] = Out
        /\ \/ kst[k] = "none"
           \/ kst[k] = "running" /\ pend[k]
           \/ kst[k] = "stopped" /\ ev[k] = "sigstop"

Announces(k) == ev[k] = "clone" \/ pc[k] = "lockChild"

ChildrenInv ==
    \A k \in Threads : Announces(k) =>
        /\ msg[k] \in Threads \ {k}
        /\ pc[msg[k]] = "off" /\ kst[msg[k]] # "none"
        /\ \A j \in Threads \ {k} : Announces(j) => msg[j] # msg[k]

(* The traps in the code, from a start trap to the end of the section.      *)
TrapsInv ==
    NoFailure =>
        /\ barrier = None => armed = Registered
        /\ \A k \in Threads :
              /\ pc[k] \in {"stop", "step"} => armed = Registered
              /\ pc[k] \in {"stepwait", "stepwait2"} => armed = Registered \ {Start(sect[k])}
              /\ pc[k] = "section" /\ sect[k] \in FuncSections =>
                    armed = (Registered \ {Start(sect[k])}) \cup {End(sect[k])}
              /\ pc[k] = "section" /\ sect[k] \notin FuncSections =>
                    armed = Registered \ {Start(sect[k])}
              /\ pc[k] \in {"endwait", "endwait2"} =>
                    /\ sect[k] \notin FuncSections
                    /\ armed = Registered \ {Start(sect[k]), End(sect[k])}

(* Whoever holds the barrier for a trap knows which section it measures.   *)
SectionInv == \A k \in Threads : pc[k] \in Stopping \cup Measuring => sect[k] \in Sections

(* u has been signalled and cannot execute for long: a SIGSTOP is pending, *)
(* or has stopped it and is about to be, or was, seen by its tracer.       *)
Held(u) ==
    \/ kst[u] \in {"none", "dead", "detached"}
    \/ /\ pend[u] /\ kst[u] \in {"running", "stopped", "exiting"}
       /\ kst[u] = "running" => pc[u] \in {"off", "wait"}
    \/ kst[u] = "stopped" /\ pc[u] = "lockStop"
    \/ kst[u] = "stopped" /\ ev[u] = "sigstop" /\ pc[u] \in {"wait", "off"}

HaltedInv ==
    \A k \in Threads :
        pc[k] = "stop" \/ Exclusive(k) =>
            \A u \in Threads \ {k} :
                u \notin spared /\ (pc[k] = "stop" => u \notin toStop) => Held(u)

(* stop_tracees() is only called for exclusive sections, and stops others. *)
StopInv == \A k \in Threads : pc[k] = "stop" => k \notin toStop /\ sect[k] \notin Concurrent
              /\ \A u \in toStop : pc[u] # "off"

(* The inductive invariant.                                                *)
IInv == TypeOK /\ KernelInv /\ AttachInv /\ ChildrenInv /\ OneSection /\ SectionInv /\ TrapsInv
        /\ StopInv /\ HaltedInv

-----------------------------------------------------------------------------
(* Lemmas about single facts.                                              *)

(* The places a tracee can be in.                                          *)
LEMMA PositionsAre ==
    /\ Out \in Positions
    /\ \A s \in Sections : Start(s) \in Positions /\ In(s) \in Positions /\ End(s) \in Positions
  BY DEF Positions, Places

(* Nobody measures while the barrier is free, and only its holder does.    *)
LEMMA FreeBarrier ==
    ASSUME IInv, barrier = None
    PROVE  \A j \in Threads : pc[j] # "stop" /\ pc[j] \notin Measuring
  BY ThreadsAssumption DEF IInv, OneSection, Stopping

(* Who holds the barrier is the only one that measures or stops tracees.   *)
LEMMA HolderAlone ==
    ASSUME IInv, NEW k \in Threads, pc[k] \in Stopping \cup Measuring
    PROVE  /\ barrier = k
           /\ \A j \in Threads \ {k} : pc[j] # "stop" /\ pc[j] \notin Measuring
  BY DEF IInv, OneSection, Stopping

(* Handing over a new thread starts its tracer, and nothing else.          *)
LEMMA LockChildEffect ==
    ASSUME IInv, NEW k \in Threads, LockChild(k)
    PROVE  \E c \in Threads \ {k} :
              /\ pc[k] = "lockChild" /\ pc[c] = "off" /\ kst[c] # "none"
              /\ pc' = [pc EXCEPT ![k] = "cont", ![c] = "cont"]
              /\ pc'[k] = "cont" /\ pc'[c] = "cont"
              /\ \A j \in Threads \ {k, c} : pc'[j] = pc[j]
  <1>1. PICK c \in Threads \ {k} : c = msg[k] /\ pc[c] = "off" /\ kst[c] # "none"
    BY DEF LockChild, IInv, ChildrenInv, Announces
  <1>2. pc \in [Threads -> TracerStates] /\ pc' = [pc EXCEPT ![k] = "cont", ![c] = "cont"]
    BY <1>1 DEF LockChild, IInv, TypeOK
  <1>3. pc'[k] = "cont" /\ pc'[c] = "cont" /\ \A j \in Threads \ {k, c} : pc'[j] = pc[j]
    BY <1>1, <1>2
  <1> QED BY <1>1, <1>2, <1>3 DEF LockChild

(* A signal sent takes back none.                                          *)
LEMMA StopSelfEffect ==
    ASSUME IInv, NEW k \in Threads, NEW u \in Threads, StopSelf(k, u)
    PROVE  /\ \A j \in Threads : pend[j] => pend'[j]
           /\ pend' \in [Threads -> BOOLEAN]
  <1>1. pend \in [Threads -> BOOLEAN] /\ (pend' = pend \/ pend' = [pend EXCEPT ![u] = TRUE])
    BY DEF StopSelf, IInv, TypeOK
  <1> QED BY <1>1

-----------------------------------------------------------------------------
(* Every step preserves each part of the invariant: one case per action.   *)

(* Every variable keeps its type.                                          *)
LEMMA TypeStep ==
    ASSUME IInv, [Next]_vars
    PROVE  TypeOK'
  <1> USE DEF IInv, TypeOK, Places, KernelStates, Events, TracerStates, kernel, target,
              tracers, history
  <1>1. ASSUME NEW k \in Threads, DeliverStop(k) PROVE TypeOK'
    BY <1>1, ThreadsAssumption, PositionsAre DEF DeliverStop, Stop
  <1>2. ASSUME NEW k \in Threads, StepDone(k) PROVE TypeOK'
    <2>1. PICK s \in Sections :
                \/ pos[k] = Start(s) /\ pos' = [pos EXCEPT ![k] = In(s)]
                \/ pos[k] = End(s) /\ pos' = [pos EXCEPT ![k] = Out]
      BY <1>2 DEF StepDone
    <2>2. pos' = [pos EXCEPT ![k] = In(s)] \/ pos' = [pos EXCEPT ![k] = Out]
      BY <2>1
    <2>3. pos' \in [Threads -> Positions]
      BY <2>2, PositionsAre
    <2>4. kst' \in [Threads -> KernelStates] /\ ev' \in [Threads -> Events]
      BY <1>2 DEF StepDone, Stop
    <2> QED BY <1>2, <2>3, <2>4 DEF StepDone, Stop
  <1>3. ASSUME NEW k \in Threads, ReceiveSignal(k) PROVE TypeOK'
    <2>1. sigs' \in 0..MaxSignals
      BY <1>3, BoundsAssumption DEF ReceiveSignal, Stop, Executes
    <2>2. kst' \in [Threads -> KernelStates] /\ ev' \in [Threads -> Events]
      BY <1>3 DEF ReceiveSignal, Stop, Executes
    <2> QED BY <1>3, <2>1, <2>2 DEF ReceiveSignal, Stop, Executes
  <1>4. ASSUME NEW k \in Threads, Exit(k) PROVE TypeOK'
    BY <1>4, ThreadsAssumption, PositionsAre DEF Exit, Stop, Executes
  <1>5. ASSUME NEW k \in Threads, NEW c \in Threads \ {k}, Clone(k, c) PROVE TypeOK'
    BY <1>5, ThreadsAssumption, PositionsAre DEF Clone, Executes
  <1>6. ASSUME NEW k \in Threads, NEW s \in Sections, EnterSection(k, s) PROVE TypeOK'
    <2>1. pos' = [pos EXCEPT ![k] = Start(s)] \/ pos' = [pos EXCEPT ![k] = In(s)]
      BY <1>6 DEF EnterSection
    <2>2. pos' \in [Threads -> Positions]
      BY <2>1, PositionsAre
    <2>3. kst' \in [Threads -> KernelStates] /\ ev' \in [Threads -> Events]
      BY <1>6 DEF EnterSection, Stop, Executes
    <2>4. visited' \in [Threads -> Seq(Sections)]
      BY <1>6 DEF EnterSection
    <2> QED BY <1>6, <2>1, <2>2, <2>3, <2>4 DEF EnterSection, Stop, Executes
  <1>7. ASSUME NEW k \in Threads, NEW s \in Sections, LeaveSection(k, s) PROVE TypeOK'
    <2>1. pos' \in [Threads -> Positions]
      BY <1>7, PositionsAre DEF LeaveSection, Stop, Executes
    <2>2. kst' \in [Threads -> KernelStates] /\ ev' \in [Threads -> Events]
      BY <1>7 DEF LeaveSection, Stop, Executes
    <2> QED BY <1>7, <2>1, <2>2 DEF LeaveSection, Stop, Executes
  <1>8. ASSUME NEW k \in Threads, Cont(k) PROVE TypeOK'
    BY <1>8, ThreadsAssumption, PositionsAre DEF Cont, Goto, CanResume, Resume
  <1>9. ASSUME NEW k \in Threads, ContEsrch(k) PROVE TypeOK'
    BY <1>9, ThreadsAssumption, PositionsAre DEF ContEsrch, Goto, CanResume
  <1>10. ASSUME NEW k \in Threads, ContWait(k) PROVE TypeOK'
    BY <1>10, ThreadsAssumption, PositionsAre DEF ContWait, Goto, CanResume, Resume
  <1>11. ASSUME NEW k \in Threads, Wait(k) PROVE TypeOK'
    BY <1>11, ThreadsAssumption, PositionsAre DEF Wait, Goto, Handler, Waited
  <1>12. ASSUME NEW k \in Threads, LockChild(k) PROVE TypeOK'
    BY <1>12, ThreadsAssumption, PositionsAre DEF LockChild
  <1>13. ASSUME NEW k \in Threads, LockPass(k) PROVE TypeOK'
    <2>1. CASE Goto(k, "lockStop", "cont")
      BY <1>13, <2>1 DEF LockPass, Goto
    <2>2. CASE Goto(k, "lockExit", "cont")
      BY <1>13, <2>2 DEF LockPass, Goto
    <2> QED BY <1>13, <2>1, <2>2 DEF LockPass
  <1>14. ASSUME NEW k \in Threads, LockTrap(k) PROVE TypeOK'
    <2>1. PICK s \in Sections :
                /\ sect' = [sect EXCEPT ![k] = s]
                /\ IF s \in Concurrent
                   THEN pc' = [pc EXCEPT ![k] = "step"] /\ UNCHANGED toStop
                   ELSE /\ pc' = [pc EXCEPT ![k] = "stop"]
                        /\ toStop' = {u \in Threads \ {k} : pc[u] # "off"}
      BY <1>14 DEF LockTrap
    <2>2. toStop' \subseteq Threads
      BY <2>1
    <2>3. sect' \in [Threads -> Sections \cup {None}]
      BY <2>1
    <2>4. pc' = [pc EXCEPT ![k] = "step"] \/ pc' = [pc EXCEPT ![k] = "stop"]
      BY <2>1
    <2> QED BY <1>14, <2>2, <2>3, <2>4 DEF LockTrap
  <1>15. ASSUME NEW k \in Threads, LockNoTrap(k) PROVE TypeOK'
    BY <1>15, ThreadsAssumption, PositionsAre DEF LockNoTrap, Fail
  <1>16. ASSUME NEW k \in Threads, NEW u \in Threads, StopSelf(k, u) PROVE TypeOK'
    <2>1. pend' = pend \/ pend' = [pend EXCEPT ![u] = TRUE]
      BY <1>16 DEF StopSelf
    <2>2. pend' \in [Threads -> BOOLEAN]
      BY <2>1
    <2>3. spared' \subseteq Threads
      BY <1>16 DEF StopSelf
    <2> QED BY <1>16, <2>1, <2>2, <2>3 DEF StopSelf
  <1>17. ASSUME NEW k \in Threads, StopDone(k) PROVE TypeOK'
    BY <1>17, ThreadsAssumption, PositionsAre DEF StopDone, Goto
  <1>18. ASSUME NEW k \in Threads, StartStep(k) PROVE TypeOK'
    BY <1>18, ThreadsAssumption, PositionsAre DEF StartStep, Goto, StepOver, Resume
  <1>19. ASSUME NEW k \in Threads, StepAgain(k) PROVE TypeOK'
    BY <1>19, ThreadsAssumption, PositionsAre DEF StepAgain, Goto, Resume
  <1>20. ASSUME NEW k \in Threads, StepFail(k) PROVE TypeOK'
    BY <1>20, ThreadsAssumption, PositionsAre DEF StepFail, Fail
  <1>21. ASSUME NEW k \in Threads, BeginSection(k) PROVE TypeOK'
    <2>1. armed' \subseteq Places
      BY <1>21, SectionsAssumption DEF BeginSection, Resume, SectionInv, Measuring, Stopping
    <2>2. kst' \in [Threads -> KernelStates] /\ ev' \in [Threads -> Events]
      BY <1>21 DEF BeginSection, Resume
    <2> QED BY <1>21, <2>1, <2>2 DEF BeginSection, Resume
  <1>22. ASSUME NEW k \in Threads, EndFunction(k) PROVE TypeOK'
    <2>1. armed' \subseteq Places
      BY <1>22, SectionsAssumption DEF EndFunction, Goto, Waited, Finish
    <2>2. results' \in [Threads -> Seq(Sections)]
      BY <1>22, SectionsAssumption DEF EndFunction, Goto, Waited, Finish
    <2>3. pos' \in [Threads -> Positions]
      BY <1>22, PositionsAre DEF EndFunction, Goto, Waited, Finish
    <2> QED BY <1>22, <2>1, <2>2, <2>3 DEF EndFunction, Goto, Waited, Finish
  <1>23. ASSUME NEW k \in Threads, EndRange(k) PROVE TypeOK'
    BY <1>23, ThreadsAssumption, PositionsAre DEF EndRange, Goto, StepOver, Resume
  <1>24. ASSUME NEW k \in Threads, EndReset(k) PROVE TypeOK'
    <2>1. armed' \subseteq Places
      BY <1>24 DEF EndReset, Waited, Finish, SectionInv, Measuring, Stopping
    <2>2. results' \in [Threads -> Seq(Sections)]
      BY <1>24 DEF EndReset, Waited, Finish, SectionInv, Measuring, Stopping
    <2> QED BY <1>24, <2>1, <2>2 DEF EndReset, Waited, Finish
  <1>25. ASSUME NEW k \in Threads, SectionFail(k) PROVE TypeOK'
    BY <1>25, ThreadsAssumption, PositionsAre DEF SectionFail, Fail
  <1>26. ASSUME UNCHANGED vars PROVE TypeOK'
    BY <1>26 DEF vars
  <1>q. QED BY <1>1, <1>2, <1>3, <1>4, <1>5, <1>6, <1>7, <1>8, <1>9, <1>10,
                <1>11, <1>12, <1>13, <1>14, <1>15, <1>16, <1>17, <1>18,
                <1>19, <1>20, <1>21, <1>22, <1>23, <1>24, <1>25, <1>26
            DEF Next, Kernel, Tracer, Finished

(* What the kernel holds of a tracee fits where its tracer is.             *)
LEMMA KernelStep ==
    ASSUME IInv, [Next]_vars
    PROVE  KernelInv'
  <1> USE DEF IInv, TypeOK, KernelInv, StepStates, LockStates, KernelStates, Events,
              TracerStates, kernel, target, tracers, history
  <1>1. ASSUME NEW k \in Threads, DeliverStop(k) PROVE KernelInv'
    BY <1>1 DEF DeliverStop, Stop
  <1>2. ASSUME NEW k \in Threads, StepDone(k) PROVE KernelInv'
    BY <1>2 DEF StepDone, Stop
  <1>3. ASSUME NEW k \in Threads, ReceiveSignal(k) PROVE KernelInv'
    BY <1>3 DEF ReceiveSignal, Stop, Executes, Fresh
  <1>4. ASSUME NEW k \in Threads, Exit(k) PROVE KernelInv'
    BY <1>4 DEF Exit, Stop, Executes, Fresh
  <1>5. ASSUME NEW k \in Threads, NEW c \in Threads \ {k}, Clone(k, c) PROVE KernelInv'
    BY <1>5 DEF Clone, Executes, Fresh
  <1>6. ASSUME NEW k \in Threads, NEW s \in Sections, EnterSection(k, s) PROVE KernelInv'
    BY <1>6 DEF EnterSection, Stop, Executes, Fresh
  <1>7. ASSUME NEW k \in Threads, NEW s \in Sections, LeaveSection(k, s) PROVE KernelInv'
    BY <1>7 DEF LeaveSection, Stop, Executes, Fresh
  <1>8. ASSUME NEW k \in Threads, Cont(k) PROVE KernelInv'
    BY <1>8 DEF Cont, Goto, CanResume, Resume
  <1>9. ASSUME NEW k \in Threads, ContEsrch(k) PROVE KernelInv'
    BY <1>9 DEF ContEsrch, Goto, CanResume
  <1>10. ASSUME NEW k \in Threads, ContWait(k) PROVE KernelInv'
    BY <1>10 DEF ContWait, Goto, CanResume, Resume
  <1>11. ASSUME NEW k \in Threads, Wait(k) PROVE KernelInv'
    <2>1. /\ ev[k] # "none" /\ ev'[k] = "none" /\ UNCHANGED <<kst, pend>>
          /\ pc[k] = "wait" /\ pc'[k] = Handler(ev[k])
          /\ \A j \in Threads \ {k} : pc'[j] = pc[j] /\ ev'[j] = ev[j]
      BY <1>11 DEF Wait, Goto, Waited
    <2>2. kst[k] \in {"stopped", "exiting"} \/ ev[k] = "exited"
      BY <2>1
    <2>3. /\ pc'[k] \in LockStates \cup {"cont", "done"}
          /\ pc'[k] = "done" <=> ev[k] = "exited"
          /\ pc'[k] \in {"lockTrap", "lockStop"} => kst[k] = "stopped"
      BY <2>1 DEF Handler
    <2> QED BY <2>1, <2>2, <2>3
  <1>12. ASSUME NEW k \in Threads, LockChild(k) PROVE KernelInv'
    <2>1. PICK c \in Threads \ {k} :
              /\ pc[k] = "lockChild" /\ pc[c] = "off" /\ kst[c] # "none"
              /\ pc'[k] = "cont" /\ pc'[c] = "cont"
              /\ \A j \in Threads \ {k, c} : pc'[j] = pc[j]
      BY <1>12, LockChildEffect
    <2>2. UNCHANGED <<kst, ev, pend>>
      BY <1>12 DEF LockChild
    <2>3. KernelInv
      OBVIOUS
    <2> HIDE DEF IInv
    <2> QED BY <2>1, <2>2, <2>3
  <1>13. ASSUME NEW k \in Threads, LockPass(k) PROVE KernelInv'
    BY <1>13 DEF LockPass, Goto
  <1>14. ASSUME NEW k \in Threads, LockTrap(k) PROVE KernelInv'
    BY <1>14 DEF LockTrap
  <1>15. ASSUME NEW k \in Threads, LockNoTrap(k) PROVE KernelInv'
    BY <1>15 DEF LockNoTrap, Fail
  <1>16. ASSUME NEW k \in Threads, NEW u \in Threads, StopSelf(k, u) PROVE KernelInv'
    BY <1>16 DEF StopSelf
  <1>17. ASSUME NEW k \in Threads, StopDone(k) PROVE KernelInv'
    BY <1>17 DEF StopDone, Goto
  <1>18. ASSUME NEW k \in Threads, StartStep(k) PROVE KernelInv'
    BY <1>18 DEF StartStep, Goto, StepOver, Resume
  <1>19. ASSUME NEW k \in Threads, StepAgain(k) PROVE KernelInv'
    BY <1>19 DEF StepAgain, Goto, Resume
  <1>20. ASSUME NEW k \in Threads, StepFail(k) PROVE KernelInv'
    BY <1>20 DEF StepFail, Fail
  <1>21. ASSUME NEW k \in Threads, BeginSection(k) PROVE KernelInv'
    BY <1>21 DEF BeginSection, Resume
  <1>22. ASSUME NEW k \in Threads, EndFunction(k) PROVE KernelInv'
    BY <1>22 DEF EndFunction, Goto, Waited, Finish
  <1>23. ASSUME NEW k \in Threads, EndRange(k) PROVE KernelInv'
    BY <1>23 DEF EndRange, Goto, StepOver, Resume
  <1>24. ASSUME NEW k \in Threads, EndReset(k) PROVE KernelInv'
    BY <1>24 DEF EndReset, Waited, Finish
  <1>25. ASSUME NEW k \in Threads, SectionFail(k) PROVE KernelInv'
    BY <1>25 DEF SectionFail, Fail
  <1>26. ASSUME UNCHANGED vars PROVE KernelInv'
    BY <1>26 DEF vars
  <1>q. QED BY <1>1, <1>2, <1>3, <1>4, <1>5, <1>6, <1>7, <1>8, <1>9, <1>10,
                <1>11, <1>12, <1>13, <1>14, <1>15, <1>16, <1>17, <1>18,
                <1>19, <1>20, <1>21, <1>22, <1>23, <1>24, <1>25, <1>26
            DEF Next, Kernel, Tracer, Finished

(* A tracee waited for by hand is new.                                     *)
LEMMA AttachStep ==
    ASSUME IInv, [Next]_vars
    PROVE  AttachInv'
  <1> USE DEF IInv, TypeOK, KernelInv, AttachInv, Attaching, StepStates, LockStates,
              KernelStates, Events, TracerStates, kernel, target, tracers, history
  <1>1. ASSUME NEW k \in Threads, DeliverStop(k) PROVE AttachInv'
    BY <1>1 DEF DeliverStop, Stop
  <1>2. ASSUME NEW k \in Threads, StepDone(k) PROVE AttachInv'
    BY <1>2 DEF StepDone, Stop
  <1>3. ASSUME NEW k \in Threads, ReceiveSignal(k) PROVE AttachInv'
    BY <1>3 DEF ReceiveSignal, Stop, Executes, Fresh
  <1>4. ASSUME NEW k \in Threads, Exit(k) PROVE AttachInv'
    BY <1>4 DEF Exit, Stop, Executes, Fresh
  <1>5. ASSUME NEW k \in Threads, NEW c \in Threads \ {k}, Clone(k, c) PROVE AttachInv'
    BY <1>5 DEF Clone, Executes, Fresh
  <1>6. ASSUME NEW k \in Threads, NEW s \in Sections, EnterSection(k, s) PROVE AttachInv'
    BY <1>6 DEF EnterSection, Stop, Executes, Fresh
  <1>7. ASSUME NEW k \in Threads, NEW s \in Sections, LeaveSection(k, s) PROVE AttachInv'
    BY <1>7 DEF LeaveSection, Stop, Executes, Fresh
  <1>8. ASSUME NEW k \in Threads, Cont(k) PROVE AttachInv'
    BY <1>8 DEF Cont, Goto, CanResume, Resume
  <1>9. ASSUME NEW k \in Threads, ContEsrch(k) PROVE AttachInv'
    BY <1>9 DEF ContEsrch, Goto, CanResume
  <1>10. ASSUME NEW k \in Threads, ContWait(k) PROVE AttachInv'
    BY <1>10 DEF ContWait, Goto, CanResume, Resume
  <1>11. ASSUME NEW k \in Threads, Wait(k) PROVE AttachInv'
    BY <1>11 DEF Wait, Goto, Handler, Waited
  <1>12. ASSUME NEW k \in Threads, LockChild(k) PROVE AttachInv'
    <2>1. PICK c \in Threads \ {k} :
              /\ pc[k] = "lockChild" /\ pc[c] = "off" /\ kst[c] # "none"
              /\ pc'[k] = "cont" /\ pc'[c] = "cont"
              /\ \A j \in Threads \ {k, c} : pc'[j] = pc[j]
      BY <1>12, LockChildEffect
    <2>2. UNCHANGED <<kst, ev, pend, pos, visited>> /\ kst[k] # "running"
      BY <1>12 DEF LockChild
    <2> HIDE DEF IInv
    <2>3. \A j \in Threads : Attaching(j)' => Attaching(j)
      BY <2>1, <2>2
    <2>4. AttachInv
      BY DEF IInv
    <2> QED BY <2>2, <2>3, <2>4 DEF AttachInv
  <1>13. ASSUME NEW k \in Threads, LockPass(k) PROVE AttachInv'
    BY <1>13 DEF LockPass, Goto
  <1>14. ASSUME NEW k \in Threads, LockTrap(k) PROVE AttachInv'
    BY <1>14 DEF LockTrap
  <1>15. ASSUME NEW k \in Threads, LockNoTrap(k) PROVE AttachInv'
    BY <1>15 DEF LockNoTrap, Fail
  <1>16. ASSUME NEW k \in Threads, NEW u \in Threads, StopSelf(k, u) PROVE AttachInv'
    <2>1. /\ UNCHANGED <<kst, ev, pc, pos, visited>>
          /\ \A j \in Threads : pend[j] => pend'[j]
      BY <1>16, StopSelfEffect DEF StopSelf
    <2> QED BY <2>1
  <1>17. ASSUME NEW k \in Threads, StopDone(k) PROVE AttachInv'
    BY <1>17 DEF StopDone, Goto
  <1>18. ASSUME NEW k \in Threads, StartStep(k) PROVE AttachInv'
    BY <1>18 DEF StartStep, Goto, StepOver, Resume
  <1>19. ASSUME NEW k \in Threads, StepAgain(k) PROVE AttachInv'
    BY <1>19 DEF StepAgain, Goto, Resume
  <1>20. ASSUME NEW k \in Threads, StepFail(k) PROVE AttachInv'
    BY <1>20 DEF StepFail, Fail
  <1>21. ASSUME NEW k \in Threads, BeginSection(k) PROVE AttachInv'
    BY <1>21 DEF BeginSection, Resume
  <1>22. ASSUME NEW k \in Threads, EndFunction(k) PROVE AttachInv'
    BY <1>22 DEF EndFunction, Goto, Waited, Finish
  <1>23. ASSUME NEW k \in Threads, EndRange(k) PROVE AttachInv'
    BY <1>23 DEF EndRange, Goto, StepOver, Resume
  <1>24. ASSUME NEW k \in Threads, EndReset(k) PROVE AttachInv'
    BY <1>24 DEF EndReset, Waited, Finish
  <1>25. ASSUME NEW k \in Threads, SectionFail(k) PROVE AttachInv'
    BY <1>25 DEF SectionFail, Fail
  <1>26. ASSUME UNCHANGED vars PROVE AttachInv'
    BY <1>26 DEF vars
  <1>q. QED BY <1>1, <1>2, <1>3, <1>4, <1>5, <1>6, <1>7, <1>8, <1>9, <1>10,
                <1>11, <1>12, <1>13, <1>14, <1>15, <1>16, <1>17, <1>18,
                <1>19, <1>20, <1>21, <1>22, <1>23, <1>24, <1>25, <1>26
            DEF Next, Kernel, Tracer, Finished

(* An announced thread has no tracer yet.                                  *)
LEMMA ChildrenStep ==
    ASSUME IInv, [Next]_vars
    PROVE  ChildrenInv'
  <1> USE DEF IInv, TypeOK, KernelInv, ChildrenInv, Announces, StepStates, LockStates,
              KernelStates, Events, TracerStates, kernel, target, tracers, history
  <1>1. ASSUME NEW k \in Threads, DeliverStop(k) PROVE ChildrenInv'
    BY <1>1 DEF DeliverStop, Stop
  <1>2. ASSUME NEW k \in Threads, StepDone(k) PROVE ChildrenInv'
    BY <1>2 DEF StepDone, Stop
  <1>3. ASSUME NEW k \in Threads, ReceiveSignal(k) PROVE ChildrenInv'
    BY <1>3 DEF ReceiveSignal, Stop, Executes, Fresh
  <1>4. ASSUME NEW k \in Threads, Exit(k) PROVE ChildrenInv'
    BY <1>4 DEF Exit, Stop, Executes, Fresh
  <1>5. ASSUME NEW k \in Threads, NEW c \in Threads \ {k}, Clone(k, c) PROVE ChildrenInv'
    BY <1>5 DEF Clone, Executes, Fresh
  <1>6. ASSUME NEW k \in Threads, NEW s \in Sections, EnterSection(k, s) PROVE ChildrenInv'
    <2>1. kst' = kst \/ kst' = [kst EXCEPT ![k] = "stopped"]
      BY <1>6 DEF EnterSection, Stop
    <2>2. \A j \in Threads : ev'[j] = "clone" => ev[j] = "clone"
      BY <1>6 DEF EnterSection, Stop
    <2> QED BY <1>6, <2>1, <2>2 DEF EnterSection
  <1>7. ASSUME NEW k \in Threads, NEW s \in Sections, LeaveSection(k, s) PROVE ChildrenInv'
    BY <1>7 DEF LeaveSection, Stop, Executes, Fresh
  <1>8. ASSUME NEW k \in Threads, Cont(k) PROVE ChildrenInv'
    BY <1>8 DEF Cont, Goto, CanResume, Resume
  <1>9. ASSUME NEW k \in Threads, ContEsrch(k) PROVE ChildrenInv'
    BY <1>9 DEF ContEsrch, Goto, CanResume
  <1>10. ASSUME NEW k \in Threads, ContWait(k) PROVE ChildrenInv'
    BY <1>10 DEF ContWait, Goto, CanResume, Resume
  <1>11. ASSUME NEW k \in Threads, Wait(k) PROVE ChildrenInv'
    BY <1>11 DEF Wait, Goto, Handler, Waited
  <1>12. ASSUME NEW k \in Threads, LockChild(k) PROVE ChildrenInv'
    BY <1>12 DEF LockChild
  <1>13. ASSUME NEW k \in Threads, LockPass(k) PROVE ChildrenInv'
    BY <1>13 DEF LockPass, Goto
  <1>14. ASSUME NEW k \in Threads, LockTrap(k) PROVE ChildrenInv'
    BY <1>14 DEF LockTrap
  <1>15. ASSUME NEW k \in Threads, LockNoTrap(k) PROVE ChildrenInv'
    BY <1>15 DEF LockNoTrap, Fail
  <1>16. ASSUME NEW k \in Threads, NEW u \in Threads, StopSelf(k, u) PROVE ChildrenInv'
    BY <1>16 DEF StopSelf
  <1>17. ASSUME NEW k \in Threads, StopDone(k) PROVE ChildrenInv'
    BY <1>17 DEF StopDone, Goto
  <1>18. ASSUME NEW k \in Threads, StartStep(k) PROVE ChildrenInv'
    BY <1>18 DEF StartStep, Goto, StepOver, Resume
  <1>19. ASSUME NEW k \in Threads, StepAgain(k) PROVE ChildrenInv'
    BY <1>19 DEF StepAgain, Goto, Resume
  <1>20. ASSUME NEW k \in Threads, StepFail(k) PROVE ChildrenInv'
    BY <1>20 DEF StepFail, Fail
  <1>21. ASSUME NEW k \in Threads, BeginSection(k) PROVE ChildrenInv'
    BY <1>21 DEF BeginSection, Resume
  <1>22. ASSUME NEW k \in Threads, EndFunction(k) PROVE ChildrenInv'
    BY <1>22 DEF EndFunction, Goto, Waited, Finish
  <1>23. ASSUME NEW k \in Threads, EndRange(k) PROVE ChildrenInv'
    BY <1>23 DEF EndRange, Goto, StepOver, Resume
  <1>24. ASSUME NEW k \in Threads, EndReset(k) PROVE ChildrenInv'
    BY <1>24 DEF EndReset, Waited, Finish
  <1>25. ASSUME NEW k \in Threads, SectionFail(k) PROVE ChildrenInv'
    BY <1>25 DEF SectionFail, Fail
  <1>26. ASSUME UNCHANGED vars PROVE ChildrenInv'
    BY <1>26 DEF vars
  <1>q. QED BY <1>1, <1>2, <1>3, <1>4, <1>5, <1>6, <1>7, <1>8, <1>9, <1>10,
                <1>11, <1>12, <1>13, <1>14, <1>15, <1>16, <1>17, <1>18,
                <1>19, <1>20, <1>21, <1>22, <1>23, <1>24, <1>25, <1>26
            DEF Next, Kernel, Tracer, Finished

(* The tracer that measures holds the barrier.                             *)
LEMMA OneSectionStep ==
    ASSUME IInv, [Next]_vars
    PROVE  OneSection'
  <1> USE DEF IInv, TypeOK, KernelInv, ChildrenInv, OneSection, Stopping, Measuring,
              StepStates, LockStates, KernelStates, Events, TracerStates, kernel, target,
              tracers, history
  <1>1. ASSUME NEW k \in Threads, DeliverStop(k) PROVE OneSection'
    BY <1>1, ThreadsAssumption DEF DeliverStop, Stop
  <1>2. ASSUME NEW k \in Threads, StepDone(k) PROVE OneSection'
    BY <1>2, ThreadsAssumption DEF StepDone, Stop
  <1>3. ASSUME NEW k \in Threads, ReceiveSignal(k) PROVE OneSection'
    BY <1>3, ThreadsAssumption DEF ReceiveSignal, Stop, Executes
  <1>4. ASSUME NEW k \in Threads, Exit(k) PROVE OneSection'
    BY <1>4, ThreadsAssumption DEF Exit, Stop, Executes
  <1>5. ASSUME NEW k \in Threads, NEW c \in Threads \ {k}, Clone(k, c) PROVE OneSection'
    BY <1>5, ThreadsAssumption DEF Clone, Executes
  <1>6. ASSUME NEW k \in Threads, NEW s \in Sections, EnterSection(k, s) PROVE OneSection'
    BY <1>6, ThreadsAssumption DEF EnterSection, Stop, Executes
  <1>7. ASSUME NEW k \in Threads, NEW s \in Sections, LeaveSection(k, s) PROVE OneSection'
    BY <1>7, ThreadsAssumption DEF LeaveSection, Stop, Executes
  <1>8. ASSUME NEW k \in Threads, Cont(k) PROVE OneSection'
    BY <1>8, ThreadsAssumption DEF Cont, Goto, CanResume, Resume
  <1>9. ASSUME NEW k \in Threads, ContEsrch(k) PROVE OneSection'
    BY <1>9, ThreadsAssumption DEF ContEsrch, Goto, CanResume
  <1>10. ASSUME NEW k \in Threads, ContWait(k) PROVE OneSection'
    BY <1>10, ThreadsAssumption DEF ContWait, Goto, CanResume, Resume
  <1>11. ASSUME NEW k \in Threads, Wait(k) PROVE OneSection'
    BY <1>11, ThreadsAssumption DEF Wait, Goto, Handler, Waited
  <1>12. ASSUME NEW k \in Threads, LockChild(k) PROVE OneSection'
    <2>1. PICK c \in Threads \ {k} :
              /\ pc[k] = "lockChild" /\ pc[c] = "off"
              /\ pc'[k] = "cont" /\ pc'[c] = "cont"
              /\ \A j \in Threads \ {k, c} : pc'[j] = pc[j]
      BY <1>12, LockChildEffect
    <2> QED BY <1>12, <2>1, ThreadsAssumption DEF LockChild
  <1>13. ASSUME NEW k \in Threads, LockPass(k) PROVE OneSection'
    BY <1>13, ThreadsAssumption DEF LockPass, Goto
  <1>14. ASSUME NEW k \in Threads, LockTrap(k) PROVE OneSection'
    BY <1>14, ThreadsAssumption DEF LockTrap
  <1>15. ASSUME NEW k \in Threads, LockNoTrap(k) PROVE OneSection'
    BY <1>15, ThreadsAssumption DEF LockNoTrap, Fail
  <1>16. ASSUME NEW k \in Threads, NEW u \in Threads, StopSelf(k, u) PROVE OneSection'
    BY <1>16, ThreadsAssumption DEF StopSelf
  <1>17. ASSUME NEW k \in Threads, StopDone(k) PROVE OneSection'
    BY <1>17, ThreadsAssumption DEF StopDone, Goto
  <1>18. ASSUME NEW k \in Threads, StartStep(k) PROVE OneSection'
    BY <1>18, ThreadsAssumption DEF StartStep, Goto, StepOver, Resume
  <1>19. ASSUME NEW k \in Threads, StepAgain(k) PROVE OneSection'
    BY <1>19, ThreadsAssumption DEF StepAgain, Goto, Resume
  <1>20. ASSUME NEW k \in Threads, StepFail(k) PROVE OneSection'
    BY <1>20, ThreadsAssumption DEF StepFail, Fail
  <1>21. ASSUME NEW k \in Threads, BeginSection(k) PROVE OneSection'
    BY <1>21, ThreadsAssumption DEF BeginSection, Resume
  <1>22. ASSUME NEW k \in Threads, EndFunction(k) PROVE OneSection'
    BY <1>22, ThreadsAssumption DEF EndFunction, Goto, Waited, Finish
  <1>23. ASSUME NEW k \in Threads, EndRange(k) PROVE OneSection'
    BY <1>23, ThreadsAssumption DEF EndRange, Goto, StepOver, Resume
  <1>24. ASSUME NEW k \in Threads, EndReset(k) PROVE OneSection'
    BY <1>24, ThreadsAssumption DEF EndReset, Waited, Finish
  <1>25. ASSUME NEW k \in Threads, SectionFail(k) PROVE OneSection'
    BY <1>25, ThreadsAssumption DEF SectionFail, Fail
  <1>26. ASSUME UNCHANGED vars PROVE OneSection'
    BY <1>26 DEF vars
  <1>q. QED BY <1>1, <1>2, <1>3, <1>4, <1>5, <1>6, <1>7, <1>8, <1>9, <1>10,
                <1>11, <1>12, <1>13, <1>14, <1>15, <1>16, <1>17, <1>18,
                <1>19, <1>20, <1>21, <1>22, <1>23, <1>24, <1>25, <1>26
            DEF Next, Kernel, Tracer, Finished

(* It measures a section.                                                  *)
LEMMA SectionStep ==
    ASSUME IInv, [Next]_vars
    PROVE  SectionInv'
  <1> USE DEF IInv, TypeOK, KernelInv, SectionInv, Stopping, Measuring, StepStates,
              LockStates, KernelStates, Events, TracerStates, kernel, target, tracers,
              history
  <1>1. ASSUME NEW k \in Threads, DeliverStop(k) PROVE SectionInv'
    BY <1>1 DEF DeliverStop, Stop
  <1>2. ASSUME NEW k \in Threads, StepDone(k) PROVE SectionInv'
    BY <1>2 DEF StepDone, Stop
  <1>3. ASSUME NEW k \in Threads, ReceiveSignal(k) PROVE SectionInv'
    BY <1>3 DEF ReceiveSignal, Stop, Executes
  <1>4. ASSUME NEW k \in Threads, Exit(k) PROVE SectionInv'
    BY <1>4 DEF Exit, Stop, Executes
  <1>5. ASSUME NEW k \in Threads, NEW c \in Threads \ {k}, Clone(k, c) PROVE SectionInv'
    BY <1>5 DEF Clone, Executes
  <1>6. ASSUME NEW k \in Threads, NEW s \in Sections, EnterSection(k, s) PROVE SectionInv'
    BY <1>6 DEF EnterSection, Stop, Executes
  <1>7. ASSUME NEW k \in Threads, NEW s \in Sections, LeaveSection(k, s) PROVE SectionInv'
    BY <1>7 DEF LeaveSection, Stop, Executes
  <1>8. ASSUME NEW k \in Threads, Cont(k) PROVE SectionInv'
    BY <1>8 DEF Cont, Goto, CanResume, Resume
  <1>9. ASSUME NEW k \in Threads, ContEsrch(k) PROVE SectionInv'
    BY <1>9 DEF ContEsrch, Goto, CanResume
  <1>10. ASSUME NEW k \in Threads, ContWait(k) PROVE SectionInv'
    BY <1>10 DEF ContWait, Goto, CanResume, Resume
  <1>11. ASSUME NEW k \in Threads, Wait(k) PROVE SectionInv'
    BY <1>11 DEF Wait, Goto, Handler, Waited
  <1>12. ASSUME NEW k \in Threads, LockChild(k) PROVE SectionInv'
    BY <1>12 DEF LockChild
  <1>13. ASSUME NEW k \in Threads, LockPass(k) PROVE SectionInv'
    BY <1>13 DEF LockPass, Goto
  <1>14. ASSUME NEW k \in Threads, LockTrap(k) PROVE SectionInv'
    BY <1>14 DEF LockTrap
  <1>15. ASSUME NEW k \in Threads, LockNoTrap(k) PROVE SectionInv'
    BY <1>15 DEF LockNoTrap, Fail
  <1>16. ASSUME NEW k \in Threads, NEW u \in Threads, StopSelf(k, u) PROVE SectionInv'
    BY <1>16 DEF StopSelf
  <1>17. ASSUME NEW k \in Threads, StopDone(k) PROVE SectionInv'
    BY <1>17 DEF StopDone, Goto
  <1>18. ASSUME NEW k \in Threads, StartStep(k) PROVE SectionInv'
    BY <1>18 DEF StartStep, Goto, StepOver, Resume
  <1>19. ASSUME NEW k \in Threads, StepAgain(k) PROVE SectionInv'
    BY <1>19 DEF StepAgain, Goto, Resume
  <1>20. ASSUME NEW k \in Threads, StepFail(k) PROVE SectionInv'
    BY <1>20 DEF StepFail, Fail
  <1>21. ASSUME NEW k \in Threads, BeginSection(k) PROVE SectionInv'
    BY <1>21 DEF BeginSection, Resume
  <1>22. ASSUME NEW k \in Threads, EndFunction(k) PROVE SectionInv'
    BY <1>22 DEF EndFunction, Goto, Waited, Finish
  <1>23. ASSUME NEW k \in Threads, EndRange(k) PROVE SectionInv'
    BY <1>23 DEF EndRange, Goto, StepOver, Resume
  <1>24. ASSUME NEW k \in Threads, EndReset(k) PROVE SectionInv'
    BY <1>24 DEF EndReset, Waited, Finish
  <1>25. ASSUME NEW k \in Threads, SectionFail(k) PROVE SectionInv'
    BY <1>25 DEF SectionFail, Fail
  <1>26. ASSUME UNCHANGED vars PROVE SectionInv'
    BY <1>26 DEF vars
  <1>q. QED BY <1>1, <1>2, <1>3, <1>4, <1>5, <1>6, <1>7, <1>8, <1>9, <1>10,
                <1>11, <1>12, <1>13, <1>14, <1>15, <1>16, <1>17, <1>18,
                <1>19, <1>20, <1>21, <1>22, <1>23, <1>24, <1>25, <1>26
            DEF Next, Kernel, Tracer, Finished

(* The tracees to stop are other ones, and have tracers.                   *)
LEMMA StopStep ==
    ASSUME IInv, [Next]_vars
    PROVE  StopInv'
  <1> USE DEF IInv, TypeOK, KernelInv, StopInv, OneSection, Stopping, Measuring,
              KernelStates, Events, TracerStates, kernel, target, tracers, history
  <1>1. ASSUME NEW k \in Threads, DeliverStop(k) PROVE StopInv'
    BY <1>1, ThreadsAssumption DEF DeliverStop, Stop
  <1>2. ASSUME NEW k \in Threads, StepDone(k) PROVE StopInv'
    BY <1>2, ThreadsAssumption DEF StepDone, Stop
  <1>3. ASSUME NEW k \in Threads, ReceiveSignal(k) PROVE StopInv'
    BY <1>3, ThreadsAssumption DEF ReceiveSignal, Stop, Executes
  <1>4. ASSUME NEW k \in Threads, Exit(k) PROVE StopInv'
    BY <1>4, ThreadsAssumption DEF Exit, Stop, Executes
  <1>5. ASSUME NEW k \in Threads, NEW c \in Threads \ {k}, Clone(k, c) PROVE StopInv'
    BY <1>5, ThreadsAssumption DEF Clone, Executes
  <1>6. ASSUME NEW k \in Threads, NEW s \in Sections, EnterSection(k, s) PROVE StopInv'
    BY <1>6, ThreadsAssumption DEF EnterSection, Stop, Executes
  <1>7. ASSUME NEW k \in Threads, NEW s \in Sections, LeaveSection(k, s) PROVE StopInv'
    BY <1>7, ThreadsAssumption DEF LeaveSection, Stop, Executes
  <1>8. ASSUME NEW k \in Threads, Cont(k) PROVE StopInv'
    BY <1>8, ThreadsAssumption DEF Cont, Goto, CanResume, Resume
  <1>9. ASSUME NEW k \in Threads, ContEsrch(k) PROVE StopInv'
    BY <1>9, ThreadsAssumption DEF ContEsrch, Goto, CanResume
  <1>10. ASSUME NEW k \in Threads, ContWait(k) PROVE StopInv'
    BY <1>10, ThreadsAssumption DEF ContWait, Goto, CanResume, Resume
  <1>11. ASSUME NEW k \in Threads, Wait(k) PROVE StopInv'
    BY <1>11, ThreadsAssumption DEF Wait, Goto, Handler, Waited
  <1>12. ASSUME NEW k \in Threads, LockChild(k) PROVE StopInv'
    BY <1>12, ThreadsAssumption DEF LockChild
  <1>13. ASSUME NEW k \in Threads, LockPass(k) PROVE StopInv'
    <2>1. UNCHANGED <<sect, toStop>>
      BY <1>13 DEF LockPass
    <2>2. /\ \A j \in Threads : pc'[j] = "stop" => pc[j] = "stop"
          /\ \A j \in Threads : pc'[j] = "off" => pc[j] = "off"
      BY <1>13 DEF LockPass, Goto
    <2> QED BY <2>1, <2>2
  <1>14. ASSUME NEW k \in Threads, LockTrap(k) PROVE StopInv'
    BY <1>14, ThreadsAssumption DEF LockTrap
  <1>15. ASSUME NEW k \in Threads, LockNoTrap(k) PROVE StopInv'
    BY <1>15, ThreadsAssumption DEF LockNoTrap, Fail
  <1>16. ASSUME NEW k \in Threads, NEW u \in Threads, StopSelf(k, u) PROVE StopInv'
    BY <1>16, ThreadsAssumption DEF StopSelf
  <1>17. ASSUME NEW k \in Threads, StopDone(k) PROVE StopInv'
    BY <1>17, ThreadsAssumption DEF StopDone, Goto
  <1>18. ASSUME NEW k \in Threads, StartStep(k) PROVE StopInv'
    BY <1>18, ThreadsAssumption DEF StartStep, Goto, StepOver, Resume
  <1>19. ASSUME NEW k \in Threads, StepAgain(k) PROVE StopInv'
    <2>1. UNCHANGED <<sect, toStop>>
      BY <1>19 DEF StepAgain
    <2>2. /\ \A j \in Threads : pc'[j] = "stop" => pc[j] = "stop"
          /\ \A j \in Threads : pc'[j] = "off" => pc[j] = "off"
      BY <1>19 DEF StepAgain, Goto
    <2> QED BY <2>1, <2>2
  <1>20. ASSUME NEW k \in Threads, StepFail(k) PROVE StopInv'
    BY <1>20, ThreadsAssumption DEF StepFail, Fail
  <1>21. ASSUME NEW k \in Threads, BeginSection(k) PROVE StopInv'
    BY <1>21, ThreadsAssumption DEF BeginSection, Resume
  <1>22. ASSUME NEW k \in Threads, EndFunction(k) PROVE StopInv'
    BY <1>22, ThreadsAssumption DEF EndFunction, Goto, Waited, Finish
  <1>23. ASSUME NEW k \in Threads, EndRange(k) PROVE StopInv'
    BY <1>23, ThreadsAssumption DEF EndRange, Goto, StepOver, Resume
  <1>24. ASSUME NEW k \in Threads, EndReset(k) PROVE StopInv'
    BY <1>24, ThreadsAssumption DEF EndReset, Waited, Finish
  <1>25. ASSUME NEW k \in Threads, SectionFail(k) PROVE StopInv'
    BY <1>25, ThreadsAssumption DEF SectionFail, Fail
  <1>26. ASSUME UNCHANGED vars PROVE StopInv'
    BY <1>26 DEF vars
  <1>q. QED BY <1>1, <1>2, <1>3, <1>4, <1>5, <1>6, <1>7, <1>8, <1>9, <1>10,
                <1>11, <1>12, <1>13, <1>14, <1>15, <1>16, <1>17, <1>18,
                <1>19, <1>20, <1>21, <1>22, <1>23, <1>24, <1>25, <1>26
            DEF Next, Kernel, Tracer, Finished

(* Which traps are out follows from where the holder of the barrier is.    *)
LEMMA TrapsStep ==
    ASSUME IInv, [Next]_vars
    PROVE  TrapsInv'
  <1> USE DEF IInv, TypeOK, NoFailure, TrapsInv, OneSection, SectionInv, StopInv,
              Stopping, Measuring, KernelStates, Events, TracerStates, kernel, target,
              tracers, history
  <1>1. ASSUME NEW k \in Threads, DeliverStop(k) PROVE TrapsInv'
    BY <1>1, ThreadsAssumption DEF DeliverStop, Stop
  <1>2. ASSUME NEW k \in Threads, StepDone(k) PROVE TrapsInv'
    BY <1>2, ThreadsAssumption DEF StepDone, Stop
  <1>3. ASSUME NEW k \in Threads, ReceiveSignal(k) PROVE TrapsInv'
    BY <1>3, ThreadsAssumption DEF ReceiveSignal, Stop, Executes
  <1>4. ASSUME NEW k \in Threads, Exit(k) PROVE TrapsInv'
    BY <1>4, ThreadsAssumption DEF Exit, Stop, Executes
  <1>5. ASSUME NEW k \in Threads, NEW c \in Threads \ {k}, Clone(k, c) PROVE TrapsInv'
    BY <1>5, ThreadsAssumption DEF Clone, Executes
  <1>6. ASSUME NEW k \in Threads, NEW s \in Sections, EnterSection(k, s) PROVE TrapsInv'
    BY <1>6, ThreadsAssumption DEF EnterSection, Stop, Executes
  <1>7. ASSUME NEW k \in Threads, NEW s \in Sections, LeaveSection(k, s) PROVE TrapsInv'
    BY <1>7, ThreadsAssumption DEF LeaveSection, Stop, Executes
  <1>8. ASSUME NEW k \in Threads, Cont(k) PROVE TrapsInv'
    BY <1>8, ThreadsAssumption DEF Cont, Goto, CanResume, Resume
  <1>9. ASSUME NEW k \in Threads, ContEsrch(k) PROVE TrapsInv'
    BY <1>9, ThreadsAssumption DEF ContEsrch, Goto, CanResume
  <1>10. ASSUME NEW k \in Threads, ContWait(k) PROVE TrapsInv'
    BY <1>10, ThreadsAssumption DEF ContWait, Goto, CanResume, Resume
  <1>11. ASSUME NEW k \in Threads, Wait(k) PROVE TrapsInv'
    BY <1>11, ThreadsAssumption DEF Wait, Goto, Handler, Waited
  <1>12. ASSUME NEW k \in Threads, LockChild(k) PROVE TrapsInv'
    <2>1. PICK c \in Threads \ {k} :
              /\ pc[k] = "lockChild" /\ pc[c] = "off"
              /\ pc'[k] = "cont" /\ pc'[c] = "cont"
              /\ \A j \in Threads \ {k, c} : pc'[j] = pc[j]
      BY <1>12, LockChildEffect
    <2>2. \A j \in Threads : pc'[j] # "stop" /\ pc'[j] \notin Measuring
      BY <1>12, <2>1, FreeBarrier DEF LockChild
    <2>3. NoFailure' => NoFailure
      BY <2>1
    <2>4. UNCHANGED armed /\ Registered' = Registered /\ barrier = None
      BY <1>12 DEF LockChild, Registered
    <2>5. TrapsInv
      BY DEF IInv
    <2> HIDE DEF NoFailure, IInv
    <2> QED BY <2>2, <2>3, <2>4, <2>5
  <1>13. ASSUME NEW k \in Threads, LockPass(k) PROVE TrapsInv'
    <2>1. UNCHANGED <<sect, armed, barrier>>
      BY <1>13 DEF LockPass
    <2>2. /\ pc[k] \in LockStates /\ pc'[k] = "cont"
          /\ \A j \in Threads \ {k} : pc'[j] = pc[j]
      BY <1>13 DEF LockPass, Goto, LockStates
    <2> QED BY <2>1, <2>2 DEF LockStates
  <1>14. ASSUME NEW k \in Threads, LockTrap(k) PROVE TrapsInv'
    BY <1>14, ThreadsAssumption DEF LockTrap
  <1>15. ASSUME NEW k \in Threads, LockNoTrap(k) PROVE TrapsInv'
    BY <1>15, ThreadsAssumption DEF LockNoTrap, Fail
  <1>16. ASSUME NEW k \in Threads, NEW u \in Threads, StopSelf(k, u) PROVE TrapsInv'
    BY <1>16, ThreadsAssumption DEF StopSelf
  <1>17. ASSUME NEW k \in Threads, StopDone(k) PROVE TrapsInv'
    BY <1>17, ThreadsAssumption DEF StopDone, Goto
  <1>18. ASSUME NEW k \in Threads, StartStep(k) PROVE TrapsInv'
    BY <1>18, ThreadsAssumption DEF StartStep, Goto, StepOver, Resume
  <1>19. ASSUME NEW k \in Threads, StepAgain(k) PROVE TrapsInv'
    BY <1>19, ThreadsAssumption DEF StepAgain, Goto, Resume
  <1>20. ASSUME NEW k \in Threads, StepFail(k) PROVE TrapsInv'
    BY <1>20, ThreadsAssumption DEF StepFail, Fail
  <1>21. ASSUME NEW k \in Threads, BeginSection(k) PROVE TrapsInv'
    BY <1>21, ThreadsAssumption DEF BeginSection, Resume
  <1>22. ASSUME NEW k \in Threads, EndFunction(k) PROVE TrapsInv'
    <2>1. ASSUME NoFailure'
          PROVE  armed' = Registered
      <3>1. /\ sect[k] \in FuncSections /\ sect[k] \in Sections
            /\ armed = (Registered \ {Start(sect[k])}) \cup {End(sect[k])}
        BY <1>22, <2>1, SectionsAssumption DEF EndFunction, Goto, NoFailure, TrapsInv
      <3>2. Start(sect[k]) \in Registered /\ End(sect[k]) \notin Registered
        BY <3>1 DEF Registered, Start, End
      <3>3. armed' = (armed \ {End(sect[k])}) \cup {Start(sect[k])}
        BY <1>22 DEF EndFunction
      <3> QED BY <3>1, <3>2, <3>3
    <2>2. \A j \in Threads : pc'[j] \notin Stopping \cup Measuring
      BY <1>22 DEF EndFunction, Goto, OneSection, Stopping, Measuring
    <2>3. Registered' = Registered
      BY DEF Registered
    <2> QED BY <2>1, <2>2, <2>3 DEF TrapsInv, Stopping, Measuring
  <1>23. ASSUME NEW k \in Threads, EndRange(k) PROVE TrapsInv'
    BY <1>23, ThreadsAssumption DEF EndRange, Goto, StepOver, Resume
  <1>24. ASSUME NEW k \in Threads, EndReset(k) PROVE TrapsInv'
    <2>1. ASSUME NoFailure'
          PROVE  armed' = Registered
      <3>1. /\ sect[k] \in Sections \ FuncSections
            /\ armed = Registered \ {Start(sect[k]), End(sect[k])}
        BY <1>24, <2>1 DEF EndReset, NoFailure, TrapsInv, SectionInv, Measuring
      <3>2. Start(sect[k]) \in Registered /\ End(sect[k]) \in Registered
        BY <3>1 DEF Registered
      <3>3. armed' = armed \cup {End(sect[k]), Start(sect[k])}
        BY <1>24 DEF EndReset
      <3> QED BY <3>1, <3>2, <3>3
    <2>2. \A j \in Threads : pc'[j] \notin Stopping \cup Measuring
      BY <1>24 DEF EndReset, OneSection, Stopping, Measuring
    <2>3. Registered' = Registered
      BY DEF Registered
    <2> QED BY <2>1, <2>2, <2>3 DEF TrapsInv, Stopping, Measuring
  <1>25. ASSUME NEW k \in Threads, SectionFail(k) PROVE TrapsInv'
    BY <1>25, ThreadsAssumption DEF SectionFail, Fail
  <1>26. ASSUME UNCHANGED vars PROVE TrapsInv'
    BY <1>26 DEF vars
  <1>q. QED BY <1>1, <1>2, <1>3, <1>4, <1>5, <1>6, <1>7, <1>8, <1>9, <1>10,
                <1>11, <1>12, <1>13, <1>14, <1>15, <1>16, <1>17, <1>18,
                <1>19, <1>20, <1>21, <1>22, <1>23, <1>24, <1>25, <1>26
            DEF Next, Kernel, Tracer, Finished

(* A tracee that was signalled cannot run on.                              *)
LEMMA HaltedStep ==
    ASSUME IInv, [Next]_vars
    PROVE  HaltedInv'
  <1> USE DEF IInv, TypeOK, KernelInv, HaltedInv, Held, Exclusive, OneSection, StopInv,
              Stopping, Measuring, LockStates, StepStates, KernelStates, Events,
              TracerStates, kernel, target, tracers, history
  <1>1. ASSUME NEW k \in Threads, DeliverStop(k) PROVE HaltedInv'
    BY <1>1, ThreadsAssumption DEF DeliverStop, Stop
  <1>2. ASSUME NEW k \in Threads, StepDone(k) PROVE HaltedInv'
    BY <1>2, ThreadsAssumption DEF StepDone, Stop
  <1>3. ASSUME NEW k \in Threads, ReceiveSignal(k) PROVE HaltedInv'
    BY <1>3, ThreadsAssumption DEF ReceiveSignal, Stop, Executes, Fresh
  <1>4. ASSUME NEW k \in Threads, Exit(k) PROVE HaltedInv'
    BY <1>4, ThreadsAssumption DEF Exit, Stop, Executes, Fresh
  <1>5. ASSUME NEW k \in Threads, NEW c \in Threads \ {k}, Clone(k, c) PROVE HaltedInv'
    BY <1>5, ThreadsAssumption DEF Clone, Executes, Fresh
  <1>6. ASSUME NEW k \in Threads, NEW s \in Sections, EnterSection(k, s) PROVE HaltedInv'
    <2>1. UNCHANGED <<pend, pc, sect, toStop, spared>>
      BY <1>6 DEF EnterSection
    <2>2. \/ UNCHANGED <<kst, ev>>
          \/ /\ kst' = [kst EXCEPT ![k] = "stopped"]
             /\ ev' = [ev EXCEPT ![k] = "trap"]
             /\ kst[k] = "running"
      BY <1>6 DEF EnterSection, Executes, Stop
    <2>3. \A j \in Threads : Held(j) => Held(j)'
      BY <2>1, <2>2
    <2> QED BY <2>1, <2>3 DEF HaltedInv
  <1>7. ASSUME NEW k \in Threads, NEW s \in Sections, LeaveSection(k, s) PROVE HaltedInv'
    BY <1>7, ThreadsAssumption DEF LeaveSection, Stop, Executes, Fresh
  <1>8. ASSUME NEW k \in Threads, Cont(k) PROVE HaltedInv'
    BY <1>8, ThreadsAssumption DEF Cont, Goto, CanResume, Resume
  <1>9. ASSUME NEW k \in Threads, ContEsrch(k) PROVE HaltedInv'
    <2>1. /\ pc[k] = "cont" /\ pc'[k] = "contwait" /\ kst[k] \notin {"stopped", "exiting"}
          /\ \A j \in Threads \ {k} : pc'[j] = pc[j]
          /\ UNCHANGED <<kst, ev, pend, sect, toStop, spared>>
      BY <1>9 DEF ContEsrch, Goto, CanResume
    <2>2. \A j \in Threads : Held(j) => Held(j)'
      BY <2>1
    <2>3. \A j \in Threads : Exclusive(j)' \/ pc'[j] = "stop" => j # k /\ pc'[j] = pc[j]
      BY <2>1
    <2> QED BY <2>1, <2>2, <2>3 DEF HaltedInv
  <1>10. ASSUME NEW k \in Threads, ContWait(k) PROVE HaltedInv'
    BY <1>10, ThreadsAssumption DEF ContWait, Goto, CanResume, Resume
  <1>11. ASSUME NEW k \in Threads, Wait(k) PROVE HaltedInv'
    BY <1>11, ThreadsAssumption DEF Wait, Goto, Handler, Waited
  <1>12. ASSUME NEW k \in Threads, LockChild(k) PROVE HaltedInv'
    <2>1. PICK c \in Threads \ {k} :
              /\ pc[k] = "lockChild" /\ pc[c] = "off"
              /\ pc'[k] = "cont" /\ pc'[c] = "cont"
              /\ \A j \in Threads \ {k, c} : pc'[j] = pc[j]
      BY <1>12, LockChildEffect
    <2>2. \A j \in Threads : pc'[j] # "stop" /\ pc'[j] \notin Measuring
      BY <1>12, <2>1, FreeBarrier DEF LockChild
    <2> QED BY <2>2
  <1>13. ASSUME NEW k \in Threads, LockPass(k) PROVE HaltedInv'
    <2>1. /\ barrier = None /\ pc'[k] = "cont"
          /\ \A j \in Threads \ {k} : pc'[j] = pc[j]
      BY <1>13 DEF LockPass, Goto
    <2>2. \A j \in Threads : pc'[j] # "stop" /\ pc'[j] \notin Measuring
      BY <2>1, FreeBarrier
    <2> QED BY <2>2
  <1>14. ASSUME NEW k \in Threads, LockTrap(k) PROVE HaltedInv'
    <2>1. PICK s \in Sections :
                /\ sect' = [sect EXCEPT ![k] = s]
                /\ IF s \in Concurrent
                   THEN pc' = [pc EXCEPT ![k] = "step"] /\ UNCHANGED toStop
                   ELSE /\ pc' = [pc EXCEPT ![k] = "stop"]
                        /\ toStop' = {u \in Threads \ {k} : pc[u] # "off"}
      BY <1>14 DEF LockTrap
    <2>2. /\ UNCHANGED <<kst, ev, pend, spared>> /\ sect'[k] = s
          /\ \A j \in Threads \ {k} : pc'[j] = pc[j] /\ pc[j] # "stop" /\ pc[j] \notin Measuring
      BY <1>14, <2>1, FreeBarrier DEF LockTrap
    <2>3. CASE s \in Concurrent
      BY <2>1, <2>2, <2>3
    <2>4. CASE s \notin Concurrent
      <3>1. \A u \in Threads \ {k} : pc[u] = "off" => Held(u)
        BY DEF AttachInv, Attaching
      <3>2. \A u \in Threads \ {k} : Held(u) => Held(u)'
        BY <2>2
      <3>3. pc'[k] = "stop" /\ toStop' = {u \in Threads \ {k} : pc[u] # "off"}
        BY <2>1, <2>4
      <3> HIDE DEF Held, IInv, KernelInv, StopInv, OneSection
      <3> QED BY <2>2, <3>1, <3>2, <3>3 DEF HaltedInv
    <2> QED BY <2>3, <2>4
  <1>15. ASSUME NEW k \in Threads, LockNoTrap(k) PROVE HaltedInv'
    BY <1>15, ThreadsAssumption DEF LockNoTrap, Fail
  <1>16. ASSUME NEW k \in Threads, NEW u \in Threads, StopSelf(k, u) PROVE HaltedInv'
    <2>1. /\ UNCHANGED <<kst, ev, pc, sect>> /\ pc[k] = "stop" /\ toStop' = toStop \ {u}
          /\ \A j \in Threads \ {k} : pc[j] # "stop" /\ pc[j] \notin Measuring
          /\ spared \subseteq spared' /\ u # k
      BY <1>16, ThreadsAssumption DEF StopSelf
    <2>2. \A j \in Threads : pend[j] => pend'[j]
      BY <1>16, StopSelfEffect
    <2>3. \A j \in Threads : Held(j) => Held(j)'
      BY <2>1, <2>2
    <2>4. u \notin spared' => Held(u)'
      <3>1. CASE kst[u] \in {"dead", "detached"}
        BY <2>1, <3>1
      <3>2. CASE kst[u] \notin {"dead", "detached"}
        <4>1. pend'[u] /\ (u \notin spared' => kst[u] # "running" \/ ~ Fresh(u))
          BY <1>16, <3>2 DEF StopSelf
        <4>2. /\ kst[u] # "step"
              /\ kst[u] = "running" => pc[u] \in {"off", "cont", "contwait", "wait"}
          BY <2>1
        <4> QED BY <2>1, <4>1, <4>2 DEF Fresh
      <3> QED BY <3>1, <3>2
    <2> QED BY <2>1, <2>3, <2>4 DEF HaltedInv
  <1>17. ASSUME NEW k \in Threads, StopDone(k) PROVE HaltedInv'
    BY <1>17, ThreadsAssumption DEF StopDone, Goto
  <1>18. ASSUME NEW k \in Threads, StartStep(k) PROVE HaltedInv'
    BY <1>18, ThreadsAssumption DEF StartStep, Goto, StepOver, Resume
  <1>19. ASSUME NEW k \in Threads, StepAgain(k) PROVE HaltedInv'
    <2>1. /\ pc[k] \in Measuring /\ pc'[k] # "stop"
          /\ \A j \in Threads \ {k} : pc'[j] = pc[j] /\ kst'[j] = kst[j] /\ ev'[j] = ev[j]
          /\ UNCHANGED <<sect, toStop, pend, spared>>
      BY <1>19 DEF StepAgain, Goto, Resume
    <2>2. \A j \in Threads \ {k} : pc[j] # "stop" /\ pc[j] \notin Measuring
      BY <2>1
    <2>3. \A u \in Threads \ {k} : Held(u) => Held(u)'
      BY <2>1
    <2>4. Exclusive(k)' => Exclusive(k)
      BY <2>1
    <2> HIDE DEF Held, KernelInv, StopInv, OneSection
    <2> QED BY <2>1, <2>2, <2>3, <2>4 DEF HaltedInv
  <1>20. ASSUME NEW k \in Threads, StepFail(k) PROVE HaltedInv'
    BY <1>20, ThreadsAssumption DEF StepFail, Fail
  <1>21. ASSUME NEW k \in Threads, BeginSection(k) PROVE HaltedInv'
    BY <1>21, ThreadsAssumption DEF BeginSection, Resume
  <1>22. ASSUME NEW k \in Threads, EndFunction(k) PROVE HaltedInv'
    BY <1>22, ThreadsAssumption DEF EndFunction, Goto, Waited, Finish
  <1>23. ASSUME NEW k \in Threads, EndRange(k) PROVE HaltedInv'
    BY <1>23, ThreadsAssumption DEF EndRange, Goto, StepOver, Resume
  <1>24. ASSUME NEW k \in Threads, EndReset(k) PROVE HaltedInv'
    BY <1>24, ThreadsAssumption DEF EndReset, Waited, Finish
  <1>25. ASSUME NEW k \in Threads, SectionFail(k) PROVE HaltedInv'
    BY <1>25, ThreadsAssumption DEF SectionFail, Fail
  <1>26. ASSUME UNCHANGED vars PROVE HaltedInv'
    BY <1>26 DEF vars
  <1>q. QED BY <1>1, <1>2, <1>3, <1>4, <1>5, <1>6, <1>7, <1>8, <1>9, <1>10,
                <1>11, <1>12, <1>13, <1>14, <1>15, <1>16, <1>17, <1>18,
                <1>19, <1>20, <1>21, <1>22, <1>23, <1>24, <1>25, <1>26
            DEF Next, Kernel, Tracer, Finished

-----------------------------------------------------------------------------

(* The inductive invariant holds initially.                                *)
LEMMA InitIInv == Init => IInv
  <1> SUFFICES ASSUME Init PROVE IInv
    OBVIOUS
  <1> USE ThreadsAssumption, BoundsAssumption DEF Init
  <1>1. TypeOK
    <2>1. Registered \subseteq Places
      BY DEF Registered, Places
    <2>2. Out \in Positions
      BY PositionsAre
    <2> QED BY <2>1, <2>2 DEF TypeOK, KernelStates, Events, TracerStates
  <1>2. KernelInv
    BY DEF KernelInv, StepStates, LockStates
  <1>3. AttachInv
    BY DEF AttachInv, Attaching
  <1>4. ChildrenInv
    BY DEF ChildrenInv, Announces
  <1>5. OneSection /\ SectionInv /\ StopInv
    BY DEF OneSection, SectionInv, StopInv, Stopping, Measuring
  <1>6. TrapsInv
    BY DEF TrapsInv
  <1>7. HaltedInv
    BY DEF HaltedInv, Exclusive, Measuring
  <1> QED BY <1>1, <1>2, <1>3, <1>4, <1>5, <1>6, <1>7 DEF IInv

(* The invariant the theorems below rest on: every reachable state has it. *)
THEOREM TracerIInv == Spec => []IInv
  <1>1. IInv /\ [Next]_vars => IInv'
    BY TypeStep, KernelStep, AttachStep, ChildrenStep, OneSectionStep, SectionStep,
       TrapsStep, StopStep, HaltedStep DEF IInv
  <1> QED BY InitIInv, <1>1, PTL DEF Spec

(* Every variable of the tracers and of their tracees stays in its type.   *)
THEOREM TracerTypeOK == Spec => []TypeOK
  <1>1. IInv => TypeOK
    BY DEF IInv
  <1> QED BY TracerIInv, <1>1, PTL

(* TRAP_BARRIER lets one tracer at a time measure, from its start trap to  *)
(* the trap put back at the end.                                           *)
THEOREM TracerOneSection == Spec => []OneSection
  <1>1. IInv => OneSection
    BY DEF IInv
  <1> QED BY TracerIInv, <1>1, PTL

(* As long as no tracer gave up, every registered trap is in the code when *)
(* no section is measured, and no return trap is left there.               *)
THEOREM TracerTrapsRestored == Spec => []TrapsRestored
  <1>1. IInv => TrapsRestored
    BY DEF IInv, TrapsInv, TrapsRestored
  <1> QED BY TracerIInv, <1>1, PTL

(* A tracee signalled by stop_tracees(), unless that SIGSTOP merged with   *)
(* the one of its attachment, does not run on in an exclusive section.     *)
THEOREM TracerOthersStopped == Spec => []OthersStopped
  <1>1. IInv => OthersStopped
    BY DEF IInv, HaltedInv, Held, OthersStopped, Exclusive, Measuring
  <1> QED BY TracerIInv, <1>1, PTL

(* The wait inside cont() takes no stop but the one of the attachment.     *)
THEOREM TracerManualWaitIsAttach == Spec => []ManualWaitIsAttach
  <1>1. IInv => ManualWaitIsAttach
    BY DEF IInv, KernelInv, AttachInv, Attaching, ManualWaitIsAttach
  <1> QED BY TracerIInv, <1>1, PTL

-----------------------------------------------------------------------------
(* No pass through a section is missed or measured twice.  PassInv follows *)
(* each thread through the barrier, the single steps and the section: in   *)
(* between it has the results of all its passes, and inside it lacks the   *)
(* one of the section its tracer measures.                                 *)

(* Where the tracee is in the section its tracer has yet to store.         *)
Passing(k, s) ==
    \/ /\ pos[k] = Start(s)
       /\ \/ pc[k] = "wait" /\ ev[k] = "trap"
          \/ pc[k] \in {"lockTrap", "stop", "step"}
          \/ pc[k] \in {"stepwait", "stepwait2"} /\ ev[k] # "step"
    \/ /\ pos[k] = In(s)
       /\ \/ pc[k] \in {"stepwait", "stepwait2"} /\ ev[k] = "step"
          \/ pc[k] = "section" /\ ev[k] = "none"
    \/ /\ pos[k] = End(s)
       /\ \/ pc[k] = "section" /\ ev[k] = "trap"
          \/ pc[k] \in {"endwait", "endwait2"} /\ ev[k] # "step"
    \/ pos[k] = Out /\ pc[k] \in {"endwait", "endwait2"} /\ ev[k] = "step"

PassOf(k) ==
    \/ /\ pos[k] = Out /\ results[k] = visited[k] /\ ev[k] # "trap"
       /\ pc[k] \notin {"lockTrap", "stop"} \cup Measuring
    \/ \E s \in Sections :
          /\ visited[k] = Append(results[k], s)
          /\ pc[k] \in {"stop"} \cup Measuring => sect[k] = s
          /\ Passing(k, s)

SignalsOf(k) ==
    /\ pc[k] \in {"stepwait", "endwait"} => ev[k] \in {"none", "step"} \/ (ev[k] = "sigstop" /\ ~pend[k])
    /\ pc[k] \in {"stepwait2", "endwait2"} => ev[k] \in {"none", "step"} /\ ~pend[k]
    /\ pc[k] \in StepStates /\ ev[k] = "step" => ~pend[k]
    /\ pc[k] \in {"section", "endwait", "endwait2"} => ~pend[k]

PassInv == Quiet => NoFailure /\ \A k \in Threads : PassOf(k) /\ SignalsOf(k)

-----------------------------------------------------------------------------
(* The places of the target's code are different ones.                     *)
LEMMA PlacesDiffer ==
    ASSUME NEW s \in Sections, NEW t \in Sections
    PROVE  /\ Out # Start(s) /\ Out # In(s) /\ Out # End(s)
           /\ Start(s) # In(t) /\ Start(s) # End(t) /\ In(s) # End(t)
           /\ Start(s) = Start(t) => s = t
           /\ In(s) = In(t) => s = t
           /\ End(s) = End(t) => s = t
  <1>1. Out # Start(s) /\ Out # In(s) /\ Out # End(s)
    BY DEF Out, Start, In, End
  <1>2. Start(s) # In(t) /\ Start(s) # End(t) /\ In(s) # End(t)
    BY DEF Start, In, End
  <1>3. (Start(s) = Start(t) => s = t) /\ (In(s) = In(t) => s = t) /\ (End(s) = End(t) => s = t)
    BY DEF Start, In, End
  <1> QED BY <1>1, <1>2, <1>3

(* A thread that executes while no section is measured by its own tracer   *)
(* meets every start trap: were one out, the thread would be halted.       *)
LEMMA StartArmed ==
    ASSUME IInv, Quiet, NoFailure, NEW k \in Threads, kst[k] = "running", ~pend[k],
           pc[k] \notin Stopping \cup Measuring, NEW s \in Sections
    PROVE  Start(s) \in armed
  <1>1. Start(s) \in Registered
    BY DEF Registered
  <1>2. CASE barrier = None
    BY <1>1, <1>2 DEF IInv, TrapsInv
  <1>3. ASSUME NEW j \in Threads, barrier = j PROVE Start(s) \in armed
    <2>1. pc[j] \in Stopping \cup Measuring /\ j # k
      BY <1>3 DEF IInv, OneSection
    <2>2. CASE pc[j] \in {"stop", "step"}
      BY <1>1, <2>2 DEF IInv, TrapsInv
    <2>3. CASE pc[j] \notin {"stop", "step"}
      <3>1. Exclusive(j) /\ pc[j] # "stop" /\ k \notin spared
        BY <2>1, <2>3 DEF Exclusive, Stopping, Quiet
      <3>2. Held(k)
        BY <2>1, <3>1 DEF IInv, HaltedInv
      <3> QED BY <3>2 DEF Held
    <2> QED BY <2>2, <2>3
  <1> QED BY <1>2, <1>3 DEF IInv, TypeOK

(* What a step leaves alone stays as it was.                               *)
LEMMA PassSame ==
    ASSUME NEW j \in Threads, PassOf(j), SignalsOf(j),
           pos'[j] = pos[j], results'[j] = results[j], visited'[j] = visited[j],
           ev'[j] = ev[j], pc'[j] = pc[j], sect'[j] = sect[j],
           pend'[j] = pend[j] \/ pc[j] \notin StepStates \cup {"section"}
    PROVE  PassOf(j)' /\ SignalsOf(j)'
  <1>1. PassOf(j)'
    BY DEF PassOf, Passing
  <1>2. SignalsOf(j)'
    BY DEF SignalsOf, StepStates
  <1> QED BY <1>1, <1>2

(* The kernel's steps.                                                     *)
LEMMA PassKernel ==
    ASSUME IInv, PassInv, Quiet, Quiet', NEW k \in Threads, Kernel(k)
    PROVE  NoFailure' /\ \A j \in Threads : PassOf(j)' /\ SignalsOf(j)'
  <1> USE DEF IInv, TypeOK
  <1>1. NoFailure /\ \A j \in Threads : PassOf(j) /\ SignalsOf(j)
    BY DEF PassInv
  <1>2. pc' = pc /\ sect' = sect /\ results' = results
    BY DEF Kernel, DeliverStop, StepDone, ReceiveSignal, Exit, Clone, EnterSection, LeaveSection, tracers
  <1>3. NoFailure'
    BY <1>1, <1>2 DEF NoFailure
  <1>4. ASSUME NEW j \in Threads \ {k} PROVE PassOf(j)' /\ SignalsOf(j)'
    <2>1. pos'[j] = pos[j] /\ visited'[j] = visited[j] /\ ev'[j] = ev[j]
      BY DEF Kernel, DeliverStop, StepDone, ReceiveSignal, Exit, Clone, EnterSection, LeaveSection, Stop, target, history
    <2>2. pend'[j] = pend[j] \/ pc[j] = "off"
      BY DEF Kernel, DeliverStop, StepDone, ReceiveSignal, Exit, Clone, EnterSection, LeaveSection, KernelInv
    <2> QED BY <1>1, <1>2, <2>1, <2>2, PassSame DEF StepStates
  <1>5. PassOf(k)' /\ SignalsOf(k)'
    <2> USE <1>1, <1>2 DEF StepStates, Measuring
    <2>1. CASE DeliverStop(k)
      <3>1. /\ ev[k] = "none" /\ ev'[k] = "sigstop" /\ pend[k] /\ ~pend'[k] /\ kst[k] \in {"running", "step"}
            /\ UNCHANGED <<pos, visited>>
        BY <2>1 DEF DeliverStop, Stop, KernelInv, target, history
      <3>2. pc[k] \notin {"lockTrap", "stop", "step"}
        BY <3>1 DEF KernelInv
      <3>3. SignalsOf(k)'
        BY <3>1 DEF SignalsOf
      <3> QED BY <3>1, <3>2, <3>3 DEF PassOf, Passing, SignalsOf
    <2>2. CASE StepDone(k)
      <3>1. ev[k] = "none" /\ ev'[k] = "step" /\ ~pend[k] /\ pend' = pend /\ visited' = visited /\ pc[k] \in StepStates
        BY <2>2 DEF StepDone, Stop, KernelInv, history
      <3>2. PICK s \in Sections : visited[k] = Append(results[k], s) /\ sect[k] = s /\ Passing(k, s)
        BY <3>1 DEF PassOf
      <3>3. PICK t \in Sections :
                \/ pos[k] = Start(t) /\ pos' = [pos EXCEPT ![k] = In(t)]
                \/ pos[k] = End(t) /\ pos' = [pos EXCEPT ![k] = Out]
        BY <2>2 DEF StepDone
      <3>4. CASE pc[k] \in {"stepwait", "stepwait2"}
        <4>1. pos[k] = Start(s) /\ pos'[k] = In(s)
          BY <3>1, <3>2, <3>3, <3>4, PlacesDiffer DEF Passing
        <4> QED BY <3>1, <3>2, <3>4, <4>1 DEF PassOf, Passing, SignalsOf
      <3>5. CASE pc[k] \in {"endwait", "endwait2"}
        <4>1. pos[k] = End(s) /\ pos'[k] = Out
          BY <3>1, <3>2, <3>3, <3>5, PlacesDiffer DEF Passing
        <4> QED BY <3>1, <3>2, <3>5, <4>1 DEF PassOf, Passing, SignalsOf
      <3> QED BY <3>1, <3>4, <3>5
    <2>3. CASE ReceiveSignal(k)
      BY <2>3 DEF ReceiveSignal, Quiet
    <2>4. CASE Exit(k) \/ \E c \in Threads \ {k} : Clone(k, c)
      <3>1. /\ ev[k] = "none" /\ ev'[k] \in {"exit", "clone"} /\ pos[k] = Out /\ kst[k] = "running"
            /\ UNCHANGED <<pos, visited>>
        BY <2>4 DEF Exit, Clone, Executes, Stop, KernelInv, target, history
      <3>2. results[k] = visited[k] /\ pc[k] \notin {"lockTrap", "stop"} \cup Measuring
        BY <3>1, PlacesDiffer DEF PassOf, Passing
      <3> QED BY <3>1, <3>2 DEF PassOf, SignalsOf
    <2>5. ASSUME NEW s \in Sections, EnterSection(k, s) PROVE PassOf(k)' /\ SignalsOf(k)'
      <3>1. ev[k] = "none" /\ pos[k] = Out /\ kst[k] = "running" /\ ~pend[k] /\ pend' = pend
        BY <2>5 DEF EnterSection, Executes, KernelInv, Quiet
      <3>2. results[k] = visited[k] /\ pc[k] \notin {"lockTrap", "stop"} \cup Measuring
        BY <3>1, PlacesDiffer DEF PassOf, Passing
      <3>3. pc[k] = "wait"
        BY <3>1, <3>2 DEF KernelInv, AttachInv, Attaching
      <3>4. Start(s) \in armed
        BY <3>1, <3>3, StartArmed DEF Stopping
      <3>5. ev'[k] = "trap" /\ pos'[k] = Start(s) /\ visited'[k] = Append(results[k], s)
        BY <2>5, <3>2, <3>4 DEF EnterSection, Stop
      <3> QED BY <3>3, <3>5 DEF PassOf, Passing, SignalsOf
    <2>6. ASSUME NEW s \in Sections, LeaveSection(k, s) PROVE PassOf(k)' /\ SignalsOf(k)'
      <3>1. ev[k] = "none" /\ pos[k] = In(s) /\ kst[k] = "running" /\ pend' = pend /\ visited' = visited
        BY <2>6 DEF LeaveSection, Executes, KernelInv, history
      <3>2. pc[k] = "section" /\ sect[k] = s /\ visited[k] = Append(results[k], s)
        <4>1. PICK t \in Sections : visited[k] = Append(results[k], t) /\ Passing(k, t)
                                    /\ (pc[k] \in {"stop"} \cup Measuring => sect[k] = t)
          BY <3>1, PlacesDiffer DEF PassOf
        <4>2. t = s /\ pc[k] = "section"
          BY <3>1, <4>1, PlacesDiffer DEF Passing
        <4> QED BY <4>1, <4>2
      <3>3. End(s) \in armed
        <4>1. CASE s \in FuncSections
          BY <3>2, <4>1 DEF TrapsInv
        <4>2. CASE s \notin FuncSections
          <5>1. End(s) \in Registered /\ End(s) # Start(s)
            BY <4>2, PlacesDiffer DEF Registered
          <5> QED BY <3>2, <4>2, <5>1 DEF TrapsInv
        <4> QED BY <4>1, <4>2
      <3>4. barrier = k
        BY <3>2, HolderAlone
      <3>5. ev'[k] = "trap" /\ pos'[k] = End(s)
        BY <2>6, <3>3, <3>4 DEF LeaveSection, Stop
      <3> QED BY <3>1, <3>2, <3>5 DEF PassOf, Passing, SignalsOf
    <2> QED BY <2>1, <2>2, <2>3, <2>4, <2>5, <2>6 DEF Kernel
  <1> QED BY <1>3, <1>4, <1>5

(* The tracers' steps.                                                     *)
LEMMA PassTracer ==
    ASSUME IInv, PassInv, Quiet, NEW k \in Threads, Tracer(k)
    PROVE  NoFailure' /\ \A j \in Threads : PassOf(j)' /\ SignalsOf(j)'
  <1> USE DEF IInv, TypeOK
  <1>1. NoFailure /\ \A j \in Threads : PassOf(j) /\ SignalsOf(j)
    BY DEF PassInv
  <1>2. ASSUME pc'[k] # "failed", PassOf(k)', SignalsOf(k)',
               \A j \in Threads \ {k} : pc'[j] = pc[j] /\ pos'[j] = pos[j] /\ results'[j] = results[j]
                  /\ ev'[j] = ev[j] /\ sect'[j] = sect[j] /\ pend'[j] = pend[j],
               visited' = visited
        PROVE  NoFailure' /\ \A j \in Threads : PassOf(j)' /\ SignalsOf(j)'
    <2>1. \A j \in Threads \ {k} : PassOf(j)' /\ SignalsOf(j)'
      BY <1>1, <1>2, PassSame
    <2>2. NoFailure'
      BY <1>1, <1>2 DEF NoFailure
    <2> QED BY <1>2, <2>1, <2>2
  <1> USE <1>1 DEF Goto, Resume, kernel, target, tracers, history, StepStates, Measuring
  <1>3. CASE Cont(k) \/ ContEsrch(k) \/ ContWait(k)
    <2>1. /\ pc'[k] \in {"wait", "contwait"} /\ pc[k] \in {"cont", "contwait"} /\ UNCHANGED <<pos, results, visited, sect, pend>>
          /\ ev'[k] \in {"none", "exited", ev[k]}
          /\ \A j \in Threads \ {k} : pc'[j] = pc[j] /\ ev'[j] = ev[j]
      BY <1>3 DEF Cont, ContEsrch, ContWait
    <2>2. PassOf(k)' /\ SignalsOf(k)'
      BY <2>1 DEF PassOf, Passing, SignalsOf
    <2> QED BY <1>2, <2>1, <2>2
  <1>4. CASE Wait(k)
    <2>1. /\ pc'[k] = Handler(ev[k]) /\ pc[k] = "wait" /\ UNCHANGED <<pos, results, visited, sect, pend>>
          /\ ev'[k] = "none"
          /\ \A j \in Threads \ {k} : pc'[j] = pc[j] /\ ev'[j] = ev[j]
      BY <1>4 DEF Wait, Waited
    <2>2. /\ pc'[k] \in {"lockChild", "lockExit", "lockTrap", "lockStop", "done", "cont"}
          /\ pc'[k] = "lockTrap" <=> ev[k] = "trap"
      BY <2>1 DEF Handler
    <2>3. PassOf(k)' /\ SignalsOf(k)'
      BY <2>1, <2>2 DEF PassOf, Passing, SignalsOf
    <2> QED BY <1>2, <2>1, <2>2, <2>3
  <1>5. CASE LockChild(k)
    <2>1. PICK c \in Threads \ {k} :
              /\ pc[k] = "lockChild" /\ pc[c] = "off" /\ kst[c] # "none"
              /\ pc'[k] = "cont" /\ pc'[c] = "cont"
              /\ \A j \in Threads \ {k, c} : pc'[j] = pc[j]
      BY <1>5, LockChildEffect
    <2>2. UNCHANGED <<pos, results, visited, ev, sect, pend>>
      BY <1>5 DEF LockChild
    <2>3. \A j \in Threads \ {k, c} : PassOf(j)' /\ SignalsOf(j)'
      BY <2>1, <2>2, PassSame
    <2>4. PassOf(k)' /\ SignalsOf(k)'
      BY <2>1, <2>2 DEF PassOf, Passing, SignalsOf
    <2>6. PassOf(c)' /\ SignalsOf(c)'
      BY <2>1, <2>2 DEF PassOf, Passing, SignalsOf
    <2>5. NoFailure'
      BY <2>1 DEF NoFailure
    <2> QED BY <2>3, <2>4, <2>5, <2>6
  <1>6. CASE LockPass(k)
    <2>1. /\ pc'[k] = "cont" /\ pc[k] \in {"lockStop", "lockExit"} /\ UNCHANGED <<pos, results, visited, sect, pend, ev>>
          /\ \A j \in Threads \ {k} : pc'[j] = pc[j]
      BY <1>6 DEF LockPass
    <2>2. PassOf(k)' /\ SignalsOf(k)'
      BY <2>1 DEF PassOf, Passing, SignalsOf
    <2> QED BY <1>2, <2>1, <2>2
  <1>7. CASE LockTrap(k)
    <2>1. PICK s \in Sections : /\ pos[k] = Start(s)
                                /\ sect' = [sect EXCEPT ![k] = s]
                                /\ s \notin Concurrent => pc' = [pc EXCEPT ![k] = "stop"]
      BY <1>7 DEF LockTrap
    <2>2. pc[k] = "lockTrap" /\ UNCHANGED <<pos, results, visited, pend, ev>> /\ pc' = [pc EXCEPT ![k] = "stop"]
      BY <1>7, <2>1 DEF LockTrap, Quiet
    <2>3. visited[k] = Append(results[k], s)
      BY <2>1, <2>2, PlacesDiffer DEF PassOf, Passing
    <2>4. PassOf(k)' /\ SignalsOf(k)'
      BY <2>1, <2>2, <2>3 DEF PassOf, Passing, SignalsOf
    <2> QED BY <1>2, <2>1, <2>2, <2>4
  <1>8. CASE LockNoTrap(k)
    <2>1. pc[k] = "lockTrap" /\ \A s \in Sections : pos[k] # Start(s)
      BY <1>8 DEF LockNoTrap
    <2> QED BY <2>1 DEF PassOf, Passing
  <1>9. ASSUME NEW u \in Threads, StopSelf(k, u)
        PROVE  NoFailure' /\ \A j \in Threads : PassOf(j)' /\ SignalsOf(j)'
    <2>1. /\ pc[k] = "stop" /\ UNCHANGED <<pos, results, visited, ev, pc, sect>>
          /\ \A j \in Threads \ {u} : pend'[j] = pend[j]
      BY <1>9 DEF StopSelf
    <2>2. u # k /\ pc[u] \notin StepStates \cup {"section"}
      BY <1>9, <2>1, HolderAlone DEF StopSelf, StopInv, Stopping
    <2>3. \A j \in Threads : PassOf(j)' /\ SignalsOf(j)'
      BY <2>1, <2>2, PassSame
    <2>4. NoFailure'
      BY <2>1 DEF NoFailure
    <2> QED BY <2>3, <2>4
  <1>10. CASE StopDone(k)
    <2>1. /\ pc'[k] = "step" /\ pc[k] = "stop" /\ UNCHANGED <<pos, results, visited, sect, pend, ev>>
          /\ \A j \in Threads \ {k} : pc'[j] = pc[j]
      BY <1>10 DEF StopDone
    <2>2. PassOf(k)' /\ SignalsOf(k)'
      BY <2>1 DEF PassOf, Passing, SignalsOf
    <2> QED BY <1>2, <2>1, <2>2
  <1>11. CASE StartStep(k)
    <2>1. /\ pc'[k] = "stepwait" /\ pc[k] = "step" /\ UNCHANGED <<pos, results, visited, sect, pend>>
          /\ \A j \in Threads \ {k} : pc'[j] = pc[j] /\ ev'[j] = ev[j]
          /\ ev'[k] = "none"
      BY <1>11 DEF StartStep, StepOver, KernelInv
    <2>2. PassOf(k)' /\ SignalsOf(k)'
      BY <2>1 DEF PassOf, Passing, SignalsOf
    <2> QED BY <1>2, <2>1, <2>2
  <1>12. CASE StepAgain(k)
    <2>1. /\ <<pc[k], pc'[k]>> \in {<<"stepwait", "stepwait2">>, <<"endwait", "endwait2">>}
          /\ ev[k] = "sigstop" /\ UNCHANGED <<pos, results, visited, sect, pend>>
          /\ \A j \in Threads \ {k} : pc'[j] = pc[j] /\ ev'[j] = ev[j]
          /\ ev'[k] = "none"
      BY <1>12 DEF StepAgain, KernelInv
    <2>2. ~pend[k] /\ \E s \in Sections : visited[k] = Append(results[k], s) /\ sect[k] = s /\ Passing(k, s)
      BY <2>1 DEF PassOf, SignalsOf
    <2>3. PICK s \in Sections : visited[k] = Append(results[k], s) /\ sect[k] = s /\ Passing(k, s)
      BY <2>2
    <2>4. pc'[k] \in {"stepwait2", "endwait2"} /\ Passing(k, s)'
      BY <2>1, <2>3 DEF Passing
    <2>5. PassOf(k)' /\ SignalsOf(k)'
      BY <2>1, <2>2, <2>3, <2>4 DEF PassOf, SignalsOf
    <2> QED BY <1>2, <2>1, <2>4, <2>5
  <1>13. CASE StepFail(k)
    BY <1>13 DEF StepFail, SignalsOf
  <1>14. CASE BeginSection(k)
    <2>1. /\ pc'[k] = "section" /\ pc[k] \in {"stepwait", "stepwait2"} /\ UNCHANGED <<pos, results, visited, sect, pend>>
          /\ \A j \in Threads \ {k} : pc'[j] = pc[j] /\ ev'[j] = ev[j]
          /\ ev[k] = "step" /\ ev'[k] = "none"
      BY <1>14 DEF BeginSection, KernelInv
    <2>2. PassOf(k)' /\ SignalsOf(k)'
      BY <2>1 DEF PassOf, Passing, SignalsOf
    <2> QED BY <1>2, <2>1, <2>2
  <1>15. CASE EndFunction(k)
    <2>1. /\ pc'[k] = "cont" /\ pc[k] = "section" /\ UNCHANGED <<visited, pend>>
          /\ \A j \in Threads \ {k} : pc'[j] = pc[j] /\ ev'[j] = ev[j] /\ pos'[j] = pos[j]
                                        /\ results'[j] = results[j] /\ sect'[j] = sect[j]
          /\ pos'[k] = Out /\ ev'[k] = "none" /\ results'[k] = Append(results[k], sect[k])
      BY <1>15 DEF EndFunction, Waited, Finish
    <2>2. visited[k] = Append(results[k], sect[k])
      BY <2>1 DEF PassOf
    <2>3. PassOf(k)' /\ SignalsOf(k)'
      BY <2>1, <2>2 DEF PassOf, SignalsOf
    <2> QED BY <1>2, <2>1, <2>3
  <1>16. CASE EndRange(k)
    <2>1. /\ pc'[k] = "endwait" /\ pc[k] = "section" /\ UNCHANGED <<pos, results, visited, sect, pend>>
          /\ \A j \in Threads \ {k} : pc'[j] = pc[j] /\ ev'[j] = ev[j]
          /\ ev[k] = "trap" /\ ev'[k] = "none"
      BY <1>16 DEF EndRange, StepOver, KernelInv
    <2>2. PassOf(k)' /\ SignalsOf(k)'
      BY <2>1 DEF PassOf, Passing, SignalsOf
    <2> QED BY <1>2, <2>1, <2>2
  <1>17. CASE EndReset(k)
    <2>1. /\ pc'[k] = "cont" /\ pc[k] \in {"endwait", "endwait2"} /\ UNCHANGED <<visited, pend, pos>>
          /\ \A j \in Threads \ {k} : pc'[j] = pc[j] /\ ev'[j] = ev[j]
                                        /\ results'[j] = results[j] /\ sect'[j] = sect[j]
          /\ ev[k] = "step" /\ ev'[k] = "none" /\ results'[k] = Append(results[k], sect[k])
      BY <1>17 DEF EndReset, Waited, Finish
    <2>2. visited[k] = Append(results[k], sect[k]) /\ pos[k] = Out
      BY <2>1 DEF PassOf, Passing
    <2>3. PassOf(k)' /\ SignalsOf(k)'
      BY <2>1, <2>2 DEF PassOf, SignalsOf
    <2> QED BY <1>2, <2>1, <2>3
  <1>18. CASE SectionFail(k)
    <2>1. pc[k] = "section" /\ ev[k] # "none" /\ (ev[k] # "trap" \/ pos[k] # End(sect[k]))
      BY <1>18 DEF SectionFail
    <2> QED BY <2>1 DEF PassOf, Passing
  <1> QED BY <1>3, <1>4, <1>5, <1>6, <1>7, <1>8, <1>9, <1>10, <1>11, <1>12, <1>13, <1>14, <1>15, <1>16, <1>17, <1>18
          DEF Tracer

(* A quiet execution has been quiet before.                                *)
LEMMA QuietBefore == TypeOK /\ [Next]_vars /\ Quiet' => Quiet
  <1> SUFFICES ASSUME TypeOK, [Next]_vars, Quiet' PROVE Quiet
    OBVIOUS
  <1>1. spared \subseteq spared' /\ (sigs' = sigs \/ sigs' = sigs + 1)
    <2>1. ASSUME NEW k \in Threads, Kernel(k) PROVE spared' = spared /\ (sigs' = sigs \/ sigs' = sigs + 1)
      BY <2>1 DEF Kernel, DeliverStop, StepDone, ReceiveSignal, Exit, Clone, EnterSection, LeaveSection, target, history
    <2>2. ASSUME NEW k \in Threads, Tracer(k) PROVE spared \subseteq spared' /\ sigs' = sigs
      BY <2>2 DEF Tracer, Cont, ContEsrch, ContWait, Wait, LockChild, LockPass, LockTrap, LockNoTrap, Fail, StopDone,
                  StopSelf, StartStep, StepAgain, StepFail, BeginSection, EndFunction, EndRange, EndReset, Finish,
                  SectionFail, target, history
    <2> QED BY <2>1, <2>2 DEF Next, Finished, vars
  <1> QED BY <1>1, BoundsAssumption DEF TypeOK, Quiet

(* PassInv holds, next to IInv, in every reachable state.                  *)
LEMMA PassStep == IInv /\ PassInv /\ [Next]_vars => PassInv'
  <1> SUFFICES ASSUME IInv, PassInv, [Next]_vars, Quiet'
               PROVE  NoFailure' /\ \A j \in Threads : PassOf(j)' /\ SignalsOf(j)'
    BY DEF PassInv
  <1>1. Quiet
    BY QuietBefore DEF IInv
  <1>2. CASE UNCHANGED vars
    <2>1. NoFailure /\ \A j \in Threads : PassOf(j) /\ SignalsOf(j)
      BY <1>1 DEF PassInv
    <2>2. NoFailure'
      BY <1>2, <2>1 DEF NoFailure, vars
    <2> QED BY <1>2, <2>1, <2>2, PassSame DEF vars
  <1> QED BY <1>1, <1>2, PassKernel, PassTracer DEF Next, Finished

LEMMA PassInit == Init => PassInv
  <1> SUFFICES ASSUME Init PROVE NoFailure /\ \A j \in Threads : PassOf(j) /\ SignalsOf(j)
    BY DEF PassInv
  <1> QED BY DEF Init, NoFailure, PassOf, SignalsOf, StepStates, Measuring

(* When sections exclude the other threads, no SIGSTOP merges with that of *)
(* an attachment and no signal comes, no tracer gives up, and each thread  *)
(* has a result for every pass through a section, in the order it passed.  *)
THEOREM TracerEveryPassMeasured == Spec => []EveryPassMeasured
  <1>1. PassInv => EveryPassMeasured
    <2> SUFFICES ASSUME PassInv, Quiet, NEW k \in Threads, pos[k] = Out, pc[k] \notin {"endwait", "endwait2"}
                 PROVE  results[k] = visited[k]
      BY DEF PassInv, EveryPassMeasured
    <2> QED BY PlacesDiffer DEF PassInv, PassOf, Passing
  <1> QED BY TracerIInv, PassInit, PassStep, <1>1, PTL DEF Spec
=============================================================================
