--------------------------- MODULE SignalerProofs ---------------------------
(***************************************************************************)
(* For any number of posters and waiters, the signaler loses no wake-up    *)
(* and is an auto-reset event.  Both rest on a small invariant: a waiter   *)
(* whose time is over is one of wait_for(), and NoLostWakeup itself, which *)
(* every step preserves.                                                   *)
(***************************************************************************)
EXTENDS Signaler, TLAPS

OnlyTimedExpire == \A w \in Waiters : expired[w] => mode[w] = "wait_for"

IInv == TypeOK /\ OnlyTimedExpire /\ NoLostWakeup

-----------------------------------------------------------------------------
(* The initial state satisfies the invariant.                              *)
LEMMA SignalerInit == Init => IInv
  <1> SUFFICES ASSUME Init PROVE IInv
    OBVIOUS
  <1>1. TypeOK
    BY DEF Init, TypeOK, Modes
  <1>2. OnlyTimedExpire /\ NoLostWakeup
    BY DEF Init, OnlyTimedExpire, NoLostWakeup
  <1> QED BY <1>1, <1>2 DEF IInv

(* Every variable keeps its type.                                          *)
LEMMA TypeStep == IInv /\ [Next]_vars => TypeOK'
  <1> SUFFICES ASSUME IInv, [Next]_vars PROVE TypeOK'
    OBVIOUS
  <1> USE DEF IInv, TypeOK, Modes
  <1>1. ASSUME NEW p \in Posters, PostBegin(p) \/ Posting(p) PROVE TypeOK'
    <2>1. CASE PostBegin(p)
      BY <2>1 DEF PostBegin
    <2>2. CASE PostLock(p)
      BY <2>2 DEF PostLock
    <2>3. CASE PostSet(p)
      BY <2>3 DEF PostSet
    <2>4. CASE PostNotify(p)
      BY <2>4 DEF PostNotify, Sleeping
    <2> QED BY <1>1, <2>1, <2>2, <2>3, <2>4 DEF Posting
  <1>2. ASSUME NEW w \in Waiters,
               WaitBegin(w) \/ Waiting(w) \/ SpuriousWakeup(w) \/ Timeout(w)
        PROVE  TypeOK'
    <2>1. CASE WaitBegin(w)
      BY <2>1 DEF WaitBegin
    <2>2. CASE WaitLock(w)
      BY <2>2 DEF WaitLock
    <2>3. CASE WaitLeave(w)
      BY <2>3 DEF WaitLeave
    <2>4. CASE WaitSleep(w)
      BY <2>4 DEF WaitSleep
    <2>5. CASE SpuriousWakeup(w)
      BY <2>5 DEF SpuriousWakeup
    <2>6. CASE Timeout(w)
      BY <2>6 DEF Timeout
    <2> QED BY <1>2, <2>1, <2>2, <2>3, <2>4, <2>5, <2>6 DEF Waiting
  <1>3. CASE UNCHANGED vars
    BY <1>3 DEF vars
  <1> QED BY <1>1, <1>2, <1>3 DEF Next

(* A deadline only passes for a wait_for(), and each wait starts anew.     *)
LEMMA ExpireStep == IInv /\ [Next]_vars => OnlyTimedExpire'
  <1> SUFFICES ASSUME IInv, [Next]_vars PROVE OnlyTimedExpire'
    OBVIOUS
  <1> USE DEF IInv, TypeOK, OnlyTimedExpire
  <1>1. ASSUME NEW w \in Waiters, WaitBegin(w) PROVE OnlyTimedExpire'
    <2>1. PICK m \in Modes : mode' = [mode EXCEPT ![w] = m]
      BY <1>1 DEF WaitBegin
    <2> QED BY <1>1, <2>1 DEF WaitBegin
  <1>2. ASSUME NEW w \in Waiters, Timeout(w) PROVE OnlyTimedExpire'
    BY <1>2 DEF Timeout
  <1>3. CASE UNCHANGED <<mode, expired>>
    BY <1>3
  <1> QED BY <1>1, <1>2, <1>3 DEF Next, Posting, Waiting, PostBegin, PostLock, PostSet,
          PostNotify, WaitLock, WaitLeave, WaitSleep, SpuriousWakeup, vars

(* A post is followed by a notify, and whoever wakes up or comes late      *)
(* tests the flag: the only one to go back to sleep finds it closed.       *)
LEMMA WakeupStep == IInv /\ [Next]_vars => NoLostWakeup'
  <1> SUFFICES ASSUME IInv, [Next]_vars PROVE NoLostWakeup'
    OBVIOUS
  <1> USE DEF IInv, TypeOK, NoLostWakeup, Sleeping
  <1>1. ASSUME NEW p \in Posters, PostBegin(p) \/ Posting(p) PROVE NoLostWakeup'
    <2>1. CASE PostBegin(p)
      BY <2>1 DEF PostBegin
    <2>2. CASE PostLock(p)
      BY <2>2 DEF PostLock
    <2>3. CASE PostSet(p)
      BY <2>3 DEF PostSet
    <2>4. CASE PostNotify(p)
      <3>1. CASE Sleeping = {} /\ UNCHANGED wpc
        BY <3>1
      <3>2. CASE \E w \in Sleeping : wpc' = [wpc EXCEPT ![w] = "lock"]
        BY <3>2
      <3> QED BY <2>4, <3>1, <3>2 DEF PostNotify
    <2> QED BY <1>1, <2>1, <2>2, <2>3, <2>4 DEF Posting
  <1>2. ASSUME NEW w \in Waiters,
               WaitBegin(w) \/ Waiting(w) \/ SpuriousWakeup(w) \/ Timeout(w)
        PROVE  NoLostWakeup'
    <2>1. CASE WaitBegin(w)
      BY <2>1 DEF WaitBegin
    <2>2. CASE WaitLock(w)
      BY <2>2 DEF WaitLock
    <2>3. CASE WaitLeave(w)
      BY <2>3 DEF WaitLeave
    <2>4. CASE WaitSleep(w)
      BY <2>4 DEF WaitSleep
    <2>5. CASE SpuriousWakeup(w)
      BY <2>5 DEF SpuriousWakeup
    <2>6. CASE Timeout(w)
      BY <2>6 DEF Timeout
    <2> QED BY <1>2, <2>1, <2>2, <2>3, <2>4, <2>5, <2>6 DEF Waiting
  <1>3. CASE UNCHANGED vars
    BY <1>3 DEF vars
  <1> QED BY <1>1, <1>2, <1>3 DEF Next

(* The invariant holds in every reachable state.                           *)
THEOREM SignalerIInv == Spec => []IInv
  <1>1. IInv /\ [Next]_vars => IInv'
    BY TypeStep, ExpireStep, WakeupStep DEF IInv
  <1> QED BY SignalerInit, <1>1, PTL DEF Spec

(* The flag, the mutex and the threads of post() and wait() stay in their  *)
(* types.                                                                  *)
THEOREM SignalerTypeOK == Spec => []TypeOK
  <1>1. IInv => TypeOK
    BY DEF IInv
  <1> QED BY SignalerIInv, <1>1, PTL

(* post() notifies after it has released the mutex; no wake-up is lost     *)
(* all the same.                                                           *)
THEOREM SignalerNoLostWakeup == Spec => []NoLostWakeup
  <1>1. IInv => NoLostWakeup
    BY DEF IInv
  <1> QED BY SignalerIInv, <1>1, PTL

-----------------------------------------------------------------------------
(* The refinement: PostSet opens the event, WaitBegin and WaitLeave begin  *)
(* and end a wait, and every other step stutters.                          *)
Blocked == [w \in Waiters |-> IF wpc[w] = "idle" THEN "none" ELSE mode[w]]

(* A step that moves threads between the points inside post(), wait() and  *)
(* wait_for() changes nothing an observer of the event sees.               *)
LEMMA StutterStep ==
    ASSUME UNCHANGED <<open, mode>>,
           \A w \in Waiters : wpc'[w] = "idle" <=> wpc[w] = "idle"
    PROVE  UNCHANGED <<open, Blocked>>
  BY DEF Blocked

(* Each step of the signaler is one of the event, or none.                 *)
LEMMA EventStep == IInv /\ [Next]_vars => [Event!Next]_<<open, Blocked>>
  <1> SUFFICES ASSUME IInv, [Next]_vars PROVE [Event!Next]_<<open, Blocked>>
    OBVIOUS
  <1> USE DEF IInv, TypeOK
  <1>1. ASSUME NEW p \in Posters, PostBegin(p) \/ Posting(p)
        PROVE  [Event!Next]_<<open, Blocked>>
    <2>1. CASE PostBegin(p) \/ PostLock(p)
      BY <2>1, StutterStep DEF PostBegin, PostLock
    <2>2. CASE PostSet(p)
      BY <2>2 DEF PostSet, Event!Next, Event!Post, Blocked
    <2>3. CASE PostNotify(p)
      <3>1. \A w \in Waiters : wpc'[w] = "idle" <=> wpc[w] = "idle"
        BY <2>3 DEF PostNotify, Sleeping
      <3> QED BY <2>3, <3>1, StutterStep DEF PostNotify
    <2> QED BY <1>1, <2>1, <2>2, <2>3 DEF Posting
  <1>2. ASSUME NEW w \in Waiters,
               WaitBegin(w) \/ Waiting(w) \/ SpuriousWakeup(w) \/ Timeout(w)
        PROVE  [Event!Next]_<<open, Blocked>>
    <2>1. CASE WaitBegin(w)
      <3>1. PICK m \in Modes : mode' = [mode EXCEPT ![w] = m]
        BY <2>1 DEF WaitBegin
      <3>2. Blocked[w] = "none" /\ Blocked' = [Blocked EXCEPT ![w] = m]
        BY <2>1, <3>1 DEF WaitBegin, Blocked
      <3>3. UNCHANGED open /\ m \in Event!Modes
        BY <2>1 DEF WaitBegin, Modes, Event!Modes
      <3> QED BY <3>2, <3>3 DEF Event!Next, Event!Begin, Blocked
    <2>2. CASE WaitLeave(w)
      <3>1. Blocked[w] = mode[w] /\ Blocked' = [Blocked EXCEPT ![w] = "none"] /\ open' = FALSE
        BY <2>2 DEF WaitLeave, Blocked
      <3>2. (mode[w] = "wait" /\ open) \/ mode[w] = "wait_for"
        BY <2>2 DEF WaitLeave, OnlyTimedExpire, Modes
      <3> QED BY <3>1, <3>2 DEF Event!Next, Event!Leave, Blocked
    <2>3. CASE WaitLock(w) \/ WaitSleep(w) \/ SpuriousWakeup(w)
      BY <2>3, StutterStep DEF WaitLock, WaitSleep, SpuriousWakeup
    <2>4. CASE Timeout(w)
      BY <2>4, StutterStep DEF Timeout
    <2> QED BY <1>2, <2>1, <2>2, <2>3, <2>4 DEF Waiting
  <1>3. CASE UNCHANGED vars
    BY <1>3 DEF vars, Blocked
  <1> QED BY <1>1, <1>2, <1>3 DEF Next

(* signaler implements AutoResetEvent: each post opens it, each waiter     *)
(* closes it, and only a wait_for() leaves a closed event.                 *)
THEOREM SignalerImplementsEvent == Spec => ImplementsEvent
  <1>1. Init => Event!Init
    BY DEF Init, Event!Init
  <1>2. IInv /\ [Next]_vars => [Event!Next]_<<open, Blocked>>
    BY EventStep
  <1> QED BY SignalerIInv, <1>1, <1>2, PTL DEF Spec, ImplementsEvent, Event!Spec, Blocked
=============================================================================
