------------------------- MODULE PtraceWrapperProofs -------------------------
(***************************************************************************)
(* For any number of profiler threads and any requests: the accesses to    *)
(* _data never race, and the wrapper implements SyncCall.                  *)
(*                                                                         *)
(* The inductive invariant says who holds the turn.  The mutex makes its   *)
(* owner the only caller (or destructor) past the lock; the two            *)
(* semaphores and the worker's program counter then hold a single token,   *)
(* which tells whether the owner or the worker may touch _data.            *)
(***************************************************************************)
EXTENDS PtraceWrapper, TLAPS

(* The caller past the lock is the owner of the mutex.                     *)
OwnerInv ==
    /\ \A c \in Callers : pc[c] \in {"write", "post", "wait", "read", "unlock"} <=> mx = c
    /\ dpc \in {"write", "post", "join"} <=> mx = Main

(* Where the token is while the worker has it, or no one does.             *)
Quiet   == wpc = "wait" /\ reqSem = 0 /\ resSem = 0
Asked   == wpc = "wait" /\ reqSem = 1 /\ resSem = 0
Working == wpc \in {"switch", "call", "store", "post"} /\ reqSem = 0 /\ resSem = 0
Replied == wpc = "wait" /\ reqSem = 0 /\ resSem = 1
Ended   == wpc = "ended" /\ reqSem = 0 /\ resSem = 0

TurnInv ==
    /\ \A c \in Callers : pc[c] \in {"write", "post", "read", "unlock"} => Quiet
    /\ \A c \in Callers : pc[c] = "post" => data.req = arg[c]
    /\ \A c \in Callers : pc[c] = "wait" =>
          (Asked \/ Working \/ Replied) /\ data.req = arg[c]
    /\ mx = NoOne /\ dpc = "live" => Quiet
    /\ dpc \in {"write", "post"} => Quiet
    /\ dpc = "post" => data.req = Finish
    /\ dpc = "join" => data.req = Finish /\ (Asked \/ (Working /\ wpc = "switch") \/ Ended)
    /\ dpc = "destroyed" => Ended
    /\ dpc # "live" => \A c \in Callers : pc[c] = "idle"

(* The result and the error in _data are those of one outcome of the       *)
(* request from the moment the system call has been made.                  *)
Legal(r, res, err) == (res \in Results[r] /\ err = 0) \/ (res = -1 /\ err \in Errors)

AnswerInv ==
    /\ \A c \in Callers : pc[c] = "wait" =>
          /\ wpc = "call" => errno = 0
          /\ wpc = "store" => Legal(arg[c], data.result, errno)
          /\ wpc = "post" \/ resSem = 1 => Legal(arg[c], data.result, data.error)
    /\ \A c \in Callers : pc[c] = "read" => Legal(arg[c], data.result, data.error)

IInv == TypeOK /\ OwnerInv /\ TurnInv /\ AnswerInv

(* In every initial state the inductive invariant holds.                   *)
LEMMA InitIInv == Init => IInv
  BY CallersAssumption, RequestsAssumption
     DEF Init, IInv, TypeOK, OwnerInv, TurnInv, AnswerInv, Quiet, CallerStates,
         WorkerStates, DtorStates, Outcome

(* TypeOK is kept by every step.                                           *)
LEMMA NextTypeOK == IInv /\ [Next]_vars => TypeOK'
  <1> SUFFICES ASSUME IInv, [Next]_vars PROVE TypeOK'
    OBVIOUS
  <1> USE CallersAssumption, RequestsAssumption, ErrorsAssumption, ResultsAssumption
      DEF IInv, TypeOK, CallerStates, WorkerStates, DtorStates
  <1>1. ASSUME NEW c \in Callers, Caller(c) PROVE TypeOK'
    <2>1. CASE Enter(c)
      BY <2>1 DEF Enter, Goto
    <2>2. CASE Lock(c)
      BY <2>2 DEF Lock, Goto
    <2>3. CASE Write(c)
      BY <2>3 DEF Write, Goto
    <2>4. CASE Post(c)
      BY <2>4 DEF Post, Goto
    <2>5. CASE Wait(c)
      BY <2>5 DEF Wait, Goto
    <2>6. CASE Read(c)
      BY <2>6 DEF Read, Goto, Outcome
    <2>7. CASE Unlock(c)
      BY <2>7 DEF Unlock, Goto
    <2> QED
      BY <1>1, <2>1, <2>2, <2>3, <2>4, <2>5, <2>6, <2>7 DEF Caller, InCall
  <1>2. CASE Worker
    <2>1. CASE WorkerWait
      BY <2>1 DEF WorkerWait
    <2>2. CASE WorkerSwitch
      BY <2>2 DEF WorkerSwitch
    <2>3. CASE WorkerCall
      <3>1. data.req \in Requests
        BY <2>3 DEF WorkerCall, OwnerInv, TurnInv, Quiet, Asked, Working, Replied, Ended
      <3> QED
        BY <2>3, <3>1 DEF WorkerCall
    <2>4. CASE WorkerStore
      BY <2>4 DEF WorkerStore
    <2>5. CASE WorkerPost
      BY <2>5 DEF WorkerPost
    <2> QED
      BY <1>2, <2>1, <2>2, <2>3, <2>4, <2>5 DEF Worker
  <1>3. CASE Dtor
    BY <1>3 DEF Dtor, DtorLock, DtorWrite, DtorPost, DtorJoin
  <1>4. CASE UNCHANGED vars
    BY <1>4 DEF vars
  <1> QED
    BY <1>1, <1>2, <1>3, <1>4 DEF Next, Destroyed

(* The owner of the mutex is the caller past the lock.                     *)
LEMMA NextOwnerInv == IInv /\ [Next]_vars => OwnerInv'
  <1> SUFFICES ASSUME IInv, [Next]_vars PROVE OwnerInv'
    OBVIOUS
  <1> USE CallersAssumption, RequestsAssumption, ErrorsAssumption
      DEF IInv, TypeOK, OwnerInv
  <1>1. ASSUME NEW c \in Callers, Caller(c) PROVE OwnerInv'
    <2>1. CASE Enter(c)
      BY <2>1 DEF Enter, Goto
    <2>2. CASE Lock(c)
      BY <2>2 DEF Lock, Goto
    <2>3. CASE Write(c)
      BY <2>3 DEF Write, Goto
    <2>4. CASE Post(c)
      BY <2>4 DEF Post, Goto
    <2>5. CASE Wait(c)
      BY <2>5 DEF Wait, Goto
    <2>6. CASE Read(c)
      BY <2>6 DEF Read, Goto
    <2>7. CASE Unlock(c)
      BY <2>7 DEF Unlock, Goto
    <2> QED
      BY <1>1, <2>1, <2>2, <2>3, <2>4, <2>5, <2>6, <2>7 DEF Caller, InCall
  <1>2. CASE Worker
    <2>1. CASE WorkerWait
      BY <2>1 DEF WorkerWait
    <2>2. CASE WorkerSwitch
      BY <2>2 DEF WorkerSwitch
    <2>3. CASE WorkerCall
      BY <2>3 DEF WorkerCall
    <2>4. CASE WorkerStore
      BY <2>4 DEF WorkerStore
    <2>5. CASE WorkerPost
      BY <2>5 DEF WorkerPost
    <2> QED
      BY <1>2, <2>1, <2>2, <2>3, <2>4, <2>5 DEF Worker
  <1>3. CASE Dtor
    <2>1. CASE DtorLock
      BY <2>1 DEF DtorLock
    <2>2. CASE DtorWrite
      BY <2>2 DEF DtorWrite
    <2>3. CASE DtorPost
      BY <2>3 DEF DtorPost
    <2>4. CASE DtorJoin
      BY <2>4 DEF DtorJoin
    <2> QED
      BY <1>3, <2>1, <2>2, <2>3, <2>4 DEF Dtor
  <1>4. CASE UNCHANGED vars
    BY <1>4 DEF vars
  <1> QED
    BY <1>1, <1>2, <1>3, <1>4 DEF Next, Destroyed

(* The token moves from the owner to the worker and back.                  *)
LEMMA NextTurnInv == IInv /\ [Next]_vars => TurnInv'
  <1> SUFFICES ASSUME IInv, [Next]_vars PROVE TurnInv'
    OBVIOUS
  <1> USE CallersAssumption, RequestsAssumption, ErrorsAssumption
      DEF IInv, TypeOK, OwnerInv, TurnInv, Quiet, Asked, Working, Replied, Ended
  <1>1. ASSUME NEW c \in Callers, Caller(c) PROVE TurnInv'
    <2>1. CASE Enter(c)
      BY <2>1 DEF Enter, Goto
    <2>2. CASE Lock(c)
      BY <2>2 DEF Lock, Goto
    <2>3. CASE Write(c)
      BY <2>3 DEF Write, Goto
    <2>4. CASE Post(c)
      <3>1. mx = c /\ Quiet /\ data.req = arg[c]
        BY <2>4 DEF Post, Goto
      <3>2. Asked' /\ data' = data /\ arg' = arg /\ mx' = mx /\ dpc' = dpc
        BY <2>4, <3>1 DEF Post
      <3>3. pc' = [pc EXCEPT ![c] = "wait"]
        BY <2>4 DEF Post, Goto
      <3>4. \A d \in Callers : pc'[d] = "wait" => d = c
        BY <3>1, <3>3
      <3> QED
        BY <3>1, <3>2, <3>3, <3>4
    <2>5. CASE Wait(c)
      BY <2>5 DEF Wait, Goto
    <2>6. CASE Read(c)
      BY <2>6 DEF Read, Goto
    <2>7. CASE Unlock(c)
      BY <2>7 DEF Unlock, Goto
    <2> QED
      BY <1>1, <2>1, <2>2, <2>3, <2>4, <2>5, <2>6, <2>7 DEF Caller, InCall
  <1>2. CASE Worker
    <2>1. CASE WorkerWait
      BY <2>1 DEF WorkerWait
    <2>2. CASE WorkerSwitch
      BY <2>2 DEF WorkerSwitch
    <2>3. CASE WorkerCall
      BY <2>3 DEF WorkerCall
    <2>4. CASE WorkerStore
      BY <2>4 DEF WorkerStore
    <2>5. CASE WorkerPost
      BY <2>5 DEF WorkerPost
    <2> QED
      BY <1>2, <2>1, <2>2, <2>3, <2>4, <2>5 DEF Worker
  <1>3. CASE Dtor
    <2>1. CASE DtorLock
      BY <2>1 DEF DtorLock
    <2>2. CASE DtorWrite
      BY <2>2 DEF DtorWrite
    <2>3. CASE DtorPost
      BY <2>3 DEF DtorPost
    <2>4. CASE DtorJoin
      BY <2>4 DEF DtorJoin
    <2> QED
      BY <1>3, <2>1, <2>2, <2>3, <2>4 DEF Dtor
  <1>4. CASE UNCHANGED vars
    BY <1>4 DEF vars
  <1> QED
    BY <1>1, <1>2, <1>3, <1>4 DEF Next, Destroyed

(* The answer in _data stays the owner's until it is read.                 *)
LEMMA NextAnswerInv == IInv /\ [Next]_vars => AnswerInv'
  <1> SUFFICES ASSUME IInv, [Next]_vars PROVE AnswerInv'
    OBVIOUS
  <1> USE CallersAssumption, RequestsAssumption, ErrorsAssumption
      DEF IInv, TypeOK, OwnerInv, TurnInv, AnswerInv, Quiet, Asked, Working,
          Replied, Ended, Legal
  <1>1. ASSUME NEW c \in Callers, Caller(c) PROVE AnswerInv'
    <2>1. CASE Enter(c)
      BY <2>1 DEF Enter, Goto
    <2>2. CASE Lock(c)
      BY <2>2 DEF Lock, Goto
    <2>3. CASE Write(c)
      BY <2>3 DEF Write, Goto
    <2>4. CASE Post(c)
      BY <2>4 DEF Post, Goto
    <2>5. CASE Wait(c)
      BY <2>5 DEF Wait, Goto
    <2>6. CASE Read(c)
      BY <2>6 DEF Read, Goto
    <2>7. CASE Unlock(c)
      BY <2>7 DEF Unlock, Goto
    <2> QED
      BY <1>1, <2>1, <2>2, <2>3, <2>4, <2>5, <2>6, <2>7 DEF Caller, InCall
  <1>2. CASE Worker
    <2>1. CASE WorkerWait
      BY <2>1 DEF WorkerWait
    <2>2. CASE WorkerSwitch
      BY <2>2 DEF WorkerSwitch
    <2>3. CASE WorkerCall
      BY <2>3 DEF WorkerCall
    <2>4. CASE WorkerStore
      BY <2>4 DEF WorkerStore
    <2>5. CASE WorkerPost
      BY <2>5 DEF WorkerPost
    <2> QED
      BY <1>2, <2>1, <2>2, <2>3, <2>4, <2>5 DEF Worker
  <1>3. CASE Dtor
    <2>1. CASE DtorLock
      BY <2>1 DEF DtorLock
    <2>2. CASE DtorWrite
      BY <2>2 DEF DtorWrite
    <2>3. CASE DtorPost
      BY <2>3 DEF DtorPost
    <2>4. CASE DtorJoin
      BY <2>4 DEF DtorJoin
    <2> QED
      BY <1>3, <2>1, <2>2, <2>3, <2>4 DEF Dtor
  <1>4. CASE UNCHANGED vars
    BY <1>4 DEF vars
  <1> QED
    BY <1>1, <1>2, <1>3, <1>4 DEF Next, Destroyed

(* The accesses to _data exclude each other.                               *)
LEMMA IInvNoDataRace == IInv => NoDataRace
  BY CallersAssumption DEF IInv, TypeOK, OwnerInv, TurnInv, NoDataRace, Quiet, Asked, Working,
     Replied, Ended

(* The inductive invariant holds in every reachable state.                 *)
THEOREM WrapperIInv == Spec => []IInv
  <1>1. IInv /\ [Next]_vars => IInv'
    BY NextTypeOK, NextOwnerInv, NextTurnInv, NextAnswerInv DEF IInv
  <1> QED
    BY InitIInv, <1>1, PTL DEF Spec

(* Type correctness of ptrace_wrapper's state.                             *)
THEOREM WrapperTypeOK == Spec => []TypeOK
  <1>1. IInv => TypeOK
    BY DEF IInv
  <1> QED
    BY WrapperIInv, <1>1, PTL

(* No two threads ever access the request struct _data at the same time.   *)
THEOREM WrapperNoDataRace == Spec => []NoDataRace
  BY WrapperIInv, IInvNoDataRace, PTL

-----------------------------------------------------------------------------
(* Refinement: Enter is Invoke, the worker's system call is Execute for    *)
(* the caller that owns the mutex, Unlock is Return; every other step      *)
(* leaves all calls where they are.                                        *)

(* A step that changes nobody's CallOf stutters.                           *)
LEMMA CallsStutter ==
    ASSUME \A d \in Callers : CallOf(d)' = CallOf(d)
    PROVE  Calls' = Calls
  BY DEF Calls

(* A step that changes CallOf of c only is an EXCEPT of Calls.             *)
LEMMA CallsExcept ==
    ASSUME NEW c \in Callers,
           \A d \in Callers \ {c} : CallOf(d)' = CallOf(d)
    PROVE  Calls' = [Calls EXCEPT ![c] = CallOf(c)'] /\ Calls[c] = CallOf(c)
  BY DEF Calls

(* Every step of a caller is a step of SyncCall or a stutter.              *)
LEMMA CallerRefines ==
    ASSUME IInv, IInv', NEW c \in Callers, Caller(c)
    PROVE  [Sync!Next]_Calls
  <1> USE CallersAssumption, RequestsAssumption, ErrorsAssumption
      DEF IInv, TypeOK, OwnerInv, TurnInv, Quiet, Asked, Working, Replied, Ended, Goto
  <1>1. CASE Enter(c)
    <2>1. PICK r \in Requests : arg' = [arg EXCEPT ![c] = r]
      BY <1>1 DEF Enter
    <2>2. CallOf(c) = Sync!Idle(ret[c])
      BY <1>1 DEF Enter, Sync!Idle, CallOf
    <2>3. CallOf(c)' = Sync!Invoked(r)
      BY <1>1, <2>1 DEF Enter, Sync!Invoked, CallOf
    <2>4. \A d \in Callers \ {c} : CallOf(d)' = CallOf(d)
      BY <1>1, <2>1 DEF Enter, CallOf
    <2>5. Calls[c] = Sync!Idle(ret[c]) /\ Calls' = [Calls EXCEPT ![c] = Sync!Invoked(r)]
      BY <2>2, <2>3, <2>4, CallsExcept
    <2>6. \E q \in Requests : Calls' = [Calls EXCEPT ![c] = Sync!Invoked(q)]
      BY <2>5, Zenon
    <2>7. Calls[c].st = "idle"
      BY <2>5 DEF Sync!Idle
    <2>8. Sync!Invoke(c)
      BY <2>6, <2>7, Zenon DEF Sync!Invoke
    <2> QED
      BY <2>8 DEF Sync!Next
  <1>2. CASE Lock(c)
    <2>1. \A d \in Callers : CallOf(d)' = CallOf(d)
      BY <1>2 DEF Lock, CallOf
    <2> QED
      BY <2>1, CallsStutter
  <1>3. CASE Write(c)
    <2>1. \A d \in Callers : CallOf(d)' = CallOf(d)
      BY <1>3 DEF Write, CallOf
    <2> QED
      BY <2>1, CallsStutter
  <1>4. CASE Post(c)
    <2>1. \A d \in Callers : CallOf(d)' = CallOf(d)
      BY <1>4 DEF Post, CallOf
    <2> QED
      BY <2>1, CallsStutter
  <1>5. CASE Wait(c)
    <2>1. \A d \in Callers : CallOf(d)' = CallOf(d)
      BY <1>5 DEF Wait, CallOf
    <2> QED
      BY <2>1, CallsStutter
  <1>6. CASE Read(c)
    <2>1. \A d \in Callers : CallOf(d)' = CallOf(d)
      BY <1>6 DEF Read, CallOf
    <2> QED
      BY <2>1, CallsStutter
  <1>7. CASE Unlock(c)
    <2>1. CallOf(c) = Sync!Executed(arg[c], ret[c])
      BY <1>7 DEF Unlock, Sync!Executed, CallOf
    <2>2. CallOf(c)' = Sync!Idle(ret[c])
      BY <1>7 DEF Unlock, Sync!Idle, CallOf
    <2>3. \A d \in Callers \ {c} : CallOf(d)' = CallOf(d)
      BY <1>7 DEF Unlock, CallOf
    <2>4. /\ Calls[c] = Sync!Executed(arg[c], ret[c])
          /\ Calls' = [Calls EXCEPT ![c] = Sync!Idle(ret[c])]
      BY <2>1, <2>2, <2>3, CallsExcept
    <2>5. Sync!Return(c)
      BY <2>4 DEF Sync!Return, Sync!Executed
    <2> QED
      BY <2>5 DEF Sync!Next
  <1> QED
    BY <1>1, <1>2, <1>3, <1>4, <1>5, <1>6, <1>7 DEF Caller, InCall

(* Every step of the worker is one of SyncCall's Execute or a stutter.     *)
LEMMA WorkerRefines ==
    ASSUME IInv, IInv', Worker
    PROVE  [Sync!Next]_Calls
  <1> USE CallersAssumption, RequestsAssumption, ErrorsAssumption
      DEF IInv, TypeOK, OwnerInv, TurnInv, Quiet, Asked, Working, Replied, Ended
  <1>1. CASE WorkerWait
    <2>1. \A d \in Callers : CallOf(d)' = CallOf(d)
      BY <1>1 DEF WorkerWait, CallOf
    <2> QED
      BY <2>1, CallsStutter
  <1>2. CASE WorkerSwitch
    <2>1. \A d \in Callers : CallOf(d)' = CallOf(d)
      BY <1>2 DEF WorkerSwitch, CallOf
    <2> QED
      BY <2>1, CallsStutter
  <1>3. CASE WorkerCall
    <2>1. PICK c \in Callers : pc[c] = "wait" /\ mx = c
      BY <1>3 DEF WorkerCall, CallerStates, DtorStates
    <2>2. data.req = arg[c] /\ arg[c] \in Requests /\ errno = 0
      BY <1>3, <2>1 DEF WorkerCall, AnswerInv
    <2>3. CallOf(c) = Sync!Invoked(arg[c])
      BY <1>3, <2>1 DEF WorkerCall, Sync!Invoked, CallOf
    <2>4. \A d \in Callers \ {c} : CallOf(d)' = CallOf(d)
      BY <1>3, <2>1 DEF WorkerCall, CallOf
    <2> DEFINE o == Outcome(data.result, errno)'
    <2>5. CallOf(c)' = Sync!Executed(arg[c], o)
      BY <1>3, <2>1 DEF WorkerCall, Sync!Executed, Outcome, CallOf
    <2>6. o \in Sync!Outcomes(arg[c])
      BY <1>3, <2>2 DEF WorkerCall, Sync!Outcomes, Outcome
    <2>7. /\ Calls[c] = Sync!Invoked(arg[c])
          /\ Calls' = [Calls EXCEPT ![c] = Sync!Executed(arg[c], o)]
      BY <2>3, <2>4, <2>5, CallsExcept
    <2> HIDE DEF o
    <2>8. Calls[c].st = "invoked" /\ Calls[c].req = arg[c]
      BY <2>7 DEF Sync!Invoked
    <2>9. Sync!Execute(c)
      BY <2>6, <2>7, <2>8, Zenon DEF Sync!Execute
    <2> QED
      BY <2>9 DEF Sync!Next
  <1>4. CASE WorkerStore
    <2>1. \A d \in Callers : CallOf(d)' = CallOf(d)
      BY <1>4 DEF WorkerStore, Outcome, CallOf
    <2> QED
      BY <2>1, CallsStutter
  <1>5. CASE WorkerPost
    <2>1. \A d \in Callers : CallOf(d)' = CallOf(d)
      BY <1>5 DEF WorkerPost, CallOf
    <2> QED
      BY <2>1, CallsStutter
  <1> QED
    BY <1>1, <1>2, <1>3, <1>4, <1>5 DEF Worker

(* The destructor and a stutter leave every call where it is.              *)
LEMMA DtorRefines ==
    ASSUME IInv, IInv', Dtor \/ UNCHANGED vars
    PROVE  [Sync!Next]_Calls
  <1>1. \A d \in Callers : CallOf(d)' = CallOf(d)
    BY CallersAssumption DEF IInv, TypeOK, OwnerInv, TurnInv, CallOf, Dtor, DtorLock, DtorWrite,
       DtorPost, DtorJoin, vars
  <1> QED
    BY <1>1, CallsStutter

(* For any callers and requests, ptrace_wrapper implements SyncCall: each  *)
(* call is executed exactly once and returns its own result, with a        *)
(* non-zero error exactly when the kernel refused it.                      *)
THEOREM WrapperImplementsSyncCall == Spec => ImplementsSyncCall
  <1>1. Init => Sync!Init
    BY DEF Init, Calls, CallOf, Outcome, Sync!Init, Sync!Idle, Sync!Never
  <1>2. IInv /\ IInv' /\ [Next]_vars => [Sync!Next]_Calls
    BY CallerRefines, WorkerRefines, DtorRefines DEF Next, Destroyed
  <1> QED
    BY WrapperIInv, <1>1, <1>2, PTL DEF Spec, ImplementsSyncCall, Sync!Spec
=============================================================================
