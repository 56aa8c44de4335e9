---------------------------- MODULE PtraceWrapper ----------------------------
(***************************************************************************)
(* ptrace_wrapper (src/ptrace_wrapper.cpp).  Linux only accepts ptrace     *)
(* requests from the thread that attached to the tracee, so one worker     *)
(* thread issues every request of the profiler.  Callers hand their        *)
(* request over in the shared struct _data, under _global_mx, and the two  *)
(* sides rendezvous on the semaphores _req_sem and _res_sem.               *)
(*                                                                         *)
(* The union in request_data is one request field; a result and an error   *)
(* field are shared by both kinds of request.  The system call itself is   *)
(* the kernel's: it returns one of Results[r] and leaves errno alone, or   *)
(* returns -1 and sets errno.                                              *)
(***************************************************************************)
EXTENDS Integers

CONSTANTS Callers, Requests, Results, Errors,
          Finish,     \* request::finish
          Main,       \* the thread that destroys the static instance
          NoOne       \* the owner of a mutex nobody holds

ASSUME CallersAssumption == Main \notin Callers /\ NoOne \notin Callers \cup {Main}
ASSUME RequestsAssumption == Finish \notin Requests
ASSUME ErrorsAssumption == Errors \subseteq Int \ {0}
ASSUME ResultsAssumption == \A r \in Requests : Results[r] \subseteq Int

VARIABLES mx,       \* _global_mx: its owner
          reqSem,   \* _req_sem
          resSem,   \* _res_sem
          data,     \* _data: the request, the result and the error fields
          errno,    \* the worker thread's errno
          wpc,      \* where the worker is in thread_work()
          pc,       \* where each caller is in ptrace() or fork()
          arg,      \* the arguments of each caller's call
          ret,      \* what each caller's last call gave it
          dpc       \* where the destructor is

vars == <<mx, reqSem, resSem, data, errno, wpc, pc, arg, ret, dpc>>

CallerStates == {"idle", "lock", "write", "post", "wait", "read", "unlock"}
WorkerStates == {"wait", "switch", "call", "store", "post", "ended"}
DtorStates   == {"live", "write", "post", "join", "destroyed"}

Outcome(res, err) == [result |-> res, error |-> err]

Init ==
    /\ mx = NoOne
    /\ reqSem = 0 /\ resSem = 0
    /\ data \in [req : Requests, result : {0}, error : {0}]
    /\ errno = 0
    /\ wpc = "wait"
    /\ pc = [c \in Callers |-> "idle"]
    /\ arg \in [Callers -> Requests]
    /\ ret = [c \in Callers |-> Outcome(0, 0)]
    /\ dpc = "live"

-----------------------------------------------------------------------------
(* The callers: ptrace() and fork(), which differ in the request only.     *)

Goto(c, from, to) == pc[c] = from /\ pc' = [pc EXCEPT ![c] = to]

Enter(c) ==
    /\ dpc = "live"
    /\ Goto(c, "idle", "lock")
    /\ \E r \in Requests : arg' = [arg EXCEPT ![c] = r]
    /\ UNCHANGED <<mx, reqSem, resSem, data, errno, wpc, ret, dpc>>

Lock(c) ==
    /\ Goto(c, "lock", "write")
    /\ mx = NoOne
    /\ mx' = c
    /\ UNCHANGED <<reqSem, resSem, data, errno, wpc, arg, ret, dpc>>

Write(c) ==
    /\ Goto(c, "write", "post")
    /\ data' = [data EXCEPT !.req = arg[c]]
    /\ UNCHANGED <<mx, reqSem, resSem, errno, wpc, arg, ret, dpc>>

Post(c) ==
    /\ Goto(c, "post", "wait")
    /\ reqSem' = reqSem + 1
    /\ UNCHANGED <<mx, resSem, data, errno, wpc, arg, ret, dpc>>

(* Mutant: sem_wait() comes back (EINTR) and nobody looks at its result.   *)
WaitInterrupted(c) ==
    /\ Goto(c, "wait", "read")
    /\ resSem' = IF resSem > 0 THEN resSem - 1 ELSE 0
    /\ UNCHANGED <<mx, reqSem, data, errno, wpc, arg, ret, dpc>>

(* Mutant: the counter of a semaphore that does not block.                 *)
WaitUnguarded(c) ==
    /\ Goto(c, "wait", "read")
    /\ resSem' = resSem - 1
    /\ UNCHANGED <<mx, reqSem, data, errno, wpc, arg, ret, dpc>>

Wait(c) ==
    /\ Goto(c, "wait", "read")
    /\ resSem > 0
    /\ resSem' = resSem - 1
    /\ UNCHANGED <<mx, reqSem, data, errno, wpc, arg, ret, dpc>>

Read(c) ==
    /\ Goto(c, "read", "unlock")
    /\ ret' = [ret EXCEPT ![c] = Outcome(data.result, data.error)]
    /\ UNCHANGED <<mx, reqSem, resSem, data, errno, wpc, arg, dpc>>

Unlock(c) ==
    /\ Goto(c, "unlock", "idle")
    /\ mx' = NoOne
    /\ UNCHANGED <<reqSem, resSem, data, errno, wpc, arg, ret, dpc>>

-----------------------------------------------------------------------------
(* The worker: thread_work().                                              *)

WorkerWait ==
    /\ wpc = "wait" /\ wpc' = "switch"
    /\ reqSem > 0
    /\ reqSem' = reqSem - 1
    /\ UNCHANGED <<mx, resSem, data, errno, pc, arg, ret, dpc>>

(* Mutant: errno is not cleared before the system call.                    *)
WorkerSwitchKeepsErrno ==
    /\ wpc = "switch"
    /\ wpc' = IF data.req = Finish THEN "ended" ELSE "call"
    /\ UNCHANGED <<mx, reqSem, resSem, data, errno, pc, arg, ret, dpc>>

WorkerSwitch ==
    /\ wpc = "switch"
    /\ IF data.req = Finish
       THEN wpc' = "ended" /\ UNCHANGED errno
       ELSE wpc' = "call" /\ errno' = 0
    /\ UNCHANGED <<mx, reqSem, resSem, data, pc, arg, ret, dpc>>

(* The system call succeeds, and errno keeps its value, or fails.          *)
WorkerCall ==
    /\ wpc = "call" /\ wpc' = "store"
    /\ \/ \E v \in Results[data.req] :
             data' = [data EXCEPT !.result = v] /\ UNCHANGED errno
       \/ /\ data' = [data EXCEPT !.result = -1]
          /\ errno' \in Errors
    /\ UNCHANGED <<mx, reqSem, resSem, pc, arg, ret, dpc>>

WorkerStore ==
    /\ wpc = "store" /\ wpc' = "post"
    /\ data' = [data EXCEPT !.error = errno]
    /\ UNCHANGED <<mx, reqSem, resSem, errno, pc, arg, ret, dpc>>

(* Mutant: a failed request returns to the loop without posting.           *)
WorkerPostOnSuccess ==
    /\ wpc = "post" /\ wpc' = "wait"
    /\ resSem' = IF data.error = 0 THEN resSem + 1 ELSE resSem
    /\ UNCHANGED <<mx, reqSem, data, errno, pc, arg, ret, dpc>>

WorkerPost ==
    /\ wpc = "post" /\ wpc' = "wait"
    /\ resSem' = resSem + 1
    /\ UNCHANGED <<mx, reqSem, data, errno, pc, arg, ret, dpc>>

-----------------------------------------------------------------------------
(* The destructor runs when main() has returned: every tracer has been     *)
(* waited for by then (~tracer), so no call is under way or still to come. *)

DtorLock ==
    /\ dpc = "live" /\ dpc' = "write"
    /\ \A c \in Callers : pc[c] = "idle"
    /\ mx = NoOne
    /\ mx' = Main
    /\ UNCHANGED <<reqSem, resSem, data, errno, wpc, pc, arg, ret>>

(* Mutant: the destructor wakes the worker without asking it to finish.    *)
DtorWriteNothing ==
    /\ dpc = "write" /\ dpc' = "post"
    /\ UNCHANGED <<mx, reqSem, resSem, data, errno, wpc, pc, arg, ret>>

DtorWrite ==
    /\ dpc = "write" /\ dpc' = "post"
    /\ data' = [data EXCEPT !.req = Finish]
    /\ UNCHANGED <<mx, reqSem, resSem, errno, wpc, pc, arg, ret>>

DtorPost ==
    /\ dpc = "post" /\ dpc' = "join"
    /\ reqSem' = reqSem + 1
    /\ UNCHANGED <<mx, resSem, data, errno, wpc, pc, arg, ret>>

DtorJoin ==
    /\ dpc = "join" /\ dpc' = "destroyed"
    /\ wpc = "ended"
    /\ mx' = NoOne
    /\ UNCHANGED <<reqSem, resSem, data, errno, wpc, pc, arg, ret>>

Destroyed == dpc = "destroyed" /\ UNCHANGED vars

-----------------------------------------------------------------------------
InCall(c) == Write(c) \/ Post(c) \/ Wait(c) \/ Read(c) \/ Unlock(c)

Caller(c) == Enter(c) \/ Lock(c) \/ InCall(c)

Worker == WorkerWait \/ WorkerSwitch \/ WorkerCall \/ WorkerStore \/ WorkerPost

Dtor == DtorLock \/ DtorWrite \/ DtorPost \/ DtorJoin

Next == (\E c \in Callers : Caller(c)) \/ Worker \/ Dtor \/ Destroyed

Spec == Init /\ [][Next]_vars

(* Threads that can run do run.  Nothing is assumed of Lock: std::mutex    *)
(* promises no caller that it will ever win it.                            *)
Fairness ==
    /\ \A c \in Callers : WF_vars(InCall(c))
    /\ WF_vars(Worker)
    /\ WF_vars(DtorWrite \/ DtorPost \/ DtorJoin)

FairSpec == Spec /\ Fairness

-----------------------------------------------------------------------------
TypeOK ==
    /\ mx \in Callers \cup {Main, NoOne}
    /\ reqSem \in Nat /\ resSem \in Nat
    /\ data \in [req : Requests \cup {Finish}, result : Int, error : Int]
    /\ errno \in Int
    /\ wpc \in WorkerStates
    /\ pc \in [Callers -> CallerStates]
    /\ arg \in [Callers -> Requests]
    /\ ret \in [Callers -> [result : Int, error : Int]]
    /\ dpc \in DtorStates

(* _data is never accessed by two threads at once: while the worker reads  *)
(* the request or writes the result, no caller and no destructor is        *)
(* between its own accesses, and callers exclude each other.  (_data is    *)
(* plain memory: anything else is a data race.)                            *)
NoDataRace ==
    LET accessing == {c \in Callers : pc[c] \in {"write", "read"}}
        worker    == wpc \in {"switch", "call", "store"}
    IN  /\ \A c, d \in accessing : c = d
        /\ worker => accessing = {} /\ dpc # "write"
        /\ dpc = "write" => accessing = {}

(* A call returns what the kernel answered to that very request, and       *)
(* executes it exactly once: the wrapper implements SyncCall.              *)
CallOf(c) ==
    CASE pc[c] = "idle"   -> [st |-> "idle", last |-> ret[c]]
      [] pc[c] = "unlock" -> [st |-> "executed", req |-> arg[c], out |-> ret[c]]
      [] pc[c] = "read" \/ (pc[c] = "wait" /\ (wpc = "post" \/ resSem > 0)) ->
            [st |-> "executed", req |-> arg[c], out |-> Outcome(data.result, data.error)]
      [] pc[c] = "wait" /\ wpc = "store" ->
            [st |-> "executed", req |-> arg[c], out |-> Outcome(data.result, errno)]
      [] OTHER -> [st |-> "invoked", req |-> arg[c]]

Calls == [c \in Callers |-> CallOf(c)]

Sync == INSTANCE SyncCall WITH call <- Calls

ImplementsSyncCall == Sync!Spec

(* A thread that has won the mutex gets its answer and leaves: the worker  *)
(* and the caller never wait for each other.                               *)
HolderReturns == \A c \in Callers : (mx = c) ~> (pc[c] = "idle")

(* The destructor's finish request ends the worker, so join() returns.     *)
DtorReturns == (dpc = "write") ~> (dpc = "destroyed")
=============================================================================
