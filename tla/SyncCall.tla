------------------------------ MODULE SyncCall ------------------------------
(***************************************************************************)
(* What ptrace_wrapper promises its callers: ptrace() and fork() behave as *)
(* if the calling thread made the system call itself.  A call is executed  *)
(* by the kernel exactly once, between its invocation and its return, and  *)
(* the caller gets the result and the error of its own request: error 0    *)
(* exactly when the system call succeeded.                                 *)
(***************************************************************************)
EXTENDS Integers

CONSTANTS Callers,    \* the profiler's threads
          Requests,   \* ptrace and fork requests
          Results,    \* Results[r]: what a successful request r may return
          Errors      \* errno values of a failed request

VARIABLE call         \* call[c]: where c's current (or last) call stands

(* A PTRACE_PEEKDATA that succeeds may well return -1: only the error says *)
(* whether a request failed.                                               *)
Outcomes(r) == [result : Results[r], error : {0}] \cup [result : {-1}, error : Errors]

Idle(o)       == [st |-> "idle", last |-> o]
Invoked(r)    == [st |-> "invoked", req |-> r]
Executed(r,o) == [st |-> "executed", req |-> r, out |-> o]

Never == [result |-> 0, error |-> 0]      \* a thread's outcome before its first call

Init == call = [c \in Callers |-> Idle(Never)]

Invoke(c) ==
    /\ call[c].st = "idle"
    /\ \E r \in Requests : call' = [call EXCEPT ![c] = Invoked(r)]

Execute(c) ==
    /\ call[c].st = "invoked"
    /\ \E o \in Outcomes(call[c].req) :
          call' = [call EXCEPT ![c] = Executed(call[c].req, o)]

Return(c) ==
    /\ call[c].st = "executed"
    /\ call' = [call EXCEPT ![c] = Idle(call[c].out)]

Next == \E c \in Callers : Invoke(c) \/ Execute(c) \/ Return(c)

Spec == Init /\ [][Next]_call
=============================================================================
