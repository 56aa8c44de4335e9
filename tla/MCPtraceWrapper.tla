--------------------------- MODULE MCPtraceWrapper ---------------------------
(***************************************************************************)
(* Three profiler threads and two requests: a PTRACE_PEEKDATA whose        *)
(* word may be -1 and a fork.  Their results differ, so that an answer     *)
(* given to the wrong caller shows.                                        *)
(***************************************************************************)
EXTENDS PtraceWrapper, TLC

CONSTANTS peek, fork

MCRequests == {peek, fork}
MCResults  == peek :> {-1, 5} @@ fork :> {77}
MCErrors   == {3}                    \* ESRCH
=============================================================================
