----------------------------- MODULE MCSignaler -----------------------------
(* Two posters and two waiters, one more waiter than the profiler uses, so *)
(* that notify_one() has a choice and posts can meet a closing wait_for(). *)
EXTENDS Signaler
=============================================================================
