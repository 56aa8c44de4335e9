------------------------------ MODULE Signaler ------------------------------
(***************************************************************************)
(* signaler (src/signaler.cpp): a flag, a mutex and a condition variable.  *)
(* A waiter tests the flag with the mutex held and, if it is clear, goes   *)
(* to sleep and gives the mutex up in one step; it wakes when notified,    *)
(* spuriously, or when the time of a wait_for() is over, and tests again.  *)
(* A post sets the flag under the mutex and notifies after releasing it.   *)
(***************************************************************************)
CONSTANTS Posters, Waiters,
          Free        \* the owner of a mutex nobody holds

ASSUME ThreadsAssumption == Posters \cap Waiters = {} /\ Free \notin Posters \cup Waiters

VARIABLES open,       \* _open
          mx,         \* _m: its owner
          ppc,        \* where each poster is in post()
          wpc,        \* where each waiter is in wait() or wait_for()
          mode,       \* which of the two it called
          expired     \* the time of its wait_for() is over

vars == <<open, mx, ppc, wpc, mode, expired>>

Modes == {"wait", "wait_for"}

Init ==
    /\ open = FALSE
    /\ mx = Free
    /\ ppc = [p \in Posters |-> "idle"]
    /\ wpc = [w \in Waiters |-> "idle"]
    /\ mode = [w \in Waiters |-> "wait"]
    /\ expired = [w \in Waiters |-> FALSE]

-----------------------------------------------------------------------------
PostBegin(p) ==
    /\ ppc[p] = "idle" /\ ppc' = [ppc EXCEPT ![p] = "lock"]
    /\ UNCHANGED <<open, mx, wpc, mode, expired>>

PostLock(p) ==
    /\ ppc[p] = "lock" /\ ppc' = [ppc EXCEPT ![p] = "set"]
    /\ mx = Free /\ mx' = p
    /\ UNCHANGED <<open, wpc, mode, expired>>

(* Mutant: the post does not notify.                                       *)
PostSetSilent(p) ==
    /\ ppc[p] = "set" /\ ppc' = [ppc EXCEPT ![p] = "idle"]
    /\ open' = TRUE
    /\ mx' = Free
    /\ UNCHANGED <<wpc, mode, expired>>

PostSet(p) ==
    /\ ppc[p] = "set" /\ ppc' = [ppc EXCEPT ![p] = "notify"]
    /\ open' = TRUE
    /\ mx' = Free
    /\ UNCHANGED <<wpc, mode, expired>>

Sleeping == {w \in Waiters : wpc[w] = "sleep"}

(* notify_one() wakes one sleeping waiter, if there is one.                *)
PostNotify(p) ==
    /\ ppc[p] = "notify" /\ ppc' = [ppc EXCEPT ![p] = "idle"]
    /\ \/ Sleeping = {} /\ UNCHANGED wpc
       \/ \E w \in Sleeping : wpc' = [wpc EXCEPT ![w] = "lock"]
    /\ UNCHANGED <<open, mx, mode, expired>>

-----------------------------------------------------------------------------
(* Mutant: a third mode of waiting that none of the steps below knows.     *)
WaitBeginUntil(w) ==
    /\ wpc[w] = "idle" /\ wpc' = [wpc EXCEPT ![w] = "lock"]
    /\ \E m \in Modes \cup {"wait_until"} : mode' = [mode EXCEPT ![w] = m]
    /\ expired' = [expired EXCEPT ![w] = FALSE]
    /\ UNCHANGED <<open, mx, ppc>>

WaitBegin(w) ==
    /\ wpc[w] = "idle" /\ wpc' = [wpc EXCEPT ![w] = "lock"]
    /\ \E m \in Modes : mode' = [mode EXCEPT ![w] = m]
    /\ expired' = [expired EXCEPT ![w] = FALSE]
    /\ UNCHANGED <<open, mx, ppc>>

WaitLock(w) ==
    /\ wpc[w] = "lock" /\ wpc' = [wpc EXCEPT ![w] = "test"]
    /\ mx = Free /\ mx' = w
    /\ UNCHANGED <<open, ppc, mode, expired>>

(* Mutant: a wait_for() that woke up leaves without testing the flag.      *)
WaitLeaveUntested(w) ==
    /\ wpc[w] = "test" /\ wpc' = [wpc EXCEPT ![w] = "idle"]
    /\ open' = FALSE
    /\ mx' = Free
    /\ UNCHANGED <<ppc, mode, expired>>

(* The predicate holds, or the time is over: close the event and return.   *)
WaitLeave(w) ==
    /\ wpc[w] = "test" /\ wpc' = [wpc EXCEPT ![w] = "idle"]
    /\ open \/ expired[w]
    /\ open' = FALSE
    /\ mx' = Free
    /\ UNCHANGED <<ppc, mode, expired>>

(* Mutant: the flag was tested before the mutex was taken.                 *)
WaitSleepStale(w) ==
    /\ wpc[w] = "test" /\ wpc' = [wpc EXCEPT ![w] = "sleep"]
    /\ ~expired[w]
    /\ mx' = Free
    /\ UNCHANGED <<open, ppc, mode, expired>>

WaitSleep(w) ==
    /\ wpc[w] = "test" /\ wpc' = [wpc EXCEPT ![w] = "sleep"]
    /\ ~open /\ ~expired[w]
    /\ mx' = Free
    /\ UNCHANGED <<open, ppc, mode, expired>>

SpuriousWakeup(w) ==
    /\ wpc[w] = "sleep" /\ wpc' = [wpc EXCEPT ![w] = "lock"]
    /\ UNCHANGED <<open, mx, ppc, mode, expired>>

(* Mutant: the deadline starts anew at each wake-up.                       *)
TimeoutAsleep(w) ==
    /\ wpc[w] = "sleep" /\ mode[w] = "wait_for"
    /\ expired' = [expired EXCEPT ![w] = TRUE]
    /\ wpc' = [wpc EXCEPT ![w] = "lock"]
    /\ UNCHANGED <<open, mx, ppc, mode>>

(* The deadline is absolute: it passes wherever the waiter is by then.     *)
Timeout(w) ==
    /\ wpc[w] # "idle" /\ mode[w] = "wait_for" /\ ~expired[w]
    /\ expired' = [expired EXCEPT ![w] = TRUE]
    /\ wpc' = [wpc EXCEPT ![w] = IF @ = "sleep" THEN "lock" ELSE @]
    /\ UNCHANGED <<open, mx, ppc, mode>>

-----------------------------------------------------------------------------
Posting(p) == PostLock(p) \/ PostSet(p) \/ PostNotify(p)

Waiting(w) == WaitLock(w) \/ WaitLeave(w) \/ WaitSleep(w)

Next ==
    \/ \E p \in Posters : PostBegin(p) \/ Posting(p)
    \/ \E w \in Waiters : WaitBegin(w) \/ Waiting(w) \/ SpuriousWakeup(w) \/ Timeout(w)

Spec == Init /\ [][Next]_vars

(* A thread inside post(), wait() or wait_for() runs whenever it can, and  *)
(* clocks advance.  Nothing more is assumed of the mutex: of those who try *)
(* to take it one gets it, and it may always be another.                   *)
Fairness ==
    /\ \A p \in Posters : WF_vars(Posting(p))
    /\ \A w \in Waiters : WF_vars(Waiting(w)) /\ WF_vars(Timeout(w))

FairSpec == Spec /\ Fairness

-----------------------------------------------------------------------------
TypeOK ==
    /\ open \in BOOLEAN
    /\ mx \in Posters \cup Waiters \cup {Free}
    /\ ppc \in [Posters -> {"idle", "lock", "set", "notify"}]
    /\ wpc \in [Waiters -> {"idle", "lock", "test", "sleep"}]
    /\ mode \in [Waiters -> Modes]
    /\ expired \in [Waiters -> BOOLEAN]

(* No post is lost: when the event is open and a waiter sleeps, a notify   *)
(* is still to come or another waiter is awake and will test the flag.     *)
NoLostWakeup ==
    open /\ Sleeping # {} =>
        \/ \E p \in Posters : ppc[p] = "notify"
        \/ \E w \in Waiters : wpc[w] \in {"lock", "test"}

Event == INSTANCE AutoResetEvent
            WITH waiter <- [w \in Waiters |-> IF wpc[w] = "idle" THEN "none" ELSE mode[w]]

(* With its mutex, its condition variable and its spurious wake-ups, the   *)
(* signaler is an event that each post opens and each waiter closes.       *)
ImplementsEvent == Event!Spec

(* The mutex keeps being taken and given back by some of these threads.    *)
BusyWith(threads) == []<>(mx \in threads) /\ []<>(mx = Free)

(* A wait_for() returns, posts or no posts, unless others keep taking the  *)
(* mutex: std::condition_variable promises the one who waits no turn.      *)
TimedWaitReturns ==
    \A w \in Waiters :
        \/ BusyWith((Posters \cup Waiters) \ {w})
        \/ (wpc[w] # "idle" /\ mode[w] = "wait_for") ~> (wpc[w] = "idle")

(* While the event is open and someone waits, somebody gets through, unless*)
(* posts go on for ever.                                                   *)
PostWakes ==
    BusyWith(Posters) \/ ((open /\ \E w \in Waiters : wpc[w] # "idle") ~> ~open)
=============================================================================
