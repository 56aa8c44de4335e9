--------------------------- MODULE AutoResetEvent ---------------------------
(***************************************************************************)
(* What signaler promises: an event that a post opens and that one waiter  *)
(* closes as it leaves.  Two posts before a waiter leaves count as one.  A *)
(* wait_for() may leave at any time, and closes the event as well.         *)
(***************************************************************************)
CONSTANT Waiters

VARIABLES open,      \* _open
          waiter     \* waiter[w]: what w is blocked in

Modes == {"wait", "wait_for"}

TypeOK ==
    /\ open \in BOOLEAN
    /\ waiter \in [Waiters -> Modes \cup {"none"}]

Init == open = FALSE /\ waiter = [w \in Waiters |-> "none"]

Post == open' = TRUE /\ UNCHANGED waiter

Begin(w, mode) ==
    /\ waiter[w] = "none"
    /\ waiter' = [waiter EXCEPT ![w] = mode]
    /\ UNCHANGED open

Leave(w) ==
    /\ \/ waiter[w] = "wait" /\ open
       \/ waiter[w] = "wait_for"
    /\ open' = FALSE
    /\ waiter' = [waiter EXCEPT ![w] = "none"]

Next ==
    \/ Post
    \/ \E w \in Waiters : Leave(w) \/ \E m \in Modes : Begin(w, m)

Spec == Init /\ [][Next]_<<open, waiter>>
=============================================================================
