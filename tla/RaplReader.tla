----------------------------- MODULE RaplReader -----------------------------
(***************************************************************************)
(* Reading RAPL counters (nrg/src/x86_64/reader_cpu.cpp): energy_uj of an  *)
(* event wraps around after max_energy_range_uj, and read() adds the range *)
(* to what it returns each time the counter is less than it last was.  The *)
(* previous value and the accumulated range are mutable members of the one *)
(* reader that all samplers call, without a lock.                          *)
(*                                                                         *)
(* curr_max only grows by max and is kept as a number of maxima, so that a *)
(* sample is a pair: the counter and the ranges added to it.               *)
(***************************************************************************)
EXTENDS Integers

CONSTANTS Callers,     \* the threads that sample
          Events,      \* _active_events is 1..Events
          Max,         \* max_energy_range_uj, in units of the counter
          MaxTurns,    \* bound: how often a counter wraps around
          ReadsFail    \* whether reading a counter may fail

ConstantsOK ==
    /\ Callers # {}
    /\ Events \in Nat \ {0} /\ Max \in Nat \ {0}
    /\ MaxTurns \in Nat
    /\ ReadsFail \in BOOLEAN

VARIABLES counter,     \* energy_uj of each event
          turns,       \* history: how often it wrapped since it was first read
          age,         \* history: energy used since it was last read, up to Max + 1
          read,        \* history: whether it was read, and its turns at that time
          prev, ranges,\* event_data::prev and ::curr_max
          call,        \* where each caller is in read(), and its locals
          raced,       \* history: two calls of read() have overlapped
          late         \* history: the events not read for a whole range

vars == <<counter, turns, age, read, prev, ranges, call, raced, late>>

Event == 1..Events
Unread == -1

NoSample == [e \in Event |-> [curr |-> 0, ranges |-> 0, turns |-> 0]]
Idle == [at |-> "idle", ev |-> 1, curr |-> 0, data |-> NoSample]

Init ==
    /\ counter \in [Event -> 0..Max]
    /\ turns = [e \in Event |-> 0]
    /\ age = [e \in Event |-> 0]
    /\ read = [e \in Event |-> Unread]
    /\ prev = [e \in Event |-> 0] /\ ranges = [e \in Event |-> 0]
    /\ call = [c \in Callers |-> Idle]
    /\ raced = FALSE /\ late = {}

-----------------------------------------------------------------------------
(* The machine consumes a unit of energy in the domain of an event.        *)
Consume(e) ==
    /\ counter[e] = Max /\ read[e] # Unread => turns[e] < MaxTurns
    /\ counter' = [counter EXCEPT ![e] = IF @ = Max THEN 0 ELSE @ + 1]
    /\ turns' = [turns EXCEPT ![e] = IF counter[e] = Max /\ read[e] # Unread THEN @ + 1 ELSE @]
    /\ age' = [age EXCEPT ![e] = IF read[e] = Unread \/ @ > Max THEN @ ELSE @ + 1]
    /\ UNCHANGED <<read, prev, ranges, call, raced, late>>

Busy == {c \in Callers : call[c].at # "idle"}

(* read(s, ec): all events in order.                                       *)
Begin(c) ==
    /\ call[c].at = "idle"
    /\ call' = [call EXCEPT ![c] = [Idle EXCEPT !.at = "load"]]
    /\ raced' = (raced \/ Busy # {})
    /\ UNCHANGED <<counter, turns, age, read, prev, ranges, late>>

(* read_uint64() of the file of the event.                                 *)
Load(c) ==
    LET e == call[c].ev IN
    /\ call[c].at = "load"
    /\ \/ /\ call' = [call EXCEPT ![c].at = "compare", ![c].curr = counter[e]]
          /\ read' = [read EXCEPT ![e] = turns[e]]
          /\ age' = [age EXCEPT ![e] = 0]
          /\ late' = IF age[e] > Max THEN late \cup {e} ELSE late
       \/ /\ ReadsFail
          /\ call' = [call EXCEPT ![c].at = "failed"]
          /\ UNCHANGED <<read, age, late>>
    /\ UNCHANGED <<counter, turns, prev, ranges, raced>>

(* Mutant: a counter that has not moved is taken for one that wrapped.     *)
CompareAtMost(c) ==
    /\ call[c].at = "compare"
    /\ call' = [call EXCEPT ![c].at =
                    IF call[c].curr <= prev[call[c].ev] THEN "wrapped" ELSE "store"]
    /\ UNCHANGED <<counter, turns, age, read, prev, ranges, raced, late>>

Compare(c) ==
    /\ call[c].at = "compare"
    /\ call' = [call EXCEPT ![c].at =
                    IF call[c].curr < prev[call[c].ev] THEN "wrapped" ELSE "store"]
    /\ UNCHANGED <<counter, turns, age, read, prev, ranges, raced, late>>

Accumulate(c) ==
    /\ call[c].at = "wrapped"
    /\ ranges' = [ranges EXCEPT ![call[c].ev] = @ + 1]
    /\ call' = [call EXCEPT ![c].at = "store"]
    /\ UNCHANGED <<counter, turns, age, read, prev, raced, late>>

(* prev = curr, and the sample gets curr + curr_max.                       *)
Store(c) ==
    LET e == call[c].ev IN
    /\ call[c].at = "store"
    /\ prev' = [prev EXCEPT ![e] = call[c].curr]
    /\ call' = [call EXCEPT ![c].data[e] = [curr |-> call[c].curr, ranges |-> ranges[e],
                                            turns |-> read[e]],
                            ![c].ev = IF e < Events THEN e + 1 ELSE e,
                            ![c].at = IF e < Events THEN "load" ELSE "done"]
    /\ UNCHANGED <<counter, turns, age, read, ranges, raced, late>>

(* read() returns; the caller keeps or drops the sample.                   *)
End(c) ==
    /\ call[c].at \in {"done", "failed"}
    /\ call' = [call EXCEPT ![c] = Idle]
    /\ UNCHANGED <<counter, turns, age, read, prev, ranges, raced, late>>

Step(c) == Load(c) \/ Compare(c) \/ Accumulate(c) \/ Store(c)

Next ==
    \/ \E e \in Event : Consume(e)
    \/ \E c \in Callers : Begin(c) \/ Step(c) \/ End(c)

Spec == Init /\ [][Next]_vars

-----------------------------------------------------------------------------
Sample == [curr : 0..Max, ranges : Nat, turns : Nat \cup {Unread}]

Call == [at : {"idle", "load", "compare", "wrapped", "store", "done", "failed"},
         ev : Event, curr : 0..Max, data : [Event -> Sample]]

TypeOK ==
    /\ counter \in [Event -> 0..Max]
    /\ turns \in [Event -> Nat]
    /\ age \in [Event -> 0..(Max + 1)]
    /\ read \in [Event -> Nat \cup {Unread}]
    /\ prev \in [Event -> 0..Max]
    /\ ranges \in [Event -> Nat]
    /\ call \in [Callers -> Call]
    /\ raced \in BOOLEAN
    /\ late \subseteq Event

(* A sample of a counter that is read at least once in each range, by one  *)
(* caller at a time, has one range added for each time the counter has     *)
(* wrapped around since it was first read, whatever reads failed between   *)
(* (of any event) and whoever read.  The consumption between two samples   *)
(* is then exact but for one unit for each turn, the counter's period      *)
(* being one more than the range.                                          *)
WrapsAccumulated ==
    ~raced => \A c \in Callers : call[c].at = "done" =>
                  \A e \in Event \ late : call[c].data[e].ranges = call[c].data[e].turns
=============================================================================
