-------------------------- MODULE RaplReaderProofs --------------------------
(***************************************************************************)
(* For any number of callers and events, and any range, a sample has one   *)
(* range added for each time the counter has wrapped around, unless calls  *)
(* overlap or an event was not read for a whole range.                     *)
(*                                                                         *)
(* The value an event was last loaded with is its prev, or curr of the one *)
(* caller that has not stored it yet.  The argument is that the counter    *)
(* has moved on from that value by the energy used since, which is less    *)
(* than a period: it is then below it just if it wrapped around once.      *)
(***************************************************************************)
EXTENDS RaplReader, TLAPS

Pending == {"compare", "wrapped", "store"}

(* Calls that do not overlap: one caller at most is in read().             *)
OneCaller == ~raced => \A c, d \in Callers : call[c].at # "idle" /\ call[d].at # "idle" => c = d

Settled(e) == \A c \in Callers : call[c].at \in Pending => call[c].ev # e

(* The counter of an event has moved by age from a value loaded before.    *)
Moved(e, value) ==
    \/ turns[e] = read[e] /\ counter[e] = value + age[e]
    \/ turns[e] = read[e] + 1 /\ counter[e] + Max + 1 = value + age[e]

(* An event that is not being read.                                        *)
SettledOK(e) ==
    IF read[e] = Unread THEN turns[e] = 0 /\ age[e] = 0 /\ prev[e] = 0 /\ ranges[e] = 0
    ELSE ranges[e] = read[e] /\ (age[e] <= Max => Moved(e, prev[e]))

(* An event whose counter is loaded and not yet stored.                    *)
PendingOK(c, e) ==
    /\ read[e] # Unread
    /\ age[e] <= Max => Moved(e, call[c].curr)
    /\ call[c].at = "compare" =>
           ranges[e] = IF call[c].curr < prev[e] THEN read[e] - 1 ELSE read[e]
    /\ call[c].at = "wrapped" => ranges[e] = read[e] - 1
    /\ call[c].at = "store" => ranges[e] = read[e]

Accumulated ==
    ~raced => \A e \in Event \ late :
        /\ Settled(e) => SettledOK(e)
        /\ \A c \in Callers : call[c].at \in Pending /\ call[c].ev = e => PendingOK(c, e)
        /\ \A c \in Callers : call[c].data[e].ranges = call[c].data[e].turns

IInv == TypeOK /\ OneCaller /\ Accumulated

-----------------------------------------------------------------------------
(* The constants, as the proofs use them.                                  *)
LEMMA Constants ==
    ConstantsOK => Max \in Nat /\ 1 \in Event /\ \A e \in Event : e < Events => e + 1 \in Event
  BY DEF ConstantsOK, Event

(* A call that has not begun.                                              *)
LEMMA IdleIsCall == ConstantsOK => Idle \in Call /\ [Idle EXCEPT !.at = "load"] \in Call
  <1> SUFFICES ASSUME ConstantsOK PROVE Idle \in Call /\ [Idle EXCEPT !.at = "load"] \in Call
    OBVIOUS
  <1>1. NoSample \in [Event -> Sample]
    BY Constants DEF NoSample, Sample
  <1> QED BY <1>1, Constants DEF Idle, Call

(* The initial state satisfies the invariant.                              *)
LEMMA RaplInit == ConstantsOK /\ Init => IInv
  <1> SUFFICES ASSUME ConstantsOK, Init PROVE IInv
    OBVIOUS
  <1> USE Constants DEF Init
  <1>1. TypeOK
    <2>1. counter \in [Event -> 0..Max] /\ age \in [Event -> 0..(Max + 1)] /\ prev \in [Event -> 0..Max]
      OBVIOUS
    <2>2. call \in [Callers -> Call] /\ read \in [Event -> Nat \cup {Unread}]
      BY IdleIsCall
    <2> QED BY <2>1, <2>2 DEF TypeOK
  <1>2. OneCaller
    BY DEF OneCaller, Idle
  <1>3. Accumulated
    <2> SUFFICES ASSUME NEW e \in Event
                 PROVE  /\ SettledOK(e)
                        /\ \A c \in Callers : /\ call[c].at \notin Pending
                                             /\ call[c].data[e].ranges = call[c].data[e].turns
      BY DEF Accumulated
    <2>1. SettledOK(e)
      BY DEF SettledOK
    <2>2. \A c \in Callers : call[c].at = "idle" /\ call[c].data[e] = [curr |-> 0, ranges |-> 0, turns |-> 0]
      BY DEF Idle, NoSample
    <2> QED BY <2>1, <2>2 DEF Pending
  <1> QED BY <1>1, <1>2, <1>3 DEF IInv

(* Every variable keeps its type.                                          *)
LEMMA TypeStep == ConstantsOK /\ TypeOK /\ [Next]_vars => TypeOK'
  <1> SUFFICES ASSUME ConstantsOK, TypeOK, [Next]_vars PROVE TypeOK'
    OBVIOUS
  <1> USE Constants
  <1>1. ASSUME NEW e \in Event, Consume(e) PROVE TypeOK'
    <2> USE <1>1 DEF Consume
    <2>1. counter' \in [Event -> 0..Max] /\ turns' \in [Event -> Nat]
      BY DEF TypeOK
    <2>2. age' \in [Event -> 0..(Max + 1)]
      BY DEF TypeOK
    <2> QED BY <2>1, <2>2 DEF TypeOK
  <1>2. ASSUME NEW c \in Callers, Begin(c) \/ Step(c) \/ End(c) PROVE TypeOK'
    <2>c. call[c] \in Call
      BY DEF TypeOK
    <2> DEFINE e == call[c].ev
    <2>1. e \in Event /\ call[c].curr \in 0..Max /\ call[c].data \in [Event -> Sample]
      BY <2>c DEF Call
    <2>2. CASE Begin(c) \/ End(c)
      BY <2>2, IdleIsCall DEF Begin, End, TypeOK
    <2>3. CASE Load(c)
      <3>1. counter[e] \in 0..Max /\ turns[e] \in Nat
        BY <2>1 DEF TypeOK
      <3>2. call'[c] \in Call /\ call' = [call EXCEPT ![c] = call'[c]]
        BY <2>c, <2>3, <3>1 DEF Load, TypeOK, Call
      <3>3. read' \in [Event -> Nat \cup {Unread}] /\ age' \in [Event -> 0..(Max + 1)] /\ late' \subseteq Event
        BY <2>1, <2>3, <3>1 DEF Load, TypeOK
      <3> QED BY <2>3, <3>2, <3>3 DEF Load, TypeOK
    <2>4. CASE Compare(c)
      <3>1. call'[c] \in Call /\ call' = [call EXCEPT ![c] = call'[c]]
        BY <2>c, <2>4 DEF Compare, TypeOK, Call
      <3> QED BY <2>4, <3>1 DEF Compare, TypeOK
    <2>5. CASE Accumulate(c)
      <3>1. call'[c] \in Call /\ call' = [call EXCEPT ![c] = call'[c]]
        BY <2>c, <2>5 DEF Accumulate, TypeOK, Call
      <3> QED BY <2>1, <2>5, <3>1 DEF Accumulate, TypeOK
    <2>6. CASE Store(c)
      <3>1. [curr |-> call[c].curr, ranges |-> ranges[e], turns |-> read[e]] \in Sample
        BY <2>1 DEF TypeOK, Sample
      <3>2. call'[c].data \in [Event -> Sample]
        BY <2>1, <2>6, <3>1 DEF Store, TypeOK
      <3>3. call'[c] \in Call /\ call' = [call EXCEPT ![c] = call'[c]]
        BY <2>c, <2>1, <2>6, <3>2 DEF Store, TypeOK, Call
      <3> QED BY <2>1, <2>6, <3>3 DEF Store, TypeOK
    <2> QED BY <1>2, <2>2, <2>3, <2>4, <2>5, <2>6 DEF Step
  <1>3. CASE UNCHANGED vars
    BY <1>3 DEF vars, TypeOK
  <1> QED BY <1>1, <1>2, <1>3 DEF Next

(* A second caller in read() is remembered in raced.                       *)
LEMMA OneCallerStep == TypeOK /\ OneCaller /\ [Next]_vars => OneCaller'
  <1> SUFFICES ASSUME TypeOK, OneCaller, [Next]_vars PROVE OneCaller'
    OBVIOUS
  <1>t. call = [c \in Callers |-> call[c]]
    BY DEF TypeOK
  <1> USE <1>t DEF OneCaller
  <1>1. ASSUME NEW e \in Event, Consume(e) PROVE OneCaller'
    BY <1>1 DEF Consume
  <1>2. ASSUME NEW c \in Callers, Begin(c) \/ Step(c) \/ End(c) PROVE OneCaller'
    <2>1. CASE Begin(c)
      BY <2>1 DEF Begin, Busy
    <2>2. CASE Step(c) \/ End(c)
      <3>1. raced' = raced /\ call[c].at # "idle"
        BY <2>2 DEF Step, Load, Compare, Accumulate, Store, End
      <3>2. \A d \in Callers : d # c => call'[d] = call[d]
        BY <2>2 DEF Step, Load, Compare, Accumulate, Store, End
      <3> QED BY <3>1, <3>2
    <2> QED BY <1>2, <2>1, <2>2
  <1>3. CASE UNCHANGED vars
    BY <1>3 DEF vars
  <1> QED BY <1>1, <1>2, <1>3 DEF Next

-----------------------------------------------------------------------------
(* Using energy moves the counter of an event, and nothing else.           *)
LEMMA ConsumeStep ==
  ASSUME ConstantsOK, IInv, NEW x \in Event, Consume(x)
  PROVE  Accumulated'
  <1> SUFFICES ASSUME ~raced, NEW e \in Event \ late
               PROVE  /\ Settled(e) => SettledOK(e)'
                      /\ \A c \in Callers : call[c].at \in Pending /\ call[c].ev = e => PendingOK(c, e)'
                      /\ \A c \in Callers : call[c].data[e].ranges = call[c].data[e].turns
    BY DEF Consume, Accumulated, Settled
  <1>1. UNCHANGED <<read, prev, ranges, call>>
    BY DEF Consume
  <1>2. ASSUME NEW value \in 0..Max, read[e] # Unread, age[e] <= Max => Moved(e, value)
        PROVE  (age[e] <= Max => Moved(e, value))'
    <2>1. /\ counter[e] \in 0..Max /\ turns[e] \in Nat /\ age[e] \in 0..(Max + 1)
          /\ read[e] \in Nat /\ Max \in Nat
      BY <1>2, Constants DEF IInv, TypeOK
    <2>2. CASE x # e
      BY <1>1, <1>2, <2>2 DEF Consume, Moved, IInv, TypeOK
    <2>3. CASE x = e /\ age[e] <= Max
      <3>1. /\ counter'[e] = IF counter[e] = Max THEN 0 ELSE counter[e] + 1
            /\ turns'[e] = IF counter[e] = Max THEN turns[e] + 1 ELSE turns[e]
            /\ age'[e] = age[e] + 1 /\ read'[e] = read[e]
        BY <1>2, <2>1, <2>3 DEF Consume, IInv, TypeOK
      <3> QED BY <1>2, <2>1, <2>3, <3>1 DEF Moved
    <2>4. CASE x = e /\ age[e] > Max
      <3>1. age'[e] = age[e]
        BY <2>4 DEF Consume, IInv, TypeOK
      <3> QED BY <2>1, <2>4, <3>1
    <2> QED BY <2>1, <2>2, <2>3, <2>4
  <1>3. Settled(e) => SettledOK(e)'
    <2> SUFFICES ASSUME SettledOK(e) PROVE SettledOK(e)'
      BY DEF IInv, Accumulated
    <2>1. CASE read[e] = Unread
      BY <1>1, <2>1 DEF SettledOK, Consume, IInv, TypeOK
    <2>2. CASE read[e] # Unread
      <3>1. prev[e] \in 0..Max
        BY DEF IInv, TypeOK
      <3>2. age[e] <= Max => Moved(e, prev[e])
        BY <2>2 DEF SettledOK
      <3>3. (age[e] <= Max => Moved(e, prev[e]))'
        BY <1>1, <1>2, <2>2, <3>1, <3>2 DEF Moved
      <3> QED BY <1>1, <2>2, <3>3 DEF SettledOK
    <2> QED BY <2>1, <2>2
  <1>4. ASSUME NEW c \in Callers, call[c].at \in Pending, call[c].ev = e
        PROVE  PendingOK(c, e)'
    <2>1. PendingOK(c, e)
      BY <1>4 DEF IInv, Accumulated
    <2>2. call[c].curr \in 0..Max
      BY DEF IInv, TypeOK, Call
    <2>3. (age[e] <= Max => Moved(e, call[c].curr))'
      BY <1>1, <1>2, <2>1, <2>2 DEF PendingOK, Moved
    <2> QED BY <1>1, <2>1, <2>3 DEF PendingOK
  <1>5. \A c \in Callers : call[c].data[e].ranges = call[c].data[e].turns
    BY DEF IInv, Accumulated
  <1> QED BY <1>3, <1>4, <1>5

(* The steps of a caller that is in read(): nobody else is.                *)
LEMMA CallerStep ==
  ASSUME ConstantsOK, IInv, NEW c \in Callers, Step(c) \/ End(c)
  PROVE  Accumulated'
  <1> SUFFICES ASSUME ~raced', NEW e \in Event \ late'
               PROVE  /\ (Settled(e) => SettledOK(e))'
                      /\ \A d \in Callers : (call[d].at \in Pending /\ call[d].ev = e => PendingOK(d, e))'
                      /\ \A d \in Callers : (call[d].data[e].ranges = call[d].data[e].turns)'
    BY DEF Accumulated
  <1> DEFINE ev == call[c].ev
  <1>a. ~raced /\ e \notin late /\ call[c].at # "idle"
    BY DEF Step, Load, Compare, Accumulate, Store, End
  <1>b. ASSUME NEW d \in Callers, d # c
        PROVE  call[d].at = "idle" /\ call'[d] = call[d] /\ call[d].data[e].ranges = call[d].data[e].turns
    <2>1. call[d].at = "idle" /\ call[d].data[e].ranges = call[d].data[e].turns
      BY <1>a, <1>b DEF IInv, OneCaller, Accumulated
    <2>2. call'[d] = call[d]
      BY <1>b DEF Step, Load, Compare, Accumulate, Store, End, IInv, TypeOK
    <2> QED BY <2>1, <2>2
  <1>c. call[c] \in Call /\ ev \in Event /\ call[c].data[e].ranges = call[c].data[e].turns
    BY <1>a DEF IInv, TypeOK, Call, Accumulated
  <1>d. SUFFICES /\ call'[c].at \notin Pending \/ call'[c].ev # e => SettledOK(e)'
                 /\ call'[c].at \in Pending /\ call'[c].ev = e => PendingOK(c, e)'
                 /\ call'[c].data[e].ranges = call'[c].data[e].turns
    BY <1>b DEF Settled, Pending
  <1>e. call[c].at \notin Pending \/ ev # e => SettledOK(e)
    BY <1>a, <1>b DEF IInv, Accumulated, Settled, Pending
  <1>f. call[c].at \in Pending /\ ev = e => PendingOK(c, e)
    BY <1>a DEF IInv, Accumulated
  <1>g. /\ counter[e] \in 0..Max /\ turns[e] \in Nat /\ age[e] \in 0..(Max + 1) /\ prev[e] \in 0..Max
        /\ read[e] \in Nat \cup {Unread} /\ ranges[e] \in Nat /\ Max \in Nat
    BY Constants DEF IInv, TypeOK
  <1>1. CASE /\ Load(c)
             /\ call' = [call EXCEPT ![c].at = "compare", ![c].curr = counter[ev]]
             /\ read' = [read EXCEPT ![ev] = turns[ev]] /\ age' = [age EXCEPT ![ev] = 0]
             /\ late' = IF age[ev] > Max THEN late \cup {ev} ELSE late
    <2>1. /\ call'[c] = [call[c] EXCEPT !.at = "compare", !.curr = counter[ev]]
          /\ ev = e => age[e] <= Max
          /\ call[c].at = "load"
          /\ UNCHANGED <<counter, turns, prev, ranges>>
      BY <1>1, <1>g DEF Load, IInv, TypeOK
    <2>2. SettledOK(e)
      BY <1>e, <2>1 DEF Pending
    <2>3. /\ call'[c].at = "compare" /\ call'[c].ev = ev /\ call'[c].curr = counter[ev]
          /\ call'[c].data = call[c].data
      BY <1>c, <2>1 DEF Call
    <2>4. CASE ev # e
      <3>1. read'[e] = read[e] /\ age'[e] = age[e]
        BY <1>1, <2>4 DEF IInv, TypeOK
      <3>2. SettledOK(e)'
        BY <2>1, <2>2, <3>1 DEF SettledOK, Moved
      <3> QED BY <1>c, <2>3, <2>4, <3>2
    <2>5. CASE ev = e
      <3>1. read'[e] = turns[e] /\ age'[e] = 0
        BY <1>1, <1>c, <2>5 DEF IInv, TypeOK
      <3>2. ranges[e] = IF counter[e] < prev[e] THEN turns[e] - 1 ELSE turns[e]
        BY <1>g, <2>1, <2>2, <2>5 DEF SettledOK, Moved
      <3>3. PendingOK(c, e)'
        BY <1>g, <2>1, <2>3, <2>5, <3>1, <3>2 DEF PendingOK, Moved, Unread
      <3> QED BY <1>c, <2>3, <2>5, <3>3 DEF Pending
    <2> QED BY <2>4, <2>5
  <1>2. CASE Load(c) /\ call' = [call EXCEPT ![c].at = "failed"] /\ UNCHANGED <<read, age>>
    <2>1. /\ call'[c] = [call[c] EXCEPT !.at = "failed"] /\ call[c].at = "load"
          /\ UNCHANGED <<counter, turns, age, read, prev, ranges>>
      BY <1>2 DEF Load, IInv, TypeOK
    <2>2. SettledOK(e)'
      BY <1>e, <2>1 DEF Pending, SettledOK, Moved
    <2>3. call'[c].at = "failed" /\ call'[c].data = call[c].data
      BY <1>c, <2>1 DEF Call
    <2> QED BY <1>c, <2>2, <2>3 DEF Pending
  <1>3. CASE Compare(c)
    <2>1. /\ call'[c].at = IF call[c].curr < prev[ev] THEN "wrapped" ELSE "store"
          /\ call'[c].ev = ev /\ call'[c].curr = call[c].curr /\ call'[c].data = call[c].data
          /\ call[c].at = "compare"
          /\ UNCHANGED <<counter, turns, age, read, prev, ranges>>
      BY <1>3, <1>c DEF Compare, IInv, TypeOK, Call
    <2>2. CASE ev # e
      BY <1>c, <1>e, <2>1, <2>2 DEF SettledOK, Moved
    <2>3. CASE ev = e
      <3>1. PendingOK(c, e)
        BY <1>f, <2>1, <2>3 DEF Pending
      <3>2. PendingOK(c, e)'
        BY <2>1, <2>3, <3>1 DEF PendingOK, Moved
      <3> QED BY <1>c, <2>1, <2>3, <3>2 DEF Pending
    <2> QED BY <2>2, <2>3
  <1>4. CASE Accumulate(c)
    <2>1. /\ call'[c].at = "store" /\ call[c].at = "wrapped"
          /\ call'[c].ev = ev /\ call'[c].curr = call[c].curr /\ call'[c].data = call[c].data
          /\ ranges' = [ranges EXCEPT ![ev] = ranges[ev] + 1]
          /\ UNCHANGED <<counter, turns, age, read, prev>>
      BY <1>4, <1>c DEF Accumulate, IInv, TypeOK, Call
    <2>2. CASE ev # e
      <3>1. ranges'[e] = ranges[e]
        BY <2>1, <2>2 DEF IInv, TypeOK
      <3> QED BY <1>c, <1>e, <2>1, <2>2, <3>1 DEF SettledOK, Moved
    <2>3. CASE ev = e
      <3>1. PendingOK(c, e)
        BY <1>f, <2>1, <2>3 DEF Pending
      <3>2. ranges'[e] = ranges[e] + 1
        BY <2>1, <2>3 DEF IInv, TypeOK
      <3>3. read[e] \in Nat
        BY <1>g, <3>1 DEF PendingOK
      <3>4. PendingOK(c, e)'
        BY <1>g, <2>1, <2>3, <3>1, <3>2, <3>3 DEF PendingOK, Moved
      <3> QED BY <1>c, <2>1, <2>3, <3>4 DEF Pending
    <2> QED BY <2>2, <2>3
  <1>5. CASE Store(c)
    <2>1. /\ call'[c].at \in {"load", "done"} /\ call[c].at = "store"
          /\ call'[c].data = [call[c].data EXCEPT ![ev] = [curr |-> call[c].curr, ranges |-> ranges[ev],
                                                          turns |-> read[ev]]]
          /\ prev' = [prev EXCEPT ![ev] = call[c].curr]
          /\ UNCHANGED <<counter, turns, age, read, ranges>>
      BY <1>5, <1>c DEF Store, IInv, TypeOK, Call
    <2>2. CASE ev # e
      <3>1. prev'[e] = prev[e]
        BY <2>1, <2>2 DEF IInv, TypeOK
      <3>2. call'[c].data[e] = call[c].data[e]
        BY <1>c, <2>1, <2>2 DEF Call
      <3> QED BY <1>c, <1>e, <2>1, <2>2, <3>1, <3>2 DEF SettledOK, Moved, Pending
    <2>3. CASE ev = e
      <3>1. PendingOK(c, e)
        BY <1>f, <2>1, <2>3 DEF Pending
      <3>2. prev'[e] = call[c].curr
        BY <2>1, <2>3 DEF IInv, TypeOK
      <3>3. SettledOK(e)'
        BY <2>1, <3>1, <3>2 DEF PendingOK, SettledOK, Moved
      <3>4. call'[c].data[e] = [curr |-> call[c].curr, ranges |-> ranges[e], turns |-> read[e]]
        BY <1>c, <2>1, <2>3 DEF Call
      <3> QED BY <2>1, <3>1, <3>3, <3>4 DEF PendingOK, Pending
    <2> QED BY <2>2, <2>3
  <1>6. CASE End(c)
    <2>1. /\ call'[c] = Idle /\ call[c].at \in {"done", "failed"}
          /\ UNCHANGED <<counter, turns, age, read, prev, ranges>>
      BY <1>6 DEF End, IInv, TypeOK
    <2>2. SettledOK(e)'
      BY <1>e, <2>1 DEF Pending, SettledOK, Moved
    <2>3. Idle.at = "idle" /\ Idle.data[e].ranges = Idle.data[e].turns
      BY DEF Idle, NoSample
    <2> QED BY <2>1, <2>2, <2>3 DEF Pending
  <1> QED BY <1>1, <1>2, <1>3, <1>4, <1>5, <1>6 DEF Step, Load

(* A call begins where no event is being read.                             *)
LEMMA BeginStep ==
  ASSUME ConstantsOK, IInv, NEW c \in Callers, Begin(c)
  PROVE  Accumulated'
  <1> SUFFICES ASSUME ~raced', NEW e \in Event \ late
               PROVE  /\ (Settled(e) => SettledOK(e))'
                      /\ \A d \in Callers : (call[d].at \in Pending /\ call[d].ev = e => PendingOK(d, e))'
                      /\ \A d \in Callers : (call[d].data[e].ranges = call[d].data[e].turns)'
    BY DEF Accumulated, Begin
  <1>1. ~raced /\ \A d \in Callers : call[d].at = "idle"
    BY DEF Begin, Busy
  <1>2. UNCHANGED <<counter, turns, age, read, prev, ranges>>
    BY DEF Begin
  <1>3. SettledOK(e)'
    BY <1>1, <1>2 DEF IInv, Accumulated, Settled, Pending, SettledOK, Moved
  <1>4. \A d \in Callers : call'[d] = IF d = c THEN [Idle EXCEPT !.at = "load"] ELSE call[d]
    BY DEF Begin, IInv, TypeOK
  <1>5. /\ [Idle EXCEPT !.at = "load"].at = "load"
        /\ [Idle EXCEPT !.at = "load"].data[e].ranges = [Idle EXCEPT !.at = "load"].data[e].turns
    BY DEF Idle, NoSample
  <1>6. \A d \in Callers : call[d].data[e].ranges = call[d].data[e].turns
    BY <1>1 DEF IInv, Accumulated
  <1> QED BY <1>1, <1>3, <1>4, <1>5, <1>6 DEF Pending

(* Every step preserves the invariant.                                     *)
LEMMA RaplStep == ConstantsOK /\ IInv /\ [Next]_vars => IInv'
  <1> SUFFICES ASSUME ConstantsOK, IInv, [Next]_vars PROVE IInv'
    OBVIOUS
  <1>1. TypeOK' /\ OneCaller'
    BY TypeStep, OneCallerStep DEF IInv
  <1>2. Accumulated'
    <2>1. CASE UNCHANGED vars
      <3>1. UNCHANGED <<counter, turns, age, read, prev, ranges, call, raced, late>>
        BY <2>1 DEF vars
      <3> QED BY <3>1 DEF IInv, Accumulated, Settled, SettledOK, PendingOK, Moved
    <2>2. CASE Next
      BY <2>2, ConsumeStep, CallerStep, BeginStep DEF Next
    <2> QED BY <2>1, <2>2
  <1> QED BY <1>1, <1>2 DEF IInv

(* A finished sample is one of the samples of the invariant.               *)
LEMMA RaplInvariant == IInv => WrapsAccumulated
  BY DEF IInv, Accumulated, WrapsAccumulated

(* The invariant holds in every behaviour.                                 *)
LEMMA RaplAlways == ASSUME ConstantsOK PROVE Spec => []IInv
  <1>1. Init => IInv
    BY RaplInit
  <1>2. IInv /\ [Next]_vars => IInv'
    BY RaplStep
  <1> QED BY <1>1, <1>2, PTL DEF Spec

(* Type correctness of the counters and the readers, for any constants.    *)
THEOREM RaplTypeOK == ASSUME ConstantsOK PROVE Spec => []TypeOK
  <1>1. IInv => TypeOK
    BY DEF IInv
  <1> QED BY <1>1, RaplAlways, PTL

(* For any number of callers and events, and counters of any range: what   *)
(* read() returns has one range added for each wrap-around, unless calls   *)
(* have overlapped or an event was not read for a whole range.             *)
THEOREM RaplWrapsAccumulated == ASSUME ConstantsOK PROVE Spec => []WrapsAccumulated
  BY RaplAlways, RaplInvariant, PTL
=============================================================================
