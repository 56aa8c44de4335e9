------------------------------ MODULE OccReader ------------------------------
(***************************************************************************)
(* Reading the sensors of the on-chip controllers of a POWER9 system       *)
(* (nrg/src/ppc64/reader_cpu.cpp).  Each controller publishes its readings *)
(* in two buffers, ping and pong, one of which it rewrites at a time.  All *)
(* readers share one std::ifstream: read() seeks to the block of each      *)
(* controller, copies both buffers and takes one record of them.           *)
(*                                                                         *)
(* A record is its time stamp.                                             *)
(***************************************************************************)
EXTENDS Integers

CONSTANTS Callers,     \* the threads that sample
          Occs,        \* the controllers are 1..Occs
          MaxTicks,    \* bound: the last time stamp of each
          ReadsFail    \* whether reading the file may fail

ConstantsOK ==
    /\ Callers # {}
    /\ Occs \in Nat \ {0}
    /\ MaxTicks \in [1..Occs -> Nat]
    /\ ReadsFail \in BOOLEAN

VARIABLES buffer,      \* the two buffers of each controller
          tick,        \* the time stamp of its newest record
          pos,         \* position of the file: the block it is at, or Elsewhere
          bad,         \* the file's failbit, which nothing clears
          reading,     \* where each caller is in read(), and its locals
          overlapped   \* history: two calls of read() have overlapped

vars == <<buffer, tick, pos, bad, reading, overlapped>>

Occ == 1..Occs
Elsewhere == 0
Sides == {"ping", "pong"}
Torn == -1                                         \* a record being rewritten
Nothing == [occ |-> 0, ts |-> 0, cut |-> FALSE, newest |-> 0]   \* of a sample: a default value

(* Of a copy of a side: what was at no controller's block.                 *)
Garbage == [occ |-> -1, valid |-> TRUE, ts |-> Torn, cut |-> FALSE]

Free == [at |-> "idle", occ |-> 1, side |-> "ping", buffs |-> [s \in Sides |-> Garbage],
         cut |-> FALSE, newest |-> 0, data |-> [o \in Occ |-> Nothing]]

Init ==
    /\ buffer = [o \in Occ |-> [s \in Sides |-> IF s = "ping" THEN [valid |-> TRUE, ts |-> 1]
                                                ELSE [valid |-> FALSE, ts |-> Torn]]]
    /\ tick = [o \in Occ |-> 1]
    /\ pos = Elsewhere
    /\ bad = FALSE
    /\ reading = [c \in Callers |-> Free]
    /\ overlapped = FALSE

-----------------------------------------------------------------------------
(* The firmware: it invalidates the older buffer, then fills it.  A copy   *)
(* under way that has the buffer's flag but not yet its record is cut.     *)
Invalidate(o, s) ==
    /\ buffer[o][s].valid /\ \A t \in Sides : buffer[o][t].valid /\ buffer[o][t].ts >= buffer[o][s].ts
    /\ buffer' = [buffer EXCEPT ![o][s] = [valid |-> FALSE, ts |-> Torn]]
    /\ reading' = [c \in Callers |->
           IF reading[c].at = "record" /\ reading[c].side = s /\ pos = o
           THEN [reading[c] EXCEPT !.cut = TRUE] ELSE reading[c]]
    /\ UNCHANGED <<tick, pos, bad, overlapped>>

Publish(o, s) ==
    /\ ~buffer[o][s].valid
    /\ tick[o] < MaxTicks[o]
    /\ tick' = [tick EXCEPT ![o] = @ + 1]
    /\ buffer' = [buffer EXCEPT ![o][s] = [valid |-> TRUE, ts |-> tick'[o]]]
    /\ UNCHANGED <<pos, bad, reading, overlapped>>

-----------------------------------------------------------------------------
InRead == {c \in Callers : reading[c].at # "idle"}

(* The buffers are a local variable without an initial value.              *)
Begin(c) ==
    /\ reading[c].at = "idle"
    /\ reading' = [reading EXCEPT ![c] = [Free EXCEPT !.at = "seek"]]
    /\ overlapped' = (overlapped \/ InRead # {})
    /\ UNCHANGED <<buffer, tick, pos, bad>>

(* seekg(); get_sensor_buffers() returns at once if the stream is not good *)
Seek(c) ==
    /\ reading[c].at = "seek"
    /\ pos' = IF bad THEN pos ELSE reading[c].occ
    /\ reading' = [reading EXCEPT ![c].at = IF bad THEN "store" ELSE "flag", ![c].side = "ping"]
    /\ UNCHANGED <<buffer, tick, bad, overlapped>>

(* The copy of both buffers, ping before pong and of each the flag before  *)
(* the record, from wherever the file is by now.  It is longer than what   *)
(* one system call returns, and the firmware goes on meanwhile.            *)
CopyFlag(c) ==
    LET s == reading[c].side
        valid == pos = Elsewhere \/ buffer[pos][s].valid
        newest == IF s = "pong" THEN reading[c].newest ELSE IF pos = Elsewhere THEN 0 ELSE tick[pos]
    IN
    /\ reading[c].at = "flag"
    /\ reading' = [reading EXCEPT ![c] =
           [@ EXCEPT !.at = "record", !.cut = FALSE, !.buffs[s].valid = valid, !.newest = newest]]
    /\ UNCHANGED <<buffer, tick, pos, bad, overlapped>>

CopyRecord(c) ==
    LET s == reading[c].side
        copy == [occ |-> IF pos = Elsewhere THEN -1 ELSE pos, valid |-> reading[c].buffs[s].valid,
                 ts |-> IF pos = Elsewhere THEN Torn ELSE buffer[pos][s].ts, cut |-> reading[c].cut]
    IN
    /\ reading[c].at = "record"
    /\ \/ /\ s = "ping" /\ UNCHANGED pos
          /\ reading' = [reading EXCEPT ![c] = [@ EXCEPT !.buffs[s] = copy, !.at = "flag", !.side = "pong"]]
       \/ /\ s = "pong" /\ pos' = Elsewhere
          /\ reading' = [reading EXCEPT ![c] = [@ EXCEPT !.buffs[s] = copy, !.at = "store"]]
    /\ UNCHANGED <<buffer, tick, bad, overlapped>>

(* The error is compared with, not assigned to, the error code of read(),  *)
(* so that a read that failed goes on with what the buffers hold by then.  *)
CopyFails(c) ==
    /\ reading[c].at \in {"flag", "record"}
    /\ ReadsFail \/ pos = Elsewhere
    /\ bad' = TRUE /\ pos' = Elsewhere
    /\ reading' = [reading EXCEPT ![c].at = "store"]
    /\ UNCHANGED <<buffer, tick, overlapped>>

(* Mutant: a record is taken from a buffer that is being rewritten.        *)
ChosenUnchecked(side) == "pong"

(* get_sensor_record() of a single sample: the newer of two valid buffers  *)
(* is taken first, but the tests that follow overwrite it: in the end ping *)
(* is taken whenever it is valid.                                          *)
Chosen(side) == IF side["ping"].valid THEN "ping" ELSE "pong"

(* A side that was never copied has any flag, as the buffers have no value.*)
Store(c) ==
    LET b == reading[c].buffs
        o == reading[c].occ
        chosen == b[Chosen(b)]
        record == [occ |-> chosen.occ, ts |-> chosen.ts, cut |-> chosen.cut, newest |-> reading[c].newest]
    IN
    /\ reading[c].at = "store"
    /\ \/ /\ \E s \in Sides : b[s].valid
          /\ reading' = [reading EXCEPT ![c].data[o] = record,
                            ![c].occ = IF o < Occs THEN o + 1 ELSE o,
                            ![c].at = IF o < Occs THEN "seek" ELSE "done"]
       \/ /\ \A s \in Sides : b[s].valid => b[s].occ = -1
          /\ reading' = [reading EXCEPT ![c].at = "failed"]
    /\ UNCHANGED <<buffer, tick, pos, bad, overlapped>>

End(c) ==
    /\ reading[c].at \in {"done", "failed"}
    /\ reading' = [reading EXCEPT ![c] = Free]
    /\ UNCHANGED <<buffer, tick, pos, bad, overlapped>>

Step(c) == Seek(c) \/ CopyFlag(c) \/ CopyRecord(c) \/ CopyFails(c) \/ Store(c)

Next ==
    \/ \E o \in Occ, s \in Sides : Invalidate(o, s) \/ Publish(o, s)
    \/ \E c \in Callers : Begin(c) \/ Step(c) \/ End(c)

Spec == Init /\ [][Next]_vars

-----------------------------------------------------------------------------
Side == [valid : BOOLEAN, ts : Nat \cup {Torn}]
Copy == [occ : Occ \cup {-1}, valid : BOOLEAN, ts : Nat \cup {Torn}, cut : BOOLEAN]
Record == [occ : Occ \cup {Elsewhere, -1}, ts : Nat \cup {Torn}, cut : BOOLEAN, newest : Nat]

(* Where a caller is in read(), with its copy of the buffers and the sample;*)
(* and, for the properties, whether the side being copied was cut, and the *)
(* newest record when the copy began.                                      *)
Call == [at : {"idle", "seek", "flag", "record", "store", "done", "failed"}, occ : Occ, side : Sides,
         buffs : [Sides -> Copy], cut : BOOLEAN, newest : Nat, data : [Occ -> Record]]

TypeOK ==
    /\ buffer \in [Occ -> [Sides -> Side]]
    /\ tick \in [Occ -> Nat]
    /\ pos \in Occ \cup {Elsewhere}
    /\ {bad, overlapped} \subseteq BOOLEAN
    /\ reading \in [Callers -> Call]

(* As long as callers do not overlap and no access of the file has failed, *)
(* a sample has for each controller a record of that controller, and at    *)
(* most one record behind the newest there was when the copy began: taking *)
(* ping over a newer pong costs no more, however far the firmware gets     *)
(* meanwhile.  It may only be torn if the firmware invalidated the buffer  *)
(* after its flag was copied, and before its record was.                   *)
RecordFresh ==
    ~overlapped /\ ~bad => \A c \in Callers : reading[c].at = "done" =>
        \A o \in Occ : LET r == reading[c].data[o] IN
            r.occ = o /\ IF r.ts = Torn THEN r.cut ELSE r.ts + 1 >= r.newest

(* get_sensor_record() asserts that a buffer is valid.                     *)
SomeSideValid ==
    ~overlapped /\ ~bad => \A c \in Callers : reading[c].at = "store" =>
        \E s \in Sides : reading[c].buffs[s].valid

(* read() returns whether it has read the sensors, and is false if not: it *)
(* is not true when an access of the file has failed.                      *)
ReadErrorReported ==
    ~overlapped /\ bad => \A c \in Callers : reading[c].at # "done"
=============================================================================
