--------------------------- MODULE OccReaderProofs ---------------------------
(***************************************************************************)
(* For any number of callers, controllers and records, a sample that was   *)
(* read without an overlap or an error has a record of each controller,    *)
(* at most one behind the newest, or torn by what the firmware did in the  *)
(* middle of the copy.                                                     *)
(*                                                                         *)
(* The newest record is always in one of the two buffers, since the        *)
(* firmware rewrites the older; and from the seek to the copy the file     *)
(* stays at the block the one caller sought.                               *)
(***************************************************************************)
EXTENDS OccReader, TLAPS

(* Calls that do not overlap.                                              *)
OneReader ==
    ~overlapped => \A c, d \in Callers : reading[c].at # "idle" /\ reading[d].at # "idle" => c = d

(* The buffers of a controller, whose newest record is number n.           *)
NewestKept(side, n) ==
    /\ \E s \in Sides : side[s].valid /\ side[s].ts = n
    /\ \A s \in Sides : IF side[s].valid THEN side[s].ts # Torn /\ side[s].ts <= n /\ side[s].ts + 1 >= n
                                         ELSE side[s].ts = Torn

BuffersOK == \A o \in Occ : NewestKept(buffer[o], tick[o])

(* A record that is of controller o, and not behind record n by more than  *)
(* one if it is whole.                                                     *)
FreshRecord(r, o, n) == r.occ = o /\ IF r.ts = Torn THEN r.cut ELSE r.ts + 1 >= n

(* What the sample has of a controller.                                    *)
Fresh(c, o) == FreshRecord(reading[c].data[o], o, reading[c].data[o].newest)

(* A side that was copied, if its flag says that it is valid.              *)
CopiedOK(c, s) ==
    reading[c].buffs[s].valid => FreshRecord(reading[c].buffs[s], reading[c].occ, reading[c].newest)

(* A copy under way: what is sought, and what was copied so far.           *)
CopyingOK(c) ==
    LET o == reading[c].occ
        s == reading[c].side
    IN  /\ pos = o
        /\ s = "pong" \/ reading[c].at = "record" => reading[c].newest <= tick[o]
        /\ s = "pong" => CopiedOK(c, "ping")
        /\ reading[c].at = "record" /\ reading[c].buffs[s].valid /\ ~reading[c].cut => buffer[o][s].valid

CallOK(c) ==
    /\ reading[c].at \in {"flag", "record"} => CopyingOK(c)
    /\ reading[c].at = "store" => \A s \in Sides : CopiedOK(c, s)
    /\ reading[c].at \in {"seek", "flag", "record", "store"} =>
           \A o \in Occ : o < reading[c].occ => Fresh(c, o)
    /\ reading[c].at = "done" => \A o \in Occ : Fresh(c, o)

CallsOK == ~overlapped /\ ~bad => \A c \in Callers : CallOK(c)

IInv == TypeOK /\ OneReader /\ BuffersOK /\ CallsOK

-----------------------------------------------------------------------------
(* The constants, as the proofs use them.                                  *)
LEMMA Constants ==
    ConstantsOK => /\ 1 \in Occ /\ Occ \subseteq Nat /\ \A o \in Occ : o >= 1 /\ o <= Occs
                   /\ \A o \in Occ : o < Occs => o + 1 \in Occ
                   /\ Occs \in Occ
  BY DEF ConstantsOK, Occ

(* A call that has not begun.                                              *)
LEMMA FreeIsCall == ConstantsOK => Free \in Call /\ [Free EXCEPT !.at = "seek"] \in Call
  <1> SUFFICES ASSUME ConstantsOK PROVE Free \in Call /\ [Free EXCEPT !.at = "seek"] \in Call
    OBVIOUS
  <1>1. [o \in Occ |-> Nothing] \in [Occ -> Record]
    BY DEF Nothing, Record, Elsewhere
  <1>2. [s \in Sides |-> Garbage] \in [Sides -> Copy]
    BY DEF Garbage, Copy, Torn
  <1>3. "ping" \in Sides
    BY DEF Sides
  <1> QED BY <1>1, <1>2, <1>3, Constants DEF Free, Call

(* The initial state satisfies the invariant.                              *)
LEMMA OccInit == ConstantsOK /\ Init => IInv
  <1> SUFFICES ASSUME ConstantsOK, Init PROVE IInv
    OBVIOUS
  <1> USE DEF Init
  <1>1. TypeOK
    BY FreeIsCall DEF TypeOK, Side, Torn
  <1>2. OneReader /\ CallsOK
    BY DEF OneReader, CallsOK, CallOK, Free
  <1>3. BuffersOK
    BY DEF BuffersOK, NewestKept, Sides, Torn
  <1> QED BY <1>1, <1>2, <1>3 DEF IInv

(* Every variable keeps its type.                                          *)
LEMMA TypeStep == ConstantsOK /\ TypeOK /\ [Next]_vars => TypeOK'
  <1> SUFFICES ASSUME ConstantsOK, TypeOK, [Next]_vars PROVE TypeOK'
    OBVIOUS
  <1>1. ASSUME NEW o \in Occ, NEW s \in Sides, Invalidate(o, s) \/ Publish(o, s)
        PROVE  TypeOK'
    <2>1. CASE Invalidate(o, s)
      <3>1. [valid |-> FALSE, ts |-> Torn] \in Side
        BY DEF Side
      <3>2. reading' \in [Callers -> Call]
        <4>1. \A c \in Callers : [reading[c] EXCEPT !.cut = TRUE] \in Call
          BY DEF TypeOK, Call
        <4> QED BY <2>1, <4>1 DEF Invalidate, TypeOK
      <3> QED BY <1>1, <2>1, <3>1, <3>2 DEF Invalidate, TypeOK
    <2>2. CASE Publish(o, s)
      <3>1. tick' \in [Occ -> Nat] /\ [valid |-> TRUE, ts |-> tick'[o]] \in Side
        BY <2>2 DEF Publish, TypeOK, Side
      <3> QED BY <1>1, <2>2, <3>1 DEF Publish, TypeOK
    <2> QED BY <1>1, <2>1, <2>2
  <1>2. ASSUME NEW c \in Callers, Begin(c) \/ Step(c) \/ End(c) PROVE TypeOK'
    <2>c. reading[c] \in Call
      BY DEF TypeOK
    <2>1. SUFFICES reading'[c] \in Call
      <3>1. reading' = [reading EXCEPT ![c] = reading'[c]]
        BY <1>2 DEF Begin, Step, Seek, CopyFlag, CopyRecord, CopyFails, Store, End, TypeOK
      <3>2. /\ buffer' = buffer /\ tick' = tick /\ pos' \in Occ \cup {Elsewhere}
            /\ {bad', overlapped'} \subseteq BOOLEAN
        BY <1>2, <2>c DEF Begin, Step, Seek, CopyFlag, CopyRecord, CopyFails, Store, End, TypeOK, Call
      <3> QED BY <2>1, <3>1, <3>2 DEF TypeOK
    <2>2. CASE Begin(c) \/ End(c)
      BY <2>2, FreeIsCall DEF Begin, End, TypeOK
    <2>3. CASE Seek(c)
      BY <2>c, <2>3 DEF Seek, TypeOK, Call, Sides
    <2>4. CASE CopyFlag(c)
      <3> DEFINE s == reading[c].side
                 valid == pos = Elsewhere \/ buffer[pos][s].valid
                 newest == IF s = "pong" THEN reading[c].newest ELSE IF pos = Elsewhere THEN 0 ELSE tick[pos]
      <3>1. s \in Sides /\ valid \in BOOLEAN /\ newest \in Nat
        BY <2>c DEF TypeOK, Call, Side
      <3>2. [reading[c].buffs[s] EXCEPT !.valid = valid] \in Copy
        BY <2>c, <3>1 DEF Call, Copy
      <3>3. reading'[c] = [reading[c] EXCEPT !.at = "record", !.cut = FALSE,
                !.buffs = [reading[c].buffs EXCEPT ![s] = [reading[c].buffs[s] EXCEPT !.valid = valid]],
                !.newest = newest]
        BY <2>4 DEF CopyFlag, TypeOK, Call
      <3>4. [reading[c].buffs EXCEPT ![s] = [reading[c].buffs[s] EXCEPT !.valid = valid]] \in [Sides -> Copy]
        BY <2>c, <3>2 DEF Call
      <3> HIDE DEF s, valid, newest
      <3> QED BY <2>c, <3>1, <3>3, <3>4 DEF Call
    <2>6. CASE CopyRecord(c)
      <3> DEFINE s == reading[c].side
                 copy == [occ |-> IF pos = Elsewhere THEN -1 ELSE pos, valid |-> reading[c].buffs[s].valid,
                          ts |-> IF pos = Elsewhere THEN Torn ELSE buffer[pos][s].ts, cut |-> reading[c].cut]
      <3>1. s \in Sides /\ copy \in Copy
        BY <2>c DEF TypeOK, Call, Copy, Side
      <3>2. \/ reading'[c] = [reading[c] EXCEPT !.buffs = [reading[c].buffs EXCEPT ![s] = copy],
                               !.at = "flag", !.side = "pong"]
            \/ reading'[c] = [reading[c] EXCEPT !.buffs = [reading[c].buffs EXCEPT ![s] = copy], !.at = "store"]
        BY <2>6 DEF CopyRecord, TypeOK, Call
      <3>3. "pong" \in Sides
        BY DEF Sides
      <3>4. [reading[c].buffs EXCEPT ![s] = copy] \in [Sides -> Copy]
        BY <2>c, <3>1 DEF Call
      <3> HIDE DEF s, copy
      <3> QED BY <2>c, <3>2, <3>3, <3>4 DEF Call
    <2>7. CASE CopyFails(c)
      BY <2>c, <2>7 DEF CopyFails, TypeOK, Call
    <2>5. CASE Store(c)
      <3> DEFINE b == reading[c].buffs
                 o == reading[c].occ
                 chosen == b[Chosen(b)]
                 record == [occ |-> chosen.occ, ts |-> chosen.ts, cut |-> chosen.cut, newest |-> reading[c].newest]
      <3>1. CASE reading' = [reading EXCEPT ![c].at = "failed"]
        BY <2>c, <3>1 DEF TypeOK, Call
      <3>2. CASE reading' = [reading EXCEPT ![c].data[o] = record,
                                ![c].occ = IF o < Occs THEN o + 1 ELSE o,
                                ![c].at = IF o < Occs THEN "seek" ELSE "done"]
        <4>1. b \in [Sides -> Copy] /\ o \in Occ /\ reading[c].newest \in Nat
          BY <2>c DEF Call
        <4>2. record \in Record
          BY <4>1 DEF Record, Chosen, Sides, Copy
        <4>3. (IF o < Occs THEN o + 1 ELSE o) \in Occ
          BY <4>1, Constants
        <4> HIDE DEF record, o, b
        <4> QED BY <2>c, <3>2, <4>1, <4>2, <4>3 DEF TypeOK, Call
      <3> QED BY <2>5, <3>1, <3>2 DEF Store
    <2> QED BY <1>2, <2>2, <2>3, <2>4, <2>5, <2>6, <2>7 DEF Step
  <1>3. CASE UNCHANGED vars
    BY <1>3 DEF vars, TypeOK
  <1> QED BY <1>1, <1>2, <1>3 DEF Next

(* A second caller in read() is remembered in overlapped.                  *)
LEMMA OneReaderStep == TypeOK /\ OneReader /\ [Next]_vars => OneReader'
  <1> SUFFICES ASSUME TypeOK, OneReader, [Next]_vars PROVE OneReader'
    OBVIOUS
  <1>t. reading = [c \in Callers |-> reading[c]]
    BY DEF TypeOK
  <1> USE <1>t DEF OneReader
  <1>1. ASSUME NEW c \in Callers, Begin(c) \/ Step(c) \/ End(c) PROVE OneReader'
    <2>1. CASE Begin(c)
      BY <2>1 DEF Begin, InRead
    <2>2. CASE Step(c) \/ End(c)
      <3>1. overlapped' = overlapped /\ reading[c].at # "idle"
        BY <2>2 DEF Step, Seek, CopyFlag, CopyRecord, CopyFails, Store, End
      <3>2. \A d \in Callers : d # c => reading'[d] = reading[d]
        BY <2>2 DEF Step, Seek, CopyFlag, CopyRecord, CopyFails, Store, End
      <3> QED BY <3>1, <3>2
    <2> QED BY <1>1, <2>1, <2>2
  <1>2. CASE UNCHANGED <<reading, overlapped>>
    BY <1>2
  <1>3. ASSUME NEW o \in Occ, NEW s \in Sides, Invalidate(o, s) \/ Publish(o, s)
        PROVE  OneReader'
    <2>1. overlapped' = overlapped
      BY <1>3 DEF Invalidate, Publish
    <2>2. ASSUME NEW c \in Callers PROVE reading'[c].at = reading[c].at
      <3>1. reading'[c] = reading[c] \/ reading'[c] = [reading[c] EXCEPT !.cut = TRUE]
        BY <1>3 DEF Invalidate, Publish
      <3>2. reading[c] \in Call
        BY DEF TypeOK
      <3> QED BY <3>1, <3>2 DEF Call
    <2> QED BY <2>1, <2>2
  <1> QED BY <1>1, <1>2, <1>3 DEF Next, vars

(* The firmware keeps the newest record.                                   *)
LEMMA FirmwareStep ==
  ASSUME IInv, NEW x \in Occ, NEW s \in Sides, Invalidate(x, s) \/ Publish(x, s)
  PROVE  BuffersOK'
  <1> SUFFICES ASSUME NEW o \in Occ PROVE NewestKept(buffer[o], tick[o])'
    BY DEF BuffersOK
  <1>1. NewestKept(buffer[o], tick[o]) /\ tick[o] \in Nat /\ buffer[o] \in [Sides -> Side]
    BY DEF IInv, BuffersOK, TypeOK
  <1>2. CASE o # x
    <2>1. buffer'[o] = buffer[o] /\ tick'[o] = tick[o]
      BY <1>2 DEF Invalidate, Publish, IInv, TypeOK
    <2> QED BY <1>1, <2>1
  <1>3. CASE o = x /\ Invalidate(x, s)
    <2>1. /\ buffer'[o] = [buffer[o] EXCEPT ![s] = [valid |-> FALSE, ts |-> Torn]] /\ tick'[o] = tick[o]
          /\ \A t \in Sides : buffer[o][t].valid /\ buffer[o][t].ts >= buffer[o][s].ts
      BY <1>3 DEF Invalidate, IInv, TypeOK
    <2>2. PICK t \in Sides : t # s
      BY DEF Sides
    <2>3. buffer'[o][t] = buffer[o][t] /\ ~buffer'[o][s].valid
      BY <1>1, <2>1, <2>2
    <2>4. buffer[o][t].ts \in Int /\ buffer[o][s].ts \in Int
      BY <1>1, <2>2 DEF Side, Torn
    <2>5. buffer[o][t].ts = tick[o]
      BY <1>1, <2>1, <2>2, <2>4 DEF NewestKept, Sides
    <2> QED BY <1>1, <2>1, <2>2, <2>3, <2>5 DEF NewestKept, Sides
  <1>4. CASE o = x /\ Publish(x, s)
    <2>1. /\ buffer'[o] = [buffer[o] EXCEPT ![s] = [valid |-> TRUE, ts |-> tick[o] + 1]]
          /\ tick'[o] = tick[o] + 1 /\ ~buffer[o][s].valid
      BY <1>4 DEF Publish, IInv, TypeOK
    <2>2. PICK t \in Sides : t # s
      BY DEF Sides
    <2>3. buffer'[o][t] = buffer[o][t] /\ buffer'[o][s] = [valid |-> TRUE, ts |-> tick[o] + 1]
      BY <1>1, <2>1, <2>2
    <2>5. buffer[o][t].ts = tick[o]
      BY <1>1, <2>1, <2>2 DEF NewestKept, Sides
    <2>6. \A p \in Sides : p = s \/ p = t
      BY <2>2 DEF Sides
    <2>7. tick[o] + 1 # Torn
      BY <1>1 DEF Torn
    <2> QED BY <1>1, <2>1, <2>2, <2>3, <2>5, <2>6, <2>7 DEF NewestKept
  <1> QED BY <1>2, <1>3, <1>4

(* What the firmware does to a copy under way cuts it, or adds a record.   *)
LEMMA FirmwareCalls ==
  ASSUME IInv, NEW x \in Occ, NEW t \in Sides, Invalidate(x, t) \/ Publish(x, t)
  PROVE  CallsOK'
  <1> SUFFICES ASSUME ~overlapped', ~bad', NEW c \in Callers PROVE CallOK(c)'
    BY DEF CallsOK
  <1> DEFINE o == reading[c].occ
             s == reading[c].side
  <1>1. ~overlapped /\ ~bad /\ pos' = pos
    BY DEF Invalidate, Publish
  <1>2. CallOK(c) /\ reading[c] \in Call
    BY <1>1 DEF IInv, TypeOK, CallsOK
  <1>3. \/ reading'[c] = reading[c]
        \/ reading'[c] = [reading[c] EXCEPT !.cut = TRUE]
    BY DEF Invalidate, Publish
  <1>4. /\ reading'[c].at = reading[c].at /\ reading'[c].occ = o /\ reading'[c].side = s
        /\ reading'[c].buffs = reading[c].buffs /\ reading'[c].newest = reading[c].newest
        /\ reading'[c].data = reading[c].data /\ (reading[c].cut => reading'[c].cut)
    BY <1>2, <1>3 DEF Call
  <1>5. \A p \in Sides : CopiedOK(c, p) => CopiedOK(c, p)'
    BY <1>4 DEF CopiedOK, FreshRecord
  <1>6. \A p \in Occ : Fresh(c, p) => Fresh(c, p)'
    BY <1>4 DEF Fresh, FreshRecord
  <1>7. ASSUME reading[c].at \in {"flag", "record"} PROVE CopyingOK(c)'
    <2>1. CopyingOK(c) /\ o \in Occ /\ s \in Sides /\ "ping" \in Sides
      BY <1>2, <1>7 DEF CallOK, Call, Sides
    <2>2. tick'[o] \in Nat /\ tick[o] \in Nat /\ tick[o] <= tick'[o] /\ reading[c].newest \in Nat
      BY <1>2, <2>1 DEF Invalidate, Publish, IInv, TypeOK, Call
    <2>3. s = "pong" \/ reading[c].at = "record" => reading[c].newest <= tick'[o]
      BY <2>1, <2>2 DEF CopyingOK
    <2>4. ASSUME reading[c].at = "record", reading[c].buffs[s].valid, ~reading'[c].cut
          PROVE  buffer'[o][s].valid
      <3>1. buffer[o][s].valid
        BY <1>4, <2>1, <2>4 DEF CopyingOK
      <3>2. CASE Invalidate(x, t)
        <4>1. o # x \/ s # t
          BY <1>2, <2>1, <2>4, <3>2 DEF Invalidate, CopyingOK, Call
        <4>2. buffer' = [buffer EXCEPT ![x][t] = [valid |-> FALSE, ts |-> Torn]]
          BY <3>2 DEF Invalidate
        <4>3. buffer \in [Occ -> [Sides -> Side]]
          BY DEF IInv, TypeOK
        <4> QED BY <2>1, <3>1, <4>1, <4>2, <4>3
      <3>3. CASE Publish(x, t)
        <4>1. buffer' = [buffer EXCEPT ![x][t] = [valid |-> TRUE, ts |-> tick'[x]]]
          BY <3>3 DEF Publish
        <4>2. buffer \in [Occ -> [Sides -> Side]]
          BY DEF IInv, TypeOK
        <4> QED BY <2>1, <3>1, <4>1, <4>2
      <3> QED BY <3>2, <3>3
    <2>5. s = "pong" => CopiedOK(c, "ping")'
      BY <1>5, <2>1 DEF CopyingOK
    <2>6. pos' = o
      BY <1>1, <2>1 DEF CopyingOK
    <2> QED BY <1>4, <2>3, <2>4, <2>5, <2>6 DEF CopyingOK
  <1> QED BY <1>2, <1>4, <1>5, <1>6, <1>7 DEF CallOK

(* What a copied record is: that of a buffer which is valid or torn.       *)
LEMMA CopyFresh ==
  ASSUME NEW n \in Int, NEW m \in Int, m <= n, NEW side \in [Sides -> Side], NewestKept(side, n),
         NEW s \in Sides, NEW o, NEW r, r.occ = o, r.ts = side[s].ts, ~r.cut => side[s].valid
  PROVE  FreshRecord(r, o, m)
  <1>1. CASE side[s].valid
    <2>1. r.ts # Torn /\ side[s].ts + 1 >= n /\ side[s].ts \in Int
      BY <1>1 DEF NewestKept, Side, Torn
    <2> QED BY <2>1 DEF FreshRecord
  <1>2. CASE ~side[s].valid
    BY <1>2 DEF NewestKept, FreshRecord
  <1> QED BY <1>1, <1>2

(* The steps of a caller that is in read(): nobody else is.                *)
LEMMA CallerStep ==
  ASSUME ConstantsOK, IInv, NEW c \in Callers, Begin(c) \/ Step(c) \/ End(c)
  PROVE  CallsOK'
  <1> SUFFICES ASSUME ~overlapped', ~bad' PROVE \A d \in Callers : CallOK(d)'
    BY DEF CallsOK
  <1>a. ~overlapped /\ ~bad /\ UNCHANGED <<buffer, tick>>
    BY DEF Begin, Step, Seek, CopyFlag, CopyRecord, CopyFails, Store, End, IInv, TypeOK
  <1>b. ASSUME NEW d \in Callers, d # c PROVE CallOK(d)'
    <2>1. reading'[d] = reading[d]
      BY <1>b DEF Begin, Step, Seek, CopyFlag, CopyRecord, CopyFails, Store, End, IInv, TypeOK
    <2>2. reading[d].at = "idle"
      <3>1. CASE Begin(c)
        BY <3>1, <1>b DEF Begin, InRead
      <3>2. CASE Step(c) \/ End(c)
        BY <1>a, <1>b, <3>2
           DEF IInv, OneReader, Step, Seek, CopyFlag, CopyRecord, CopyFails, Store, End
      <3> QED BY <3>1, <3>2
    <2> QED BY <2>1, <2>2 DEF CallOK
  <1>c. reading[c] \in Call /\ CallOK(c)
    BY <1>a DEF IInv, TypeOK, CallsOK
  <1> DEFINE o == reading[c].occ
             s == reading[c].side
  <1>o. /\ o \in Occ /\ s \in Sides /\ "ping" \in Sides /\ "pong" \in Sides
        /\ reading[c].newest \in Nat /\ reading[c].buffs \in [Sides -> Copy]
    BY <1>c DEF Call, Sides
  <1>n. /\ NewestKept(buffer[o], tick[o]) /\ tick[o] \in Nat /\ buffer[o] \in [Sides -> Side]
        /\ o # Elsewhere /\ o # -1
    BY <1>o, Constants DEF IInv, BuffersOK, TypeOK, Elsewhere
  <1>1. CASE Begin(c)
    <2>1. reading'[c] = [Free EXCEPT !.at = "seek"]
      BY <1>1 DEF Begin, IInv, TypeOK
    <2>2. reading'[c].at = "seek" /\ reading'[c].occ = 1
      BY <2>1 DEF Free
    <2>3. CallOK(c)'
      BY <2>2, Constants DEF CallOK
    <2> QED BY <1>b, <2>3
  <1>2. CASE Seek(c)
    <2>1. /\ pos' = o /\ reading[c].at = "seek"
          /\ reading'[c] = [reading[c] EXCEPT !.at = "flag", !.side = "ping"]
      BY <1>2, <1>a DEF Seek, IInv, TypeOK
    <2>2. /\ reading'[c].at = "flag" /\ reading'[c].side = "ping" /\ reading'[c].occ = o
          /\ reading'[c].data = reading[c].data
      BY <1>c, <2>1 DEF Call
    <2>3. CopyingOK(c)'
      BY <2>1, <2>2 DEF CopyingOK
    <2>4. \A p \in Occ : p < o => Fresh(c, p)'
      BY <1>c, <2>1, <2>2 DEF CallOK, Fresh, FreshRecord
    <2>5. CallOK(c)'
      BY <2>2, <2>3, <2>4 DEF CallOK
    <2> QED BY <1>b, <2>5
  <1>3. CASE CopyFlag(c)
    <2> DEFINE newest == IF s = "pong" THEN reading[c].newest ELSE tick[o]
    <2>1. reading[c].at = "flag" /\ pos = o /\ pos' = o /\ CopyingOK(c)
      BY <1>3, <1>c DEF CopyFlag, CallOK, CopyingOK
    <2>2. reading'[c] = [reading[c] EXCEPT !.at = "record", !.cut = FALSE,
              !.buffs = [reading[c].buffs EXCEPT ![s] =
                  [reading[c].buffs[s] EXCEPT !.valid = buffer[o][s].valid]],
              !.newest = newest]
      <3>1. (pos = Elsewhere \/ buffer[pos][s].valid) = buffer[o][s].valid
        BY <1>o, <1>n, <2>1 DEF Side
      <3>2. (IF pos = Elsewhere THEN 0 ELSE tick[pos]) = tick[o]
        BY <1>n, <2>1
      <3> QED BY <1>3, <3>1, <3>2 DEF CopyFlag, IInv, TypeOK
    <2>3. /\ reading'[c].at = "record" /\ reading'[c].occ = o /\ reading'[c].side = s
          /\ reading'[c].newest = newest /\ reading'[c].data = reading[c].data
          /\ reading'[c].buffs = [reading[c].buffs EXCEPT ![s] =
                  [reading[c].buffs[s] EXCEPT !.valid = buffer[o][s].valid]]
      BY <1>c, <2>2 DEF Call
    <2>4. newest <= tick[o]
      BY <1>o, <1>n, <2>1 DEF CopyingOK, Sides
    <2>5. reading'[c].buffs[s].valid = buffer[o][s].valid
      BY <1>o, <2>3 DEF Copy
    <2>6. ASSUME s = "pong" PROVE CopiedOK(c, "ping")'
      <3>1. reading'[c].buffs["ping"] = reading[c].buffs["ping"] /\ reading'[c].newest = reading[c].newest
        BY <1>o, <2>3, <2>6
      <3> QED BY <2>1, <2>3, <2>6, <3>1 DEF CopyingOK, CopiedOK, FreshRecord
    <2>7. CopyingOK(c)'
      <3> HIDE DEF newest
      <3> QED BY <1>a, <2>1, <2>3, <2>4, <2>5, <2>6 DEF CopyingOK
    <2>8. \A p \in Occ : p < o => Fresh(c, p)'
      BY <1>c, <2>1, <2>3 DEF CallOK, Fresh, FreshRecord
    <2>9. CallOK(c)'
      BY <2>3, <2>7, <2>8 DEF CallOK
    <2> QED BY <1>b, <2>9
  <1>4. CASE CopyRecord(c)
    <2> DEFINE copy == [occ |-> o, valid |-> reading[c].buffs[s].valid,
                        ts |-> buffer[o][s].ts, cut |-> reading[c].cut]
    <2>1. reading[c].at = "record" /\ pos = o /\ CopyingOK(c)
      BY <1>4, <1>c DEF CopyRecord, CallOK, CopyingOK
    <2>2. \/ /\ s = "ping" /\ pos' = o
             /\ reading'[c] = [reading[c] EXCEPT !.buffs = [reading[c].buffs EXCEPT ![s] = copy],
                                  !.at = "flag", !.side = "pong"]
          \/ /\ s = "pong"
             /\ reading'[c] = [reading[c] EXCEPT !.buffs = [reading[c].buffs EXCEPT ![s] = copy],
                                  !.at = "store"]
      BY <1>4, <1>n, <2>1 DEF CopyRecord, IInv, TypeOK, Call
    <2>3. /\ reading'[c].occ = o /\ reading'[c].newest = reading[c].newest
          /\ reading'[c].data = reading[c].data
          /\ reading'[c].buffs = [reading[c].buffs EXCEPT ![s] = copy]
      BY <1>c, <2>2 DEF Call
    <2>4. reading'[c].buffs[s] = copy
      BY <1>o, <2>3
    <2>5. copy.valid => FreshRecord(copy, o, reading[c].newest)
      <3>1. reading[c].newest <= tick[o]
        BY <2>1 DEF CopyingOK
      <3>2. copy.valid => (~copy.cut => buffer[o][s].valid)
        BY <2>1 DEF CopyingOK
      <3>3. copy.occ = o /\ copy.ts = buffer[o][s].ts
        OBVIOUS
      <3> HIDE DEF copy
      <3> QED BY <1>o, <1>n, <3>1, <3>2, <3>3, CopyFresh
    <2>6. \A p \in Sides : p = s => CopiedOK(c, p)'
      <3> HIDE DEF copy
      <3> QED BY <2>3, <2>4, <2>5 DEF CopiedOK
    <2>7. \A p \in Occ : p < o => Fresh(c, p)'
      BY <1>c, <2>1, <2>3 DEF CallOK, Fresh, FreshRecord
    <2>8. CASE s = "ping"
      <3>1. reading'[c].at = "flag" /\ reading'[c].side = "pong" /\ pos' = o
        BY <1>c, <2>2, <2>8 DEF Call
      <3>2. CopyingOK(c)'
        <4>1. CopiedOK(c, "ping")' /\ reading'[c].newest <= tick'[o]
          BY <1>a, <1>o, <2>1, <2>3, <2>6, <2>8 DEF CopyingOK
        <4> QED BY <2>3, <3>1, <4>1 DEF CopyingOK
      <3>3. CallOK(c)'
        BY <2>3, <2>7, <3>1, <3>2 DEF CallOK
      <3> QED BY <1>b, <3>3
    <2>9. CASE s = "pong"
      <3>1. reading'[c].at = "store"
        BY <1>c, <2>2, <2>9 DEF Call
      <3>2. CopiedOK(c, "ping")'
        <4>1. reading'[c].buffs["ping"] = reading[c].buffs["ping"]
          BY <1>o, <2>3, <2>9
        <4> QED BY <2>1, <2>3, <2>9, <4>1 DEF CopyingOK, CopiedOK, FreshRecord
      <3>3. CallOK(c)'
        BY <2>3, <2>6, <2>7, <2>9, <3>1, <3>2 DEF CallOK, Sides
      <3> QED BY <1>b, <3>3
    <2> QED BY <1>o, <2>8, <2>9 DEF Sides
  <1>5. CASE CopyFails(c)
    BY <1>5 DEF CopyFails
  <1>6. CASE Store(c)
    <2> DEFINE b == reading[c].buffs
               chosen == b[Chosen(b)]
               record == [occ |-> chosen.occ, ts |-> chosen.ts, cut |-> chosen.cut,
                          newest |-> reading[c].newest]
    <2>1. reading[c].at = "store" /\ \A p \in Sides : CopiedOK(c, p)
      BY <1>6, <1>c DEF Store, CallOK
    <2>2. CASE reading'[c] = [reading[c] EXCEPT !.at = "failed"]
      <3>1. reading'[c].at = "failed"
        BY <1>c, <2>2 DEF Call
      <3>2. CallOK(c)'
        BY <3>1 DEF CallOK
      <3> QED BY <1>b, <3>2
    <2>3. CASE /\ \E p \in Sides : b[p].valid
               /\ reading'[c] = [reading[c] EXCEPT !.data = [reading[c].data EXCEPT ![o] = record],
                                    !.occ = IF o < Occs THEN o + 1 ELSE o,
                                    !.at = IF o < Occs THEN "seek" ELSE "done"]
      <3>1. chosen.valid /\ Chosen(b) \in Sides
        BY <2>3 DEF Chosen, Sides
      <3>2. FreshRecord(chosen, o, reading[c].newest)
        BY <2>1, <3>1 DEF CopiedOK
      <3>3. record.newest = reading[c].newest /\ FreshRecord(record, o, record.newest)
        BY <3>2 DEF FreshRecord
      <3>4. /\ reading'[c].at = (IF o < Occs THEN "seek" ELSE "done")
            /\ reading'[c].occ = (IF o < Occs THEN o + 1 ELSE o)
            /\ reading'[c].data = [reading[c].data EXCEPT ![o] = record]
        BY <1>c, <2>3 DEF Call
      <3> HIDE DEF record, chosen, b
      <3>5. \A p \in Occ : p <= o => Fresh(c, p)'
        <4> SUFFICES ASSUME NEW p \in Occ, p <= o PROVE Fresh(c, p)'
          OBVIOUS
        <4>1. CASE p = o
          <5>1. reading'[c].data[p] = record
            BY <1>c, <1>o, <3>4, <4>1 DEF Call
          <5> QED BY <3>3, <4>1, <5>1 DEF Fresh
        <4>2. CASE p < o
          <5>1. p # o
            BY <1>o, <4>2, Constants
          <5>2. reading'[c].data[p] = reading[c].data[p]
            BY <1>c, <3>4, <5>1 DEF Call
          <5>3. Fresh(c, p)
            BY <1>c, <2>1, <4>2 DEF CallOK
          <5> QED BY <5>2, <5>3 DEF Fresh
        <4>3. p \in Nat /\ o \in Nat
          BY <1>o, Constants
        <4> QED BY <4>1, <4>2, <4>3
      <3>6. CallOK(c)'
        <4>1. CASE o < Occs
          BY <1>o, <3>4, <3>5, <4>1, Constants DEF CallOK
        <4>2. CASE ~(o < Occs)
          BY <1>o, <3>4, <3>5, <4>2, Constants DEF CallOK
        <4> QED BY <4>1, <4>2
      <3> QED BY <1>b, <3>6
    <2>4. \/ reading'[c] = [reading[c] EXCEPT !.at = "failed"]
          \/ /\ \E p \in Sides : b[p].valid
             /\ reading'[c] = [reading[c] EXCEPT !.data = [reading[c].data EXCEPT ![o] = record],
                                  !.occ = IF o < Occs THEN o + 1 ELSE o,
                                  !.at = IF o < Occs THEN "seek" ELSE "done"]
      BY <1>6 DEF Store, IInv, TypeOK
    <2> QED BY <2>2, <2>3, <2>4
  <1>7. CASE End(c)
    <2>1. reading'[c].at = "idle"
      BY <1>7 DEF End, IInv, TypeOK, Free
    <2> QED BY <1>b, <2>1 DEF CallOK
  <1> QED BY <1>1, <1>2, <1>3, <1>4, <1>5, <1>6, <1>7 DEF Step

(* Every step preserves the invariant.                                     *)
LEMMA OccStep == ConstantsOK /\ IInv /\ [Next]_vars => IInv'
  <1> SUFFICES ASSUME ConstantsOK, IInv, [Next]_vars PROVE IInv'
    OBVIOUS
  <1>1. TypeOK' /\ OneReader'
    BY TypeStep, OneReaderStep DEF IInv
  <1>2. CASE UNCHANGED vars
    BY <1>1, <1>2 DEF vars, IInv, BuffersOK, CallsOK, CallOK, CopyingOK, CopiedOK, Fresh
  <1>3. ASSUME NEW o \in Occ, NEW s \in Sides, Invalidate(o, s) \/ Publish(o, s)
        PROVE  IInv'
    BY <1>1, <1>3, FirmwareStep, FirmwareCalls DEF IInv
  <1>4. ASSUME NEW c \in Callers, Begin(c) \/ Step(c) \/ End(c) PROVE IInv'
    <2>1. UNCHANGED <<buffer, tick>>
      BY <1>4 DEF Begin, Step, Seek, CopyFlag, CopyRecord, CopyFails, Store, End
    <2> QED BY <1>1, <1>4, <2>1, CallerStep DEF IInv, BuffersOK
  <1> QED BY <1>2, <1>3, <1>4 DEF Next

(* A finished sample is one of the samples of the invariant.               *)
LEMMA OccInvariant == IInv => RecordFresh
  BY DEF IInv, CallsOK, CallOK, RecordFresh, Fresh, FreshRecord

(* The invariant holds in every behaviour.                                 *)
LEMMA OccAlways == ASSUME ConstantsOK PROVE Spec => []IInv
  <1>1. Init => IInv
    BY OccInit
  <1>2. IInv /\ [Next]_vars => IInv'
    BY OccStep
  <1> QED BY <1>1, <1>2, PTL DEF Spec

(* Type correctness of the buffers and the readers, for any constants.     *)
THEOREM OccTypeOK == ASSUME ConstantsOK PROVE Spec => []TypeOK
  <1>1. IInv => TypeOK
    BY DEF IInv
  <1> QED BY <1>1, OccAlways, PTL

(* For any number of callers, controllers and records: what read() returns *)
(* has a record of each controller, at most one behind the newest when its *)
(* copy began, and whole unless the firmware invalidated the buffer between*)
(* the copies of its flag and of its record; unless calls have overlapped  *)
(* or an access of the file has failed.                                    *)
THEOREM OccRecordFresh == ASSUME ConstantsOK PROVE Spec => []RecordFresh
  BY OccAlways, OccInvariant, PTL
=============================================================================
