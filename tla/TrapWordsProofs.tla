--------------------------- MODULE TrapWordsProofs ---------------------------
(***************************************************************************)
(* For words of any size, any code and any set of traps none of which is   *)
(* inserted into the word of an earlier one: the code is whole whenever no *)
(* section is measured, the single-steps execute the target's own code and *)
(* a section never runs past its end.                                      *)
(*                                                                         *)
(* The inductive invariant gives every origword a meaning that does not    *)
(* depend on when it was read: TablesInv says that the word saved for a    *)
(* trap holds exactly the other registered traps in its reach.  So every   *)
(* word that is written makes a part of the code what it should be and     *)
(* leaves the rest alone, which is lemma Rewrite; CodeInv says what the    *)
(* code should be at each point.                                           *)
(***************************************************************************)
EXTENDS TrapWords, TLAPS

(* The word at a when the traps in the code are S.                         *)
Shown(S, a) == {i \in Offsets : a + i \in S}

(* Code c is S but for what is in the word at a.                           *)
Agree(c, S, a) == \A x \in Nat \ Word(a) : x \in c <=> x \in S

(* What passing the trap at a writes.                                      *)
Others(a) == Shown(Inserted \ {a}, a)

TablesInv ==
    /\ DOMAIN starts \subseteq Inserted /\ DOMAIN ends \subseteq Inserted
    /\ DOMAIN starts \cap DOMAIN ends = {}
    /\ \A a \in DOMAIN starts : starts[a].word = Others(a)
    /\ \A a \in DOMAIN ends : ends[a].word = Others(a)

CodeInv ==
    /\ pc \in {"insert", "run"} => code = Inserted
    /\ pc = "startstep" => ip = start /\ code = Inserted \ {start}
    /\ pc = "section" /\ ~starts[start].call => code = Inserted \ {start}
    /\ pc = "section" /\ starts[start].call =>
          /\ end \in [at : Code, word : Words, pushed : Nat]
          /\ ret \in Code /\ (end.pushed = 1 => end.at = ret)
          /\ code = (Inserted \ {start}) \cup {end.at}
          /\ end.word = Shown(Inserted \ {start}, end.at)
    /\ pc = "endstep" => code \subseteq Inserted \ {ip} /\ Inserted \ {ip, start} \subseteq code
    /\ pc # "astray"

(* A tracer in a section knows its traps.                                  *)
PlaceInv ==
    /\ pc \in {"startstep", "section", "endstep"} => start \in DOMAIN starts
    /\ pc = "endstep" => ip \in DOMAIN ends

IInv == TypeOK /\ PlaceInv /\ (Apart(plan) => TablesInv /\ CodeInv)

-----------------------------------------------------------------------------
(* Lemmas about words and plans.                                           *)
(* A word that shows S, written over code that is S elsewhere, makes it S. *)
LEMMA Rewrite ==
    ASSUME NEW c, NEW S, NEW a, c \subseteq Nat, S \subseteq Nat, a \in Nat, Agree(c, S, a)
    PROVE  Poke(c, a, Shown(S, a)) = S
  <1> DEFINE p == Poke(c, a, Shown(S, a))
  <1>1. ASSUME NEW x \in p PROVE x \in S
    BY <1>1 DEF Poke, Agree, Shown
  <1>2. ASSUME NEW x \in S PROVE x \in p
    <2>1. CASE x \in Word(a)
      BY <1>2, <2>1 DEF Poke, Word, Shown
    <2>2. CASE x \notin Word(a)
      BY <1>2, <2>2 DEF Poke, Agree
    <2> QED BY <2>1, <2>2
  <1> QED BY <1>1, <1>2

(* Zero is an offset, so an address is in the word it starts.              *)
LEMMA OwnWord ==
    /\ 0 \in Offsets /\ Offsets \subseteq Nat
    /\ \A a \in Nat : a \in Word(a) /\ Word(a) \subseteq Nat
  <1>1. 0 \in Offsets /\ Offsets \subseteq Nat
    BY WAssumption DEF Offsets
  <1>2. ASSUME NEW a \in Nat PROVE a \in Word(a) /\ Word(a) \subseteq Nat
    BY <1>1 DEF Word
  <1> QED BY <1>1, <1>2

(* Writing a trap over a word that shows S makes it show S with the trap.  *)
LEMMA Trapped ==
    ASSUME NEW S, NEW a, a \in Nat
    PROVE  set_trap(Shown(S, a)) = Shown(S \cup {a}, a)
  <1>1. \A i \in Offsets : a + i = a <=> i = 0
    BY OwnWord
  <1> QED BY <1>1, OwnWord DEF Shown, set_trap

(* Code with and without a trap differs in the trap's own word only.       *)
LEMMA OwnTrap ==
    ASSUME NEW S, NEW a, a \in Nat
    PROVE  Agree(S, S \ {a}, a) /\ Agree(S, S \cup {a}, a) /\ Agree(S \ {a}, S, a)
  BY OwnWord DEF Agree

(* What a plan consists of.                                                *)
LEMMA PlanType ==
    ASSUME TypeOK
    PROVE  /\ Len(plan) \in Nat /\ n \in Nat
           /\ \A i \in 1..Len(plan) : plan[i] \in Trap
           /\ Inserted \subseteq Code /\ Inserted \subseteq Nat
  <1>1. plan \in Seq(Trap)
    BY DEF TypeOK
  <1>2. Len(plan) \in Nat /\ n \in Nat
    BY <1>1 DEF TypeOK
  <1>3. \A i \in 1..Len(plan) : plan[i] \in Trap
    BY <1>1
  <1>4. Inserted \subseteq Code
    BY <1>2, <1>3 DEF Inserted, TypeOK, Trap
  <1> QED BY <1>2, <1>3, <1>4, CodeAssumption

-----------------------------------------------------------------------------
(* The types.                                                              *)

(* Every step preserves the types.                                         *)
LEMMA TypeStep == TypeOK /\ PlaceInv /\ [Next]_vars => TypeOK' /\ PlaceInv'
  <1> SUFFICES ASSUME TypeOK, PlaceInv, [Next]_vars PROVE TypeOK' /\ PlaceInv'
    OBVIOUS
  <1>p. /\ plan \in Seq(Trap) /\ n \in Nat /\ Len(plan) \in Nat
        /\ \A i \in 1..Len(plan) :
              plan[i] \in [type : {"call", "start", "end"}, at : Code, of : Code]
    BY PlanType DEF TypeOK, Trap
  <1>o. /\ 0 \in Offsets /\ Offsets \subseteq Nat
        /\ \A a \in Nat : Peek(a) \in Words /\ set_trap(Peek(a)) \in Words
    BY OwnWord DEF Peek, Words, set_trap
  <1>c. \A c \in SUBSET Nat, a \in Nat, word \in Words : Poke(c, a, word) \in SUBSET Nat
    <2> SUFFICES ASSUME NEW c \in SUBSET Nat, NEW a \in Nat, NEW word \in Words
                 PROVE  \A x \in Poke(c, a, word) : x \in Nat
      OBVIOUS
    <2>1. \A i \in word : a + i \in Nat
      BY <1>o DEF Words
    <2> QED BY <2>1 DEF Poke
  <1>1. CASE Insert
    <2> DEFINE t == plan[n + 1]
    <2>1. n + 1 \in 1..Len(plan) /\ t \in [type : {"call", "start", "end"}, at : Code, of : Code]
      BY <1>1, <1>p DEF Insert, TypeOK, PlaceInv
    <2>2. t.at \in Code /\ t.at \in Nat /\ t.of \in Code
      BY <2>1, CodeAssumption
    <2>3. code' \subseteq Nat
      BY <1>1, <1>o, <1>c, <2>2 DEF Insert, TypeOK, PlaceInv
    <2>4. CASE InsertStart(t)
      <3>1. CASE t.at \in DOMAIN starts
        BY <1>1, <2>3, <2>4, <3>1 DEF Insert, InsertStart, TypeOK, PlaceInv
      <3>2. CASE t.at \notin DOMAIN starts
        <4> DEFINE e == [word |-> Peek(t.at), call |-> t.type = "call"]
        <4>1. e \in Entries
          BY <1>o, <2>2 DEF Entries
        <4>2. starts' = Put(starts, t.at, e) /\ n' = n + 1 /\ UNCHANGED <<pc, ends>>
          BY <2>4, <3>2 DEF InsertStart
        <4>3. /\ DOMAIN starts' = DOMAIN starts \cup {t.at}
              /\ starts' \in [DOMAIN starts' -> Entries]
          <5> HIDE DEF e
          <5> QED BY <4>1, <4>2 DEF Put, TypeOK
        <4>4. DOMAIN starts' \subseteq Code /\ n' \in 0..Len(plan)
          BY <1>p, <2>1, <2>2, <4>2, <4>3 DEF TypeOK
        <4>5. UNCHANGED <<plan, ends, pc, ip, start, ret, end>> /\ pc = "insert"
          BY <1>1, <4>2 DEF Insert
        <4>6. TypeOK'
          BY <2>3, <4>3, <4>4, <4>5 DEF TypeOK
        <4>7. PlaceInv'
          BY <4>5 DEF PlaceInv
        <4> QED BY <4>6, <4>7
      <3> QED BY <3>1, <3>2
    <2>5. CASE InsertEnd(t)
      <3>1. CASE t.at \in DOMAIN ends
        BY <1>1, <2>3, <2>5, <3>1 DEF Insert, InsertEnd, TypeOK, PlaceInv
      <3>2. CASE t.at \notin DOMAIN ends
        <4> DEFINE e == [word |-> Peek(t.at), start |-> t.of]
        <4>1. e \in EndEntries
          BY <1>o, <2>2 DEF EndEntries
        <4>2. ends' = Put(ends, t.at, e) /\ n' = n + 1 /\ UNCHANGED <<pc, starts>>
          BY <2>5, <3>2 DEF InsertEnd
        <4>3. /\ DOMAIN ends' = DOMAIN ends \cup {t.at}
              /\ ends' \in [DOMAIN ends' -> EndEntries]
          <5> HIDE DEF e
          <5> QED BY <4>1, <4>2 DEF Put, TypeOK
        <4>4. DOMAIN ends' \subseteq Code /\ n' \in 0..Len(plan)
          BY <1>p, <2>1, <2>2, <4>2, <4>3 DEF TypeOK
        <4>5. UNCHANGED <<plan, starts, pc, ip, start, ret, end>> /\ pc = "insert"
          BY <1>1, <4>2 DEF Insert
        <4>6. TypeOK'
          BY <2>3, <4>3, <4>4, <4>5 DEF TypeOK
        <4>7. PlaceInv'
          BY <4>5 DEF PlaceInv
        <4> QED BY <4>6, <4>7
      <3> QED BY <3>1, <3>2
    <2> QED BY <1>1, <2>4, <2>5 DEF Insert
  <1>2. CASE Launch \/ Execute \/ HitUnknown \/ Astray \/ HitOther
    BY <1>2 DEF Launch, Execute, HitUnknown, Astray, HitOther, Fail, TypeOK, PlaceInv
  <1>3. CASE HitStart
    <2>1. ip \in DOMAIN starts /\ ip \in Nat /\ starts[ip].word \in Words
      BY <1>3, CodeAssumption DEF HitStart, TypeOK, Entries
    <2> QED BY <1>3, <1>c, <2>1 DEF HitStart, TypeOK, PlaceInv
  <1>4. CASE BeginRange
    BY <1>4 DEF BeginRange, Stepped, TypeOK, PlaceInv
  <1>5. CASE BeginCall
    <2>1. PICK a \in Code, pushed \in FirstPushes :
              /\ end' = [at |-> a, word |-> Peek(a), pushed |-> pushed]
              /\ code' = Poke(code, a, set_trap(Peek(a)))
      BY <1>5 DEF BeginCall
    <2>2. a \in Nat
      BY CodeAssumption
    <2>3. code' \subseteq Nat /\ end' \in [at : Code, word : Words, pushed : Nat]
      BY <1>o, <1>c, <2>1, <2>2, PushesAssumption DEF TypeOK
    <2> QED BY <1>5, <2>3 DEF BeginCall, Stepped, TypeOK, PlaceInv
  <1>6. CASE EndCall
    <2>1. end # NoEnd
      BY <1>6, CodeAssumption DEF EndCall, NoEnd, TypeOK
    <2>2. end.at \in Nat /\ end.word \in Words
      BY <2>1, CodeAssumption DEF TypeOK
    <2>3. start \in DOMAIN starts /\ start \in Nat /\ starts[start].word \in Words
      BY <1>6, CodeAssumption DEF EndCall, PlaceInv, TypeOK, Entries
    <2>4. set_trap(starts[start].word) \in Words
      BY <1>o, <2>3 DEF set_trap, Words
    <2>5. code' \subseteq Nat
      BY <1>6, <1>c, <2>2, <2>3, <2>4 DEF EndCall, reset_trap, TypeOK
    <2> QED BY <1>6, <2>5 DEF EndCall, TypeOK, PlaceInv
  <1>7. CASE EndRange
    <2>1. ip \in DOMAIN ends /\ ip \in Nat /\ ends[ip].word \in Words
      BY <1>7, CodeAssumption DEF EndRange, EndsHere, TypeOK, EndEntries
    <2> QED BY <1>7, <1>c, <2>1 DEF EndRange, EndsHere, TypeOK, PlaceInv
  <1>8. CASE EndStep
    <2>1. /\ start \in DOMAIN starts /\ start \in Nat /\ starts[start].word \in Words
          /\ ip \in DOMAIN ends /\ ip \in Nat /\ ends[ip].word \in Words
      BY <1>8, CodeAssumption DEF EndStep, PlaceInv, TypeOK, Entries, EndEntries
    <2>2. set_trap(starts[start].word) \in Words /\ set_trap(ends[ip].word) \in Words
      BY <1>o, <2>1 DEF set_trap, Words
    <2>3. code' \subseteq Nat
      BY <1>8, <1>c, <2>1, <2>2 DEF EndStep, reset_trap, TypeOK
    <2> QED BY <1>8, <2>3 DEF EndStep, Stepped, TypeOK, PlaceInv
  <1>9. CASE Stopped \/ UNCHANGED vars
    BY <1>9 DEF Stopped, vars, TypeOK, PlaceInv
  <1> QED
    BY <1>1, <1>2, <1>3, <1>4, <1>5, <1>6, <1>7, <1>8, <1>9 DEF Next

-----------------------------------------------------------------------------
(* The tables and the code.                                                *)
(* Putting a trap back over a's own word shows every registered trap.      *)
LEMMA OthersAre ==
    ASSUME NEW a, a \in Inserted, a \in Nat
    PROVE  set_trap(Others(a)) = Shown(Inserted, a)
  <1>1. (Inserted \ {a}) \cup {a} = Inserted
    OBVIOUS
  <1> QED BY <1>1, Trapped DEF Others

(* Steps that insert no trap keep the tables.                              *)
LEMMA SameTables ==
    ASSUME TablesInv, UNCHANGED <<plan, n, starts, ends>>
    PROVE  TablesInv' /\ Inserted' = Inserted
  BY DEF TablesInv, Inserted, Others, Shown

(* Inserting a trap: the word read is the one its table should hold.       *)
LEMMA InsertStep ==
    ASSUME IInv, Apart(plan), Insert
    PROVE  TablesInv' /\ CodeInv'
  <1>0. PICK t : t = plan[n + 1]
    OBVIOUS
  <1> DEFINE b == t.at
  <1>1. /\ TypeOK /\ TablesInv /\ CodeInv /\ pc = "insert" /\ code = Inserted
        /\ UNCHANGED <<plan, ip, start, ret, end>>
        /\ code' = Poke(code, b, set_trap(Peek(b)))
        /\ InsertStart(t) \/ InsertEnd(t)
    BY <1>0 DEF IInv, CodeInv, Insert
  <1>2. n + 1 \in 1..Len(plan) /\ b \in Nat /\ Inserted \subseteq Nat
    <2>1. n < Len(plan) /\ n \in Nat /\ Len(plan) \in Nat
      BY <1>1, PlanType DEF Insert
    <2>2. n + 1 \in 1..Len(plan)
      BY <2>1
    <2>3. t.at \in Code
      BY <1>0, <1>1, <2>2, PlanType DEF Trap
    <2> QED BY <1>1, <2>2, <2>3, PlanType, CodeAssumption
  <1>3. \A x \in Inserted : b \notin Word(x)
    <2> TAKE x \in Inserted
    <2>1. PICK i \in 1..n : x = plan[i].at
      BY DEF Inserted
    <2>2. i \in 1..Len(plan) /\ i < n + 1
      BY <1>1, <1>2, <2>1, PlanType
    <2> QED BY <1>0, <1>2, <2>1, <2>2 DEF Apart
  <1>4. b \notin Inserted /\ b \notin DOMAIN starts /\ b \notin DOMAIN ends
    BY <1>1, <1>2, <1>3, OwnWord DEF TablesInv
  <1>5. n' = n + 1 /\ UNCHANGED pc
    BY <1>1, <1>4 DEF InsertStart, InsertEnd
  <1>6. Inserted' = Inserted \cup {b}
    BY <1>0, <1>1, <1>2, <1>5, PlanType DEF Inserted
  <1> HIDE DEF b
  <1>7. Peek(b) = Shown(Inserted, b)
    BY <1>1 DEF Peek, Shown
  <1>8. code' = Inserted'
    <2>1. set_trap(Peek(b)) = Shown(Inserted \cup {b}, b) /\ Agree(code, Inserted \cup {b}, b)
      BY <1>1, <1>2, <1>7, Trapped, OwnTrap
    <2>2. code \subseteq Nat /\ Inserted \cup {b} \subseteq Nat
      BY <1>1, <1>2
    <2>3. Poke(code, b, Shown(Inserted \cup {b}, b)) = Inserted \cup {b}
      BY <1>2, <2>1, <2>2, Rewrite
    <2> QED BY <1>1, <1>6, <2>1, <2>3
  <1>9. \A a \in Inserted : Others(a)' = Others(a)
    <2> TAKE a \in Inserted
    <2>1. \A i \in Offsets : a + i # b
      BY <1>3 DEF Word
    <2> QED BY <1>6, <2>1 DEF Others, Shown
  <1>10. Peek(b) = Others(b)'
    <2>1. Inserted' \ {b} = Inserted
      BY <1>4, <1>6
    <2> QED BY <1>7, <2>1 DEF Others, Shown
  <1>11. TablesInv'
    <2>1. CASE InsertStart(t)
      <3> DEFINE e == [word |-> Peek(b), call |-> t.type = "call"]
      <3>1. starts' = Put(starts, b, e) /\ UNCHANGED ends
        BY <1>4, <2>1 DEF InsertStart, b
      <3>2. e.word = Others(b)'
        BY <1>10
      <3> HIDE DEF e
      <3>3. DOMAIN starts' = DOMAIN starts \cup {b} /\ DOMAIN ends' = DOMAIN ends
        BY <3>1 DEF Put
      <3>4. \A a \in DOMAIN starts' : starts'[a].word = Others(a)'
        <4> TAKE a \in DOMAIN starts'
        <4>1. CASE a = b
          BY <3>1, <3>2, <3>3, <4>1 DEF Put
        <4>2. CASE a # b
          BY <1>1, <1>9, <3>1, <3>3, <4>2 DEF Put, TablesInv
        <4> QED BY <4>1, <4>2
      <3>5. \A a \in DOMAIN ends' : ends'[a].word = Others(a)'
        BY <1>1, <1>9, <3>1 DEF TablesInv
      <3> QED BY <1>1, <1>4, <1>6, <3>3, <3>4, <3>5 DEF TablesInv
    <2>2. CASE InsertEnd(t)
      <3> DEFINE e == [word |-> Peek(b), start |-> t.of]
      <3>1. ends' = Put(ends, b, e) /\ UNCHANGED starts
        BY <1>4, <2>2 DEF InsertEnd, b
      <3>2. e.word = Others(b)'
        BY <1>10
      <3> HIDE DEF e
      <3>3. DOMAIN ends' = DOMAIN ends \cup {b} /\ DOMAIN starts' = DOMAIN starts
        BY <3>1 DEF Put
      <3>4. \A a \in DOMAIN ends' : ends'[a].word = Others(a)'
        <4> TAKE a \in DOMAIN ends'
        <4>1. CASE a = b
          BY <3>1, <3>2, <3>3, <4>1 DEF Put
        <4>2. CASE a # b
          BY <1>1, <1>9, <3>1, <3>3, <4>2 DEF Put, TablesInv
        <4> QED BY <4>1, <4>2
      <3>5. \A a \in DOMAIN starts' : starts'[a].word = Others(a)'
        BY <1>1, <1>9, <3>1 DEF TablesInv
      <3> QED BY <1>1, <1>4, <1>6, <3>3, <3>4, <3>5 DEF TablesInv
    <2> QED BY <1>1, <2>1, <2>2
  <1> QED BY <1>1, <1>5, <1>8, <1>11 DEF CodeInv

(* Passing a trap and putting it back leaves the code as it should be.     *)
LEMMA CodeStep ==
    ASSUME IInv, Apart(plan), [Next]_vars
    PROVE  TablesInv' /\ CodeInv'
  <1>1. TypeOK /\ PlaceInv /\ TablesInv /\ CodeInv
    BY DEF IInv
  <1>2. Inserted \subseteq Nat /\ Code \subseteq Nat /\ code \subseteq Nat
    BY <1>1, PlanType, CodeAssumption DEF TypeOK
  <1>3. /\ \A a \in DOMAIN starts : a \in Inserted /\ a \in Nat /\ starts[a].word = Others(a)
        /\ \A a \in DOMAIN ends : a \in Inserted /\ a \in Nat /\ ends[a].word = Others(a)
    BY <1>1, <1>2 DEF TablesInv
  <1>4. CASE Insert
    BY <1>4, InsertStep
  <1> USE SameTables
  <1>5. CASE Launch \/ Execute \/ HitUnknown \/ HitOther \/ Stopped \/ UNCHANGED vars
    BY <1>1, <1>5 DEF Launch, Execute, HitUnknown, HitOther, Stopped, Fail, vars, CodeInv
  <1>6. CASE HitStart
    <2>1. ip \in DOMAIN starts /\ code = Inserted /\ code' = Poke(code, ip, starts[ip].word)
      BY <1>1, <1>6 DEF HitStart, CodeInv
    <2>2. ip \in Nat /\ code' = Poke(code, ip, Shown(Inserted \ {ip}, ip))
      BY <1>3, <2>1 DEF Others
    <2>3. code' = Inserted \ {ip}
      <3>1. Agree(code, Inserted \ {ip}, ip) /\ Inserted \ {ip} \subseteq Nat
        BY <1>2, <2>1, <2>2, OwnTrap
      <3> QED BY <1>2, <2>2, <3>1, Rewrite
    <2> QED BY <1>1, <1>6, <2>3 DEF HitStart, CodeInv
  <1>7. CASE Astray
    BY <1>1, <1>7 DEF Astray, CodeInv
  <1>8. CASE BeginRange
    BY <1>1, <1>8 DEF BeginRange, Stepped, CodeInv
  <1>9. CASE BeginCall
    <2>1. PICK a \in Code, pushed \in FirstPushes :
              /\ return_address(a, pushed)
              /\ end' = [at |-> a, word |-> Peek(a), pushed |-> pushed]
              /\ code' = Poke(code, a, set_trap(Peek(a)))
      BY <1>9 DEF BeginCall
    <2>2. /\ a \in Nat /\ code = Inserted \ {start} /\ ret' \in Code
          /\ pushed = 1 => a = ret'
      BY <1>1, <1>2, <1>9, <2>1 DEF BeginCall, CodeInv, return_address
    <2>3. Peek(a) = Shown(code, a)
      BY DEF Peek, Shown
    <2>4. code' = code \cup {a}
      <3>1. set_trap(Peek(a)) = Shown(code \cup {a}, a) /\ Agree(code, code \cup {a}, a)
        BY <2>2, <2>3, Trapped, OwnTrap
      <3>2. code \cup {a} \subseteq Nat
        BY <1>2, <2>2
      <3> QED BY <1>2, <2>1, <2>2, <3>1, <3>2, Rewrite
    <2>5. end'.at = a /\ end'.word = Shown(Inserted \ {start}, a) /\ end'.pushed = pushed
      BY <2>1, <2>2, <2>3
    <2>6. end' \in [at : Code, word : Words, pushed : Nat]
      BY <2>1, PushesAssumption DEF Peek, Words
    <2>7. UNCHANGED <<plan, n, starts, ends, start>> /\ pc' = "section" /\ starts[start].call
      BY <1>9 DEF BeginCall
    <2>8. /\ Inserted' = Inserted /\ TablesInv'
          /\ end'.word = Shown(Inserted' \ {start'}, end'.at)
      BY <1>1, <2>5, <2>7
    <2> QED BY <2>2, <2>4, <2>5, <2>6, <2>7, <2>8 DEF CodeInv, Shown
  <1>10. CASE EndCall
    <2>1. /\ start \in DOMAIN starts
          /\ end.at \in Code /\ code = (Inserted \ {start}) \cup {end.at}
          /\ end.word = Shown(Inserted \ {start}, end.at)
      BY <1>1, <1>10 DEF EndCall, CodeInv, PlaceInv
    <2>2. start \in Nat /\ start \in Inserted /\ end.at \in Nat
      BY <1>2, <1>3, <2>1
    <2>3. Poke(code, end.at, end.word) = Inserted \ {start}
      <3>1. Agree(code, Inserted \ {start}, end.at)
        BY <2>1, <2>2, OwnWord DEF Agree
      <3>2. Inserted \ {start} \subseteq Nat
        BY <1>2
      <3> QED BY <1>2, <2>1, <2>2, <3>1, <3>2, Rewrite
    <2>4. code' = Poke(Inserted \ {start}, start, Shown(Inserted, start))
      <3>1. set_trap(starts[start].word) = Shown(Inserted, start)
        BY <1>3, <2>1, <2>2, OthersAre
      <3> QED BY <1>10, <2>3, <3>1 DEF EndCall, reset_trap
    <2>5. code' = Inserted
      <3>1. Agree(Inserted \ {start}, Inserted, start) /\ Inserted \ {start} \subseteq Nat
        BY <1>2, <2>2, OwnTrap
      <3> QED BY <1>2, <2>2, <2>4, <3>1, Rewrite
    <2> QED BY <1>1, <1>10, <2>5 DEF EndCall, CodeInv
  <1>11. CASE EndRange
    <2>1. /\ start \in DOMAIN starts /\ ip \in DOMAIN ends /\ ip \in Nat
          /\ code = Inserted \ {start}
          /\ ends[ip].word = Others(ip)
      BY <1>1, <1>3, <1>11 DEF EndRange, EndsHere, CodeInv, PlaceInv
    <2>2. code' = (code \ Word(ip)) \cup {ip + i : i \in Others(ip)}
      BY <1>11, <2>1 DEF EndRange, Poke
    <2>3. ASSUME NEW x \in code' PROVE x \in Inserted \ {ip}
      <3>1. CASE x \in code \ Word(ip)
        BY <2>1, <3>1, OwnWord
      <3>2. CASE x \in {ip + i : i \in Others(ip)}
        BY <2>1, <3>2, OwnWord DEF Others, Shown
      <3> QED BY <2>2, <2>3, <3>1, <3>2
    <2>4. ASSUME NEW x \in Inserted \ {ip, start} PROVE x \in code'
      <3>1. CASE x \in Word(ip)
        <4>1. PICK i \in Offsets : x = ip + i
          BY <3>1 DEF Word
        <4>2. i # 0
          BY <2>1, <2>4, <4>1
        <4> QED BY <2>2, <2>4, <4>1, <4>2 DEF Others, Shown
      <3>2. CASE x \notin Word(ip)
        BY <2>1, <2>2, <2>4, <3>2
      <3> QED BY <3>1, <3>2
    <2> QED BY <1>1, <1>11, <2>3, <2>4 DEF EndRange, CodeInv
  <1>12. CASE EndStep
    <2> DEFINE c == reset_trap(code, ip, ends)
    <2>1. /\ start \in DOMAIN starts /\ ip \in DOMAIN ends
          /\ code \subseteq Inserted /\ Inserted \ {ip, start} \subseteq code
      BY <1>1, <1>12 DEF EndStep, CodeInv, PlaceInv
    <2>2. /\ start \in Nat /\ start \in Inserted /\ ip \in Nat /\ ip \in Inserted
          /\ set_trap(starts[start].word) = Shown(Inserted, start)
          /\ set_trap(ends[ip].word) = Shown(Inserted, ip)
      BY <1>3, <2>1, OthersAre
    <2>3. c = (code \ Word(ip)) \cup {ip + i : i \in Shown(Inserted, ip)}
      BY <2>2 DEF reset_trap, Poke
    <2>4. c \subseteq Inserted
      BY <2>1, <2>3 DEF Shown
    <2>5. ASSUME NEW x \in Inserted \ {start} PROVE x \in c
      <3>1. CASE x \in Word(ip)
        BY <2>3, <2>5, <3>1 DEF Word, Shown
      <3>2. CASE x \notin Word(ip)
        BY <2>1, <2>2, <2>3, <2>5, <3>2, OwnWord
      <3> QED BY <3>1, <3>2
    <2>6. code' = Poke(c, start, Shown(Inserted, start))
      BY <1>12, <2>2 DEF EndStep, reset_trap
    <2>7. code' = Inserted
      <3> HIDE DEF c
      <3>1. Agree(c, Inserted, start)
        BY <2>2, <2>4, <2>5, OwnWord DEF Agree
      <3>2. c \subseteq Nat
        BY <1>2, <2>4
      <3> QED BY <1>2, <2>2, <2>6, <3>1, <3>2, Rewrite
    <2> QED BY <1>1, <1>12, <2>7 DEF EndStep, CodeInv
  <1> QED
    BY <1>4, <1>5, <1>6, <1>7, <1>8, <1>9, <1>10, <1>11, <1>12 DEF Next
-----------------------------------------------------------------------------
(* No step changes the plan.                                               *)
LEMMA PlanFixed == [Next]_vars => plan' = plan
  BY DEF Next, vars, Insert, Launch, Execute, HitStart, HitUnknown, Astray, BeginRange,
         BeginCall, EndCall, EndRange, HitOther, EndStep, Stopped, Fail

(* IInv is an invariant.                                                   *)
THEOREM TrapWordsIInv == Spec => []IInv
  <1>1. Init => IInv
    <2> SUFFICES ASSUME Init PROVE IInv
      OBVIOUS
    <2>1. plan \in Seq(Trap) /\ Len(plan) \in Nat
      BY PlansAssumption DEF Init
    <2>2. Inserted = {}
      BY DEF Init, Inserted
    <2>3. DOMAIN starts = {} /\ DOMAIN ends = {}
      BY DEF Init
    <2>4. starts \in [DOMAIN starts -> Entries] /\ ends \in [DOMAIN ends -> EndEntries]
      BY <2>3 DEF Init
    <2>5. TypeOK /\ PlaceInv
      BY <2>1, <2>3, <2>4 DEF Init, TypeOK, PlaceInv
    <2> QED BY <2>2, <2>3, <2>5 DEF Init, IInv, TablesInv, CodeInv
  <1>2. IInv /\ [Next]_vars => IInv'
    <2> SUFFICES ASSUME IInv, [Next]_vars PROVE IInv'
      OBVIOUS
    <2>1. TypeOK' /\ PlaceInv'
      BY TypeStep DEF IInv
    <2>2. Apart(plan)' <=> Apart(plan)
      BY PlanFixed DEF Apart
    <2> QED BY <2>1, <2>2, CodeStep DEF IInv
  <1> QED BY <1>1, <1>2, PTL DEF Spec

(* Type correctness of the traps.                                          *)
THEOREM TrapWordsTypeOK == Spec => []TypeOK
  <1>1. IInv => TypeOK
    BY DEF IInv
  <1> QED BY <1>1, TrapWordsIInv, PTL

(* The code holds every registered trap, and no other, between sections.   *)
THEOREM TrapWordsCodeWhole == Spec => []CodeWhole
  <1>1. IInv => CodeWhole
    BY DEF IInv, CodeInv, CodeWhole
  <1> QED BY <1>1, TrapWordsIInv, PTL

(* A single-step over a trap never executes a trap.                        *)
THEOREM TrapWordsNotAstray == Spec => []NotAstray
  <1>1. IInv => NotAstray
    BY DEF IInv, CodeInv, NotAstray
  <1> QED BY <1>1, TrapWordsIInv, PTL

(* Whatever functions push first, no section runs past its end but a call  *)
(* whose return address was not where it was looked for.                   *)
THEOREM TrapWordsEndInPlace == Spec => []EndInPlace
  <1>1. IInv => EndInPlace
    <2> SUFFICES ASSUME IInv, Apart(plan), pc = "section"
                 PROVE  IF starts[start].call THEN end.pushed = 1 => ret \in code
                        ELSE \A a \in DOMAIN ends : ends[a].start = start => a \in code
      BY DEF EndInPlace
    <2>1. CASE starts[start].call
      BY <2>1 DEF IInv, CodeInv
    <2>2. CASE ~starts[start].call
      BY <2>2 DEF IInv, CodeInv, TablesInv, PlaceInv
    <2> QED BY <2>1, <2>2
  <1> QED BY <1>1, TrapWordsIInv, PTL
=============================================================================
