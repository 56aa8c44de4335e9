------------------------------ MODULE TrapWords ------------------------------
(***************************************************************************)
(* Traps in the target's code (src/profiler.cpp, insert_traps_*();         *)
(* insert_trap() of src/ptrace_misc.cpp; handle_breakpoint(), reset_trap() *)
(* and the return trap in trace() of src/tracer.cpp; the tables of         *)
(* src/trap.cpp).                                                          *)
(*                                                                         *)
(* Memory is only read and written by words, while a trap instruction is   *)
(* shorter: an address here counts trap instructions, of one byte on       *)
(* x86_64 and four on POWER, and a word is W of them (8 and 2).  Of the    *)
(* code all that matters is which addresses hold a trap, so a word is the  *)
(* set of offsets at which it holds one.  The word a trap replaced, its    *)
(* "origword", is what it is passed and put back with.                     *)
(*                                                                         *)
(* One thread of the target is enough here: TRAP_BARRIER keeps the others  *)
(* from the code while traps change (module Tracer).                       *)
(***************************************************************************)
EXTENDS Integers, Sequences

CONSTANTS W,            \* a word, in trap instructions
          Code,         \* addresses of the target's instructions
          Plans,        \* sequences of traps the profiler may be told to insert
          FirstPushes,  \* words the first instruction of a measured function may push
          NoAddr

ASSUME WAssumption == W \in Nat \ {0}
ASSUME CodeAssumption == Code \subseteq Nat /\ NoAddr \notin Nat
ASSUME PushesAssumption == FirstPushes \subseteq Nat

Trap == [type : {"call", "start", "end"}, at : Code, of : Code]

ASSUME PlansAssumption == Plans \subseteq Seq(Trap)

VARIABLES plan, n,      \* the traps to insert; how many are
          code,         \* addresses that hold a trap instruction
          starts, ends, \* _start_traps and _end_traps: origword and, of an end, its start
          pc,           \* where the profiler is, or its tracer
          ip,           \* the target's next instruction
          start,        \* start of the section being measured
          ret,          \* return address of the measured call
          end           \* where a trap was put for it, and the word that was there;
                        \* for the properties, what its first instruction pushed

vars == <<plan, n, code, starts, ends, pc, ip, start, ret, end>>

Offsets == 0..W-1
Words   == SUBSET Offsets

Word(a)    == {a + i : i \in Offsets}
Peek(a)    == {i \in Offsets : a + i \in code}
Poke(c, a, word) == (c \ Word(a)) \cup {a + i : i \in word}
set_trap(word) == word \cup {0}

NoEnd == [at |-> NoAddr, word |-> {}, pushed |-> 0]

Init ==
    /\ plan \in Plans
    /\ n = 0
    /\ code = {}
    /\ starts = << >> /\ ends = << >>
    /\ pc = "insert"
    /\ ip = NoAddr /\ start = NoAddr /\ ret = NoAddr /\ end = NoEnd

Put(table, a, entry) == [x \in DOMAIN table \cup {a} |-> IF x = a THEN entry ELSE table[x]]

-----------------------------------------------------------------------------
(* The profiler inserts the traps, one section after the other.  A trap in *)
(* the same table at the same address is an error.                         *)

(* Mutant: the word is saved after the trap has been written.              *)
InsertStartSavedLate(t) ==
    /\ t.type \in {"call", "start"}
    /\ IF t.at \in DOMAIN starts
       THEN pc' = "failed" /\ UNCHANGED <<starts, n>>
       ELSE /\ starts' = Put(starts, t.at, [word |-> set_trap(Peek(t.at)), call |-> t.type = "call"])
            /\ n' = n + 1 /\ UNCHANGED pc
    /\ UNCHANGED ends

InsertStart(t) ==
    /\ t.type \in {"call", "start"}
    /\ IF t.at \in DOMAIN starts
       THEN pc' = "failed" /\ UNCHANGED <<starts, n>>
       ELSE /\ starts' = Put(starts, t.at, [word |-> Peek(t.at), call |-> t.type = "call"])
            /\ n' = n + 1 /\ UNCHANGED pc
    /\ UNCHANGED ends

InsertEnd(t) ==
    /\ t.type = "end"
    /\ IF t.at \in DOMAIN ends
       THEN pc' = "failed" /\ UNCHANGED <<ends, n>>
       ELSE /\ ends' = Put(ends, t.at, [word |-> Peek(t.at), start |-> t.of])
            /\ n' = n + 1 /\ UNCHANGED pc
    /\ UNCHANGED starts

Insert ==
    /\ pc = "insert" /\ n < Len(plan)
    /\ LET t == plan[n + 1] IN
          /\ code' = Poke(code, t.at, set_trap(Peek(t.at)))
          /\ InsertStart(t) \/ InsertEnd(t)
    /\ UNCHANGED <<plan, ip, start, ret, end>>

Launch ==
    /\ pc = "insert" /\ n = Len(plan)
    /\ pc' = "run"
    /\ ip' \in Code
    /\ UNCHANGED <<plan, n, code, starts, ends, start, ret, end>>

-----------------------------------------------------------------------------
(* The target executes its code and jumps as it likes, until it meets a    *)
(* trap.                                                                   *)
Execute ==
    /\ pc \in {"run", "section"} /\ ip \notin code
    /\ ip' \in Code
    /\ UNCHANGED <<plan, n, code, starts, ends, pc, start, ret, end>>

Fail ==
    /\ pc' = "failed"
    /\ UNCHANGED <<plan, n, code, starts, ends, ip, start, ret, end>>

(* Mutant: the trap is looked up among the end traps too.                  *)
HitStartEnds ==
    /\ pc = "run" /\ ip \in code \cap (DOMAIN starts \cup DOMAIN ends)
    /\ code' = Poke(code, ip, IF ip \in DOMAIN starts THEN starts[ip].word ELSE ends[ip].word)
    /\ start' = ip
    /\ pc' = "startstep"
    /\ UNCHANGED <<plan, n, starts, ends, ip, ret, end>>

(* handle_breakpoint(): write the original word, then single-step.         *)
HitStart ==
    /\ pc = "run" /\ ip \in code \cap DOMAIN starts
    /\ code' = Poke(code, ip, starts[ip].word)
    /\ start' = ip
    /\ pc' = "startstep"
    /\ UNCHANGED <<plan, n, starts, ends, ip, ret, end>>

HitUnknown ==
    /\ pc = "run" /\ ip \in code \ DOMAIN starts
    /\ Fail

(* The word written back holds a trap itself: it is what the single-step   *)
(* executes, and the target goes on inside an instruction.                 *)
Astray ==
    /\ pc \in {"startstep", "endstep"} /\ ip \in code
    /\ pc' = "astray"
    /\ UNCHANGED <<plan, n, code, starts, ends, ip, start, ret, end>>

Stepped == ip \notin code /\ ip' \in Code

BeginRange ==
    /\ pc = "startstep" /\ ~starts[start].call
    /\ Stepped
    /\ pc' = "section"
    /\ UNCHANGED <<plan, n, code, starts, ends, start, ret, end>>

(* get_return_address() after the first instruction was executed: on       *)
(* x86_64 the word above the top of the stack, which is the return address *)
(* if that instruction has pushed one word and anything else if not.       *)
return_address(a, pushed) == pushed = 1 => a = ret'

(* Mutant: no trap is put where the call returns to.                       *)
BeginCallOpen ==
    /\ pc = "startstep" /\ starts[start].call
    /\ Stepped
    /\ ret' \in Code
    /\ \E a \in Code, pushed \in FirstPushes :
          return_address(a, pushed) /\ end' = [at |-> a, word |-> Peek(a), pushed |-> pushed]
    /\ pc' = "section"
    /\ UNCHANGED <<plan, n, code, starts, ends, start>>

BeginCall ==
    /\ pc = "startstep" /\ starts[start].call
    /\ Stepped
    /\ ret' \in Code
    /\ \E a \in Code, pushed \in FirstPushes :
          /\ return_address(a, pushed)
          /\ end' = [at |-> a, word |-> Peek(a), pushed |-> pushed]
          /\ code' = Poke(code, a, set_trap(Peek(a)))
    /\ pc' = "section"
    /\ UNCHANGED <<plan, n, starts, ends, start>>

reset_trap(c, a, table) == Poke(c, a, set_trap(table[a].word))

(* A call that returned: take the return trap out, put the start trap back *)
EndCall ==
    /\ pc = "section" /\ starts[start].call
    /\ ip \in code /\ ip = end.at
    /\ code' = reset_trap(Poke(code, end.at, end.word), start, starts)
    /\ pc' = "run" /\ start' = NoAddr /\ ret' = NoAddr /\ end' = NoEnd
    /\ UNCHANGED <<plan, n, starts, ends, ip>>

EndsHere == ip \in DOMAIN ends /\ ends[ip].start = start

EndRange ==
    /\ pc = "section" /\ ~starts[start].call
    /\ ip \in code /\ EndsHere
    /\ code' = Poke(code, ip, ends[ip].word)
    /\ pc' = "endstep"
    /\ UNCHANGED <<plan, n, starts, ends, ip, start, ret, end>>

HitOther ==
    /\ pc = "section" /\ ip \in code
    /\ IF starts[start].call THEN ip # end.at ELSE ~EndsHere
    /\ Fail

(* Mutant: the end trap is not put back.                                   *)
EndStepOpen ==
    /\ pc = "endstep"
    /\ Stepped
    /\ code' = reset_trap(code, start, starts)
    /\ pc' = "run" /\ start' = NoAddr
    /\ UNCHANGED <<plan, n, starts, ends, ret, end>>

EndStep ==
    /\ pc = "endstep"
    /\ Stepped
    /\ code' = reset_trap(reset_trap(code, ip, ends), start, starts)
    /\ pc' = "run" /\ start' = NoAddr
    /\ UNCHANGED <<plan, n, starts, ends, ret, end>>

Stopped == pc \in {"failed", "astray"} /\ UNCHANGED vars

Next ==
    \/ Insert \/ Launch \/ Execute \/ HitStart \/ HitUnknown \/ Astray
    \/ BeginRange \/ BeginCall \/ EndCall \/ EndRange \/ HitOther \/ EndStep \/ Stopped

Spec == Init /\ [][Next]_vars

-----------------------------------------------------------------------------
Entries == [word : Words, call : BOOLEAN]
EndEntries == [word : Words, start : Code]

TypeOK ==
    /\ plan \in Seq(Trap) /\ n \in 0..Len(plan)
    /\ code \subseteq Nat
    /\ DOMAIN starts \subseteq Code /\ starts \in [DOMAIN starts -> Entries]
    /\ DOMAIN ends \subseteq Code /\ ends \in [DOMAIN ends -> EndEntries]
    /\ pc \in {"insert", "run", "startstep", "section", "endstep", "failed", "astray"}
    /\ ip \in Code \cup {NoAddr} /\ start \in DOMAIN starts \cup {NoAddr}
    /\ ret \in Code \cup {NoAddr}
    /\ end \in [at : Code, word : Words, pushed : Nat] \cup {NoEnd}

(* No trap is inserted into the word of one inserted before it.            *)
Apart(p) == \A i, j \in 1..Len(p) : i < j => p[j].at \notin Word(p[i].at)

Inserted == {plan[i].at : i \in 1..n}

(* Whenever no section is measured, the code holds each registered trap    *)
(* and nothing else, whatever sections were measured, however often, and   *)
(* wherever the measured functions were called from.                       *)
CodeWhole == Apart(plan) /\ pc = "run" => code = Inserted

(* The single-step over a trap executes the target's own instruction.      *)
NotAstray == Apart(plan) => pc # "astray"

(* A section that is being measured does not run past its end: there is a  *)
(* trap at the end of a range, and where a call returns to, if what was    *)
(* taken for the return address was it; whatever calls were before it.     *)
EndInPlace ==
    Apart(plan) /\ pc = "section" =>
        IF starts[start].call THEN end.pushed = 1 => ret \in code
        ELSE \A a \in DOMAIN ends : ends[a].start = start => a \in code

(* handle_breakpoint() writes the original word.                           *)
OriginalWord == pc # "astray"

(* The end of a measured function is where it returns to.                  *)
ReturnTrapped == pc = "section" /\ starts[start].call => ret \in code
=============================================================================
