----------------------------- MODULE MCTrapWords -----------------------------
(***************************************************************************)
(* The plans of one or two sections, of every kind and in every order, in  *)
(* a code of six instructions with words of three: traps may share an      *)
(* address, or a word, or be apart.                                        *)
(***************************************************************************)
EXTENDS TrapWords

Range(a, b) == <<[type |-> "start", at |-> a, of |-> a], [type |-> "end", at |-> b, of |-> a]>>
Function(a) == <<[type |-> "call", at |-> a, of |-> a]>>

MCCode == 0..5
SectionPlans == {Range(a, b) : a, b \in MCCode} \cup {Function(a) : a \in MCCode}
MCPlans == SectionPlans \cup {p \o q : p, q \in SectionPlans}

(* A section that starts where the one before it ends, and a function.     *)
Adjacent == {Range(0, 2) \o Range(2, 4)}
OneFunction == {Function(1)}
=============================================================================
