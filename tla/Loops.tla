-------------------------------- MODULE Loops --------------------------------
(***************************************************************************)
(* Loops over sequences, for the modules of which others have instances:   *)
(* what these need of SequencesExt, and no more, as a proof carries every  *)
(* definition of each instance.                                            *)
(***************************************************************************)
EXTENDS Integers, Sequences, Folds

ToSet(s) == {s[i] : i \in DOMAIN s}

Max(S) == CHOOSE i \in S : \A j \in S : i >= j
Min(S) == CHOOSE i \in S : \A j \in S : i <= j

(* A loop over the elements, and one over their indices.                   *)
FoldLeft(Body(_, _), start, s) ==
    MapThenFoldSet(LAMBDA e, x : Body(x, e), start, LAMBDA i : s[i], Max, DOMAIN s)

FoldLeftDomain(Body(_, _), start, s) == FoldLeft(Body, start, [i \in DOMAIN s |-> i])

(* A search for the first element that passes a test; 0 if there is none.  *)
SelectInSeq(s, Test(_)) ==
    LET I == {i \in 1..Len(s) : Test(s[i])} IN IF I # {} THEN Min(I) ELSE 0
=============================================================================
