------------------------------- MODULE Checks -------------------------------
(* A chain of tests, each of which returns or throws an error of its own.  *)
EXTENDS Integers, Sequences

Fine == "fine"

Check(condition, error) == IF condition THEN error ELSE Fine

FirstError(errors) ==
    LET bad == {i \in DOMAIN errors : errors[i] # Fine}
    IN IF bad = {} THEN Fine ELSE errors[CHOOSE i \in bad : \A j \in bad : i <= j]
=============================================================================
