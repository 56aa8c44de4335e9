------------------------------ MODULE MCTracer ------------------------------
(* A target of two or three threads with one or two sections: the first    *)
(* section is a range of code, the second one a function.                  *)
EXTENDS Tracer, TLC

CONSTANTS main, t1, t2, range, func

Two   == {main, t1}
Three == {main, t1, t2}
Symmetry == Permutations({t1, t2})

OneRange == {range}
OneFunc  == {func}
Both     == {range, func}
NoSection == {}
=============================================================================
