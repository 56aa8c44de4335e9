----------------------------- MODULE MCOccReader -----------------------------
(* Two controllers, of which one goes on for long enough to rewrite both of *)
(* its buffers during one copy.                                            *)
EXTENDS OccReader

MCTicks == <<4, 2>>
=============================================================================
