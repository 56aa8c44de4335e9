----------------------------- MODULE MCSampling -----------------------------
(* Instances of Sampling for TLC: one event whose counter wraps every two  *)
(* units, or one controller that publishes three records.                  *)
EXTENDS Sampling

Case(k, a, t) == [kind |-> k, arch |-> a, targets |-> t]

MCTicks == <<3>>

(* Each kind of sampler, and each reader: a periodic sampler only with the *)
(* GPU's, which takes the fewest steps.                                    *)
MCCases ==
    {Case("short", "ppc64", {"cpu"}), Case("short", "x86_64", {"cpu", "gpu"})}
    \cup {Case(k, "x86_64", {"gpu"}) : k \in AllKinds}

=============================================================================
