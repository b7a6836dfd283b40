----------------------------- MODULE MCRunQueue -----------------------------
(* Instances of RunQueue for TLC: one process that hosts everything, two    *)
(* processes with a worker each, and the web and worker roles apart.        *)
EXTENDS RunQueue, FiniteSets, TLC

CONSTANTS p1, p2, w1, w2, h1, h2

AllOnOne     == [a \in {w1, h1, h2} |-> p1]
SmallOnOne   == [a \in {w1, h1} |-> p1]
TwoWorkers   == (w1 :> p1) @@ (w2 :> p2) @@ (h1 :> p1)
WebAndWorker == (w1 :> p2) @@ (h1 :> p1)

Symmetry == Permutations(Page) \cup Permutations(Handler)
=============================================================================
