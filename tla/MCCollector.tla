---------------------------- MODULE MCCollector ----------------------------
(* An instance of Collector: two captures and the URLs of a page.            *)
EXTENDS Collector, TLC
CONSTANTS q1, q2
MCRequest == {q1, q2}
Symmetric == Permutations(MCRequest)
https(host, port) == [scheme |-> "https", host |-> host, port |-> port]
MCPage == https("site", 0)
MCOwn  == {MCPage, https("site", 443)}
MCUrl  == {https("site", 443), https("cdn", 0)}

\* What CollectorProofs supposes of Own, true of these URLs.
ASSUME OwnIsOrigin == OwnOrigin
=============================================================================
