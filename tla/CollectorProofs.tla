--------------------------- MODULE CollectorProofs ---------------------------
(* Proofs about Collector, for any number of captures, requests, chunks and *)
(* events on their way, and any URLs.                                       *)
EXTENDS Collector, FiniteSetTheorems, NaturalsInduction, TLAPS

(***************************************************************************)
(* Sums: the sum of f over S counts the pairs of an element x of S and a   *)
(* number up to f[x], so that it does not depend on the order.             *)
(***************************************************************************)
Pairs(f, S) == UNION {{x} \X (1 .. f[x]) : x \in S}

LEMMA PairsOfNone == ASSUME NEW f PROVE Pairs(f, {}) = {}
BY DEF Pairs

\* As many numbers as n, each beside the same element.
LEMMA Column ==
  ASSUME NEW x, NEW n \in Nat
  PROVE  IsFiniteSet({x} \X (1 .. n)) /\ Cardinality({x} \X (1 .. n)) = n
<1>1. IsFiniteSet({x}) /\ Cardinality({x}) = 1
  BY FS_Singleton
<1>2. IsFiniteSet(1 .. n) /\ Cardinality(1 .. n) = n
  BY FS_Interval
<1>3. IsFiniteSet({x} \X (1 .. n))
  BY <1>1, <1>2, FS_Product
<1>4. Cardinality({x} \X (1 .. n)) = 1 * n
  <2>1. Cardinality({x} \X (1 .. n)) = Cardinality({x}) * Cardinality(1 .. n)
    BY <1>1, <1>2, FS_Product, Zenon
  <2> QED BY <1>1, <1>2, <2>1, Zenon
<1> QED BY <1>3, <1>4

\* Sets that share nothing.
LEMMA Disjoint ==
  ASSUME NEW S, NEW T, IsFiniteSet(S), IsFiniteSet(T), S \cap T = {}
  PROVE  IsFiniteSet(S \cup T) /\ Cardinality(S \cup T) = Cardinality(S) + Cardinality(T)
<1>1. Cardinality(S \cap T) = 0
  BY FS_EmptySet, Zenon
<1>2. Cardinality(S) \in Nat /\ Cardinality(T) \in Nat
  BY FS_CardinalityType
<1>3. IsFiniteSet(S \cup T)
  BY FS_Union
<1>4. Cardinality(S \cup T) = Cardinality(S) + Cardinality(T) - Cardinality(S \cap T)
  BY FS_Union
<1> QED BY <1>1, <1>2, <1>3, <1>4

LEMMA PairsOfOneMore ==
  ASSUME NEW f, NEW S, NEW x, x \notin S, f[x] \in Nat, IsFiniteSet(Pairs(f, S))
  PROVE  /\ IsFiniteSet(Pairs(f, S \cup {x}))
         /\ Cardinality(Pairs(f, S \cup {x})) = f[x] + Cardinality(Pairs(f, S))
<1> DEFINE more == {x} \X (1 .. f[x])
<1>1. IsFiniteSet(more) /\ Cardinality(more) = f[x]
  BY Column
<1>2. Pairs(f, S \cup {x}) = Pairs(f, S) \cup more
  BY DEF Pairs
<1>3. Pairs(f, S) \cap more = {}
  <2>1. \A y : \A p \in {y} \X (1 .. f[y]) : p[1] = y
    OBVIOUS
  <2> QED BY <2>1 DEF Pairs
<1>4. Cardinality(Pairs(f, S)) \in Nat
  BY FS_CardinalityType
<1> HIDE DEF more
<1>5. IsFiniteSet(Pairs(f, S) \cup more) /\ Cardinality(Pairs(f, S) \cup more) = Cardinality(Pairs(f, S)) + Cardinality(more)
  BY <1>1, <1>3, Disjoint
<1>6. \A m, n \in Nat : m + n = n + m
  OBVIOUS
<1>7. Cardinality(Pairs(f, S)) + f[x] = f[x] + Cardinality(Pairs(f, S))
  BY <1>4, <1>6
<1> QED BY <1>1, <1>2, <1>5, <1>7, Zenon

\* A property of subsets of a finite set fails first on a smallest one.
LEMMA Smallest ==
  ASSUME NEW S, IsFiniteSet(S), NEW Bad \in SUBSET SUBSET S, Bad # {}
  PROVE  \E s \in Bad : \A t \in Bad : ~(t \subseteq s /\ t # s)
<1> DEFINE Sizes == {Cardinality(s) : s \in Bad}
<1>1. \A s \in Bad : IsFiniteSet(s) /\ Cardinality(s) \in Nat
  <2>1. \A s \in Bad : s \in SUBSET S
    BY Zenon
  <2> QED BY <2>1, FS_Subset, FS_CardinalityType
<1>2. Sizes \subseteq Nat /\ Sizes # {}
  BY <1>1
<1>3. PICK n \in Sizes : \A m \in Sizes : ~(m < n)
  <2> HIDE DEF Sizes
  <2>1. PICK n \in Sizes : \A m \in Sizes : <<m, n>> \notin OpToRel(<, Nat)
    BY <1>2, WFMin, NatLessThanWellFounded, Zenon
  <2>2. \A m \in Sizes : ~(m < n)
    BY <1>2, <2>1, Zenon DEF OpToRel
  <2> QED BY <2>2
<1>4. PICK s \in Bad : Cardinality(s) = n
  BY <1>3
<1>5. ASSUME NEW t \in Bad, t \subseteq s, t # s PROVE FALSE
  <2>1. Cardinality(t) < Cardinality(s)
    BY <1>1, <1>5, FS_Subset
  <2>2. Cardinality(t) \in Sizes
    OBVIOUS
  <2> QED BY <1>3, <1>4, <2>1, <2>2
<1> QED BY <1>5

LEMMA SumCounts ==
  ASSUME NEW f, NEW S, IsFiniteSet(S), \A x \in S : f[x] \in Nat
  PROVE  /\ IsFiniteSet(Pairs(f, S))
         /\ SumFunctionOnSet(f, S) = Cardinality(Pairs(f, S))
<1> DEFINE Step(g) == [s \in SUBSET S |-> IF s = {} THEN 0 ELSE LET x == CHOOSE x \in s : TRUE IN f[x] + g[s \ {x}]]
           counts == [s \in SUBSET S |-> Cardinality(Pairs(f, s))]
           iter == CHOOSE g : g = Step(g)
           Any(s) == CHOOSE x \in s : TRUE
<1>1. SumFunctionOnSet(f, S) = iter[S]
  BY DEF SumFunctionOnSet, FoldFunctionOnSet, MapThenFoldSet
<1>2. \A s \in SUBSET S : IsFiniteSet(Pairs(f, s))
  <2> DEFINE Bad == {s \in SUBSET S : ~IsFiniteSet(Pairs(f, s))}
  <2>1. ASSUME NEW s \in Bad, \A t \in Bad : ~(t \subseteq s /\ t # s) PROVE FALSE
    <3>1. s # {}
      BY PairsOfNone, FS_EmptySet
    <3>2. PICK x \in s : TRUE
      BY <3>1
    <3>3. s \ {x} \in SUBSET S /\ s \ {x} \subseteq s /\ s \ {x} # s /\ (s \ {x}) \cup {x} = s /\ x \notin s \ {x} /\ x \in S
      BY <3>2
    <3>4. IsFiniteSet(Pairs(f, s \ {x}))
      BY <2>1, <3>3
    <3>5. IsFiniteSet(Pairs(f, (s \ {x}) \cup {x}))
      BY <3>3, <3>4, PairsOfOneMore
    <3> QED BY <3>3, <3>5
  <2> HIDE DEF Bad
  <2>2. Bad = {}
    <3>1. Bad \in SUBSET SUBSET S
      BY DEF Bad
    <3> QED BY <2>1, <3>1, Smallest
  <2> QED BY <2>2 DEF Bad
<1>3. ASSUME NEW s \in SUBSET S, s # {}
      PROVE  Any(s) \in s /\ Cardinality(Pairs(f, s)) = f[Any(s)] + Cardinality(Pairs(f, s \ {Any(s)}))
  <2>1. Any(s) \in s
    BY <1>3
  <2> DEFINE x == Any(s)
  <2> HIDE DEF x
  <2>2. x \in s
    BY <2>1 DEF x
  <2>3. s \ {x} \in SUBSET S /\ (s \ {x}) \cup {x} = s /\ x \notin s \ {x} /\ x \in S
    BY <2>2
  <2>4. Cardinality(Pairs(f, (s \ {x}) \cup {x})) = f[x] + Cardinality(Pairs(f, s \ {x}))
    BY <1>2, <2>3, PairsOfOneMore
  <2> QED BY <2>1, <2>3, <2>4 DEF x
<1>4. Cardinality(Pairs(f, {})) = 0
  BY PairsOfNone, FS_EmptySet
<1>5. counts = Step(counts)
  <2>1. ASSUME NEW s \in SUBSET S PROVE counts[s] = Step(counts)[s]
    <3>1. CASE s = {}
      BY <3>1, <1>4
    <3>2. CASE s # {}
      <4>1. s \ {Any(s)} \in SUBSET S
        OBVIOUS
      <4> QED BY <3>2, <1>3, <4>1
    <3> QED BY <3>1, <3>2
  <2> QED BY <2>1
<1>6. iter = Step(iter)
  <2> HIDE DEF counts, Step
  <2> QED BY <1>5
<1> HIDE DEF iter
<1>7. /\ iter[{}] = 0
      /\ \A s \in SUBSET S : s # {} => iter[s] = f[Any(s)] + iter[s \ {Any(s)}]
  BY <1>6, Zenon
<1>8. \A s \in SUBSET S : iter[s] = Cardinality(Pairs(f, s))
  <2> DEFINE Bad == {s \in SUBSET S : iter[s] # Cardinality(Pairs(f, s))}
  <2>1. ASSUME NEW s \in Bad, \A t \in Bad : ~(t \subseteq s /\ t # s) PROVE FALSE
    <3>1. s # {}
      BY <1>4, <1>7
    <3>2. Any(s) \in s /\ Cardinality(Pairs(f, s)) = f[Any(s)] + Cardinality(Pairs(f, s \ {Any(s)}))
      BY <1>3, <3>1
    <3>3. s \ {Any(s)} \in SUBSET S /\ s \ {Any(s)} \subseteq s /\ s \ {Any(s)} # s
      BY <3>2
    <3>4. iter[s \ {Any(s)}] = Cardinality(Pairs(f, s \ {Any(s)}))
      BY <2>1, <3>3
    <3> QED BY <1>7, <3>1, <3>2, <3>4
  <2> HIDE DEF Bad
  <2>2. Bad = {}
    <3>1. Bad \in SUBSET SUBSET S
      BY DEF Bad
    <3> QED BY <2>1, <3>1, Smallest
  <2> QED BY <2>2 DEF Bad
<1> QED BY <1>1, <1>2, <1>8

(* What the proofs use of sums.                                            *)
LEMMA SumOfNone ==
  ASSUME NEW f
  PROVE  SumFunctionOnSet(f, {}) = 0
<1>1. IsFiniteSet({}) /\ \A x \in {} : f[x] \in Nat
  BY FS_EmptySet
<1>2. SumFunctionOnSet(f, {}) = Cardinality(Pairs(f, {}))
  BY <1>1, SumCounts
<1> QED BY <1>2, PairsOfNone, FS_EmptySet

LEMMA SumNatural ==
  ASSUME NEW f, NEW S, IsFiniteSet(S), \A x \in S : f[x] \in Nat
  PROVE  SumFunctionOnSet(f, S) \in Nat
BY SumCounts, FS_CardinalityType

LEMMA SumOfOneMore ==
  ASSUME NEW f, NEW S, IsFiniteSet(S), NEW x, x \notin S, \A y \in S \cup {x} : f[y] \in Nat
  PROVE  SumFunctionOnSet(f, S \cup {x}) = f[x] + SumFunctionOnSet(f, S)
<1>1. IsFiniteSet(S \cup {x})
  BY FS_AddElement
<1>2. IsFiniteSet(Pairs(f, S)) /\ SumFunctionOnSet(f, S) = Cardinality(Pairs(f, S))
  BY SumCounts
<1>3. SumFunctionOnSet(f, S \cup {x}) = Cardinality(Pairs(f, S \cup {x}))
  BY <1>1, SumCounts
<1>4. Cardinality(Pairs(f, S \cup {x})) = f[x] + Cardinality(Pairs(f, S))
  BY <1>2, PairsOfOneMore
<1> QED BY <1>2, <1>3, <1>4

LEMMA SumOfSame ==
  ASSUME NEW f, NEW g, NEW S, IsFiniteSet(S), \A x \in S : f[x] \in Nat /\ g[x] = f[x]
  PROVE  SumFunctionOnSet(g, S) = SumFunctionOnSet(f, S)
<1>1. SumFunctionOnSet(f, S) = Cardinality(Pairs(f, S))
  BY SumCounts
<1>2. SumFunctionOnSet(g, S) = Cardinality(Pairs(g, S))
  <2>1. \A x \in S : g[x] \in Nat
    OBVIOUS
  <2> QED BY <2>1, SumCounts
<1>3. Pairs(g, S) = Pairs(f, S)
  BY DEF Pairs
<1> QED BY <1>1, <1>2, <1>3

LEMMA SumOfPart ==
  ASSUME NEW f, NEW S, IsFiniteSet(S), \A x \in S : f[x] \in Nat, NEW T \in SUBSET S
  PROVE  SumFunctionOnSet(f, T) <= SumFunctionOnSet(f, S)
<1>1. IsFiniteSet(T) /\ \A x \in T : f[x] \in Nat
  BY FS_Subset
<1>2. IsFiniteSet(Pairs(f, S)) /\ SumFunctionOnSet(f, S) = Cardinality(Pairs(f, S))
  BY SumCounts
<1>3. SumFunctionOnSet(f, T) = Cardinality(Pairs(f, T))
  BY <1>1, SumCounts
<1>4. Pairs(f, T) \in SUBSET Pairs(f, S)
  BY DEF Pairs
<1> QED BY <1>2, <1>3, <1>4, FS_Subset

\* An element of no weight is given one.
LEMMA SumOfNew ==
  ASSUME NEW f, NEW g, NEW S, IsFiniteSet(S), NEW x \in S, \A y \in S : f[y] \in Nat /\ g[y] \in Nat,
         f[x] = 0, \A y \in S \ {x} : g[y] = f[y]
  PROVE  SumFunctionOnSet(g, S) = SumFunctionOnSet(f, S) + g[x]
<1> DEFINE rest == S \ {x}
<1>1. rest \cup {x} = S /\ x \notin rest /\ IsFiniteSet(rest)
  BY FS_RemoveElement
<1>2. \A y \in rest : f[y] \in Nat /\ g[y] = f[y]
  OBVIOUS
<1> HIDE DEF rest
<1>3. SumFunctionOnSet(g, rest) = SumFunctionOnSet(f, rest)
  BY <1>1, <1>2, SumOfSame
<1>4. SumFunctionOnSet(g, rest \cup {x}) = g[x] + SumFunctionOnSet(g, rest)
  BY <1>1, SumOfOneMore
<1>5. SumFunctionOnSet(f, rest \cup {x}) = f[x] + SumFunctionOnSet(f, rest)
  BY <1>1, SumOfOneMore
<1>6. SumFunctionOnSet(f, rest) \in Nat
  BY <1>1, <1>2, SumNatural
<1> QED
  <2>1. PICK m \in Nat : m = SumFunctionOnSet(f, rest)
    BY <1>6
  <2>2. PICK n \in Nat : n = g[x]
    OBVIOUS
  <2>3. SumFunctionOnSet(f, S) = 0 + m /\ SumFunctionOnSet(g, S) = n + m
    BY <1>1, <1>3, <1>4, <1>5, <2>1, <2>2
  <2> QED BY <2>2, <2>3

(***************************************************************************)
(* The invariant.  The event in the listener's hands, if any, is the first *)
(* of those on their way.                                                  *)
(***************************************************************************)
Queue == IF hand = NoHand THEN events ELSE <<hand.event>> \o events
Places == 1 .. Len(Queue)

Listening == stage \in {"set", "loading"}
Addresses == Url \cup {PageURL}
Reasons == {"failed", "http_status"}
Row == [by : Nat, doc : BOOLEAN, url : Addresses, bytes : Nat,
        status : {"unsent", "loading", "finished", "failed", "aborted"}, bad : BOOLEAN, hopped : BOOLEAN]
Failures == [request : Request, url : Addresses, reason : Reasons, first : BOOLEAN]
Collectors == [urls : [Request -> SUBSET Addresses], received : [Request -> Nat], count : Nat, weight : Nat,
               network : Seq(Failures)]
Events ==
  [type : {"sent"}, request : Request, url : Addresses, hop : BOOLEAN]
    \cup [type : {"data"}, request : Request, nth : Nat]
    \cup [type : {"response"}, request : Request, url : Addresses]
    \cup [type : {"finished"}, request : Request, total : Nat]
    \cup [type : {"failed"}, request : Request, aborted : BOOLEAN]
Results == [count : Nat, weight : Nat, network : Seq(Failures)]

Typed ==
  /\ at \in 0 .. Captures
  /\ stage \in {"idle", "set", "loading", "read"}
  /\ cur = IF stage = "idle" THEN 0 ELSE at
  /\ live \in Nat
  /\ stray \in BOOLEAN
  /\ collector \in Collectors
  /\ results \in [1 .. Captures -> Results]
  /\ wire \in [Request -> Row]
  /\ events \in Seq(Events)
  /\ hand = NoHand \/ (hand.type = "event" /\ hand.event \in Events /\ hand.to \in Nat)

\* Which capture a request or an event can be of.
Placed ==
  /\ stage = "idle" => collector = Fresh
  /\ live <= at /\ (stage = "set" => live # at) /\ (stage = "loading" => live = at)
  /\ Listening => at # 0 /\ results[at] = Nothing
  /\ \A k \in 1 .. Captures : k > at => results[k] = Nothing
  /\ \A r \in Request : /\ wire[r].by <= at /\ (stage = "set" => wire[r].by # at)
                        /\ wire[r] = Unsent <=> wire[r].status = "unsent"
                        /\ wire[r].status # "unsent" => wire[r].by # 0
  /\ hand # NoHand => hand.to <= at

\* What the events on their way say agrees with what became of the request.
Kind(ev) ==
  IF ev.type = "sent" THEN (IF ev.hop THEN "hop" ELSE "sent")
  ELSE IF ev.type = "failed" /\ ev.aborted THEN "aborted" ELSE ev.type

Told(ev, w) ==
  /\ w.status # "unsent"
  /\ \/ Kind(ev) = "sent" /\ ev.type = "sent" /\ ev.hop = FALSE /\ ev.url \in Addresses /\ (w.hopped \/ ev.url = w.url)
     \/ Kind(ev) = "hop" /\ ev.type = "sent" /\ ev.hop = TRUE /\ w.hopped /\ ev.url = w.url
     \/ Kind(ev) = "data" /\ ev.type = "data" /\ ev.nth \in 1 .. w.bytes
     \/ Kind(ev) = "finished" /\ ev.type = "finished" /\ w.status = "finished" /\ ev.total = (IF w.doc THEN 0 ELSE w.bytes)
     \/ Kind(ev) = "response" /\ ev.type = "response" /\ w.bad /\ ev.url = w.url
     \/ Kind(ev) = "failed" /\ ev.type = "failed" /\ ev.aborted = FALSE /\ w.status = "failed"
     \/ Kind(ev) = "aborted" /\ ev.type = "failed" /\ ev.aborted = TRUE /\ w.status = "aborted"

Before(a, b) ==
  /\ Kind(a) \notin {"finished", "failed", "aborted"}
  /\ Kind(b) # "sent"
  /\ Kind(b) = "hop" => Kind(a) = "sent"
  /\ Kind(a) = "data" /\ Kind(b) = "data" => a.nth < b.nth
  /\ ~(Kind(a) = "response" /\ Kind(b) = "response")

InOrder ==
  /\ \A i \in Places : Queue[i].request \in Request /\ Told(Queue[i], wire[Queue[i].request])
  /\ \A i, j \in Places : i < j /\ Queue[i].request = Queue[j].request => Before(Queue[i], Queue[j])
  /\ \A i \in Places : Kind(Queue[i]) = "sent" /\ wire[Queue[i].request].hopped =>
       \E j \in Places : Queue[j].request = Queue[i].request /\ Kind(Queue[j]) = "hop"

\* No chunk is counted twice.
Counted ==
  \A r \in Request :
    /\ collector.received[r] <= wire[r].bytes
    /\ \A i \in Places : Queue[i].request = r /\ Kind(Queue[i]) = "data" => collector.received[r] < Queue[i].nth

\* The requests of which something has happened and been handed over.
Reached(w, kind) ==
  \/ kind = "sent" /\ w.status # "unsent"
  \/ kind = "finished" /\ w.status = "finished"
  \/ kind = "failed" /\ w.status = "failed"
  \/ kind = "response" /\ w.bad
Pending(r, kind) == \E i \in Places : Queue[i].request = r /\ Kind(Queue[i]) = kind
Taken(kind) == {r \in Request : Reached(wire[r], kind) /\ ~Pending(r, kind)}
Mine(kind) == Taken(kind) \cap Of(at)

\* All that is or may yet be reported was handed over.
Charged ==
  /\ Total("weight") + (IF Listening THEN collector.weight ELSE 0) <= Bytes(Taken("finished"))
  /\ Total("count") + (IF Listening THEN collector.count ELSE 0) <= Cardinality(Taken("sent"))

Behind(e) == IF e.reason = "failed" THEN "failed" ELSE "response"
Same(e, f) == e.request = f.request /\ e.reason = f.reason
Report(k, i) == results[k].network[i]
ReportedOnce ==
  /\ \A k \in 1 .. Captures : \A i \in DOMAIN results[k].network :
       /\ Report(k, i).request \in Taken(Behind(Report(k, i)))
       /\ \A l \in 1 .. Captures : \A j \in DOMAIN results[l].network : Same(Report(k, i), Report(l, j)) => k = l /\ i = j
  /\ Listening => \A i \in DOMAIN collector.network :
       /\ collector.network[i].request \in Taken(Behind(collector.network[i]))
       /\ \A j \in DOMAIN collector.network : Same(collector.network[i], collector.network[j]) => i = j
       /\ \A k \in 1 .. Captures : \A j \in DOMAIN results[k].network : ~Same(collector.network[i], Report(k, j))

\* A page none of whose events went astray.
Straight == Listening /\ ~stray
Faithful ==
  /\ hand # NoHand => (hand.to = at <=> wire[hand.event.request].by = at)
  /\ collector.count = Cardinality(Mine("sent"))
  /\ collector.weight = Bytes(Mine("finished"))
  /\ Len(collector.network) = Cardinality(Mine("failed")) + Cardinality(Mine("response"))
  /\ \A i \in DOMAIN collector.network :
       LET e == collector.network[i] IN e.request \in Of(at) /\ e.url = wire[e.request].url
  /\ \A r \in Of(at) :
       /\ ~Pending(r, "sent") /\ ~Pending(r, "hop") => collector.urls[r] = {wire[r].url}
       /\ r \notin Taken("finished") => \A n \in (collector.received[r] + 1) .. wire[r].bytes :
            \E i \in Places : Queue[i].request = r /\ Kind(Queue[i]) = "data" /\ Queue[i].nth = n

Inv == Typed /\ Placed /\ InOrder /\ Counted /\ Charged /\ ReportedOnce /\ (Straight => Faithful)

(***************************************************************************)
(* The queue moves in three ways: not at all, by one event at its tail, or *)
(* by the one at its head.                                                 *)
(***************************************************************************)
Grown(ev) ==
  /\ Len(Queue') = Len(Queue) + 1
  /\ \A i \in Places : Queue'[i] = Queue[i]
  /\ Queue'[Len(Queue) + 1] = ev
Shifted ==
  /\ Len(Queue') = Len(Queue) - 1
  /\ \A i \in Places' : Queue'[i] = Queue[i + 1]

LEMMA Lengths == Typed => Len(Queue) \in Nat
<1> SUFFICES ASSUME Typed PROVE Len(Queue) \in Nat
  OBVIOUS
<1>1. CASE hand = NoHand
  BY <1>1 DEF Typed, Queue
<1>2. CASE hand # NoHand
  <2>1. <<hand.event>> \o events \in Seq(Events)
    BY <1>2 DEF Typed
  <2> QED BY <1>2, <2>1 DEF Queue
<1> QED BY <1>1, <1>2

LEMMA ConsFacts ==
  ASSUME NEW E, NEW e \in E, NEW s \in Seq(E)
  PROVE  /\ Len(<<e>> \o s) = Len(s) + 1
         /\ (<<e>> \o s)[1] = e
         /\ \A i \in 1 .. Len(s) : (<<e>> \o s)[i + 1] = s[i]
OBVIOUS

LEMMA LookUpKeeps ==
  ASSUME Typed, LookUp
  PROVE  Queue' = Queue
<1>1. hand = NoHand /\ hand' = [type |-> "event", event |-> Head(events), to |-> cur] /\ events' = Tail(events) /\ events # <<>>
  BY DEF LookUp
<1>2. hand'.type = "event" /\ hand'.event = Head(events) /\ NoHand.type = "none"
  BY <1>1 DEF NoHand
<1>3. hand' # NoHand
  BY <1>2
<1>4. <<Head(events)>> \o Tail(events) = events
  BY <1>1 DEF Typed
<1> QED BY <1>1, <1>2, <1>3, <1>4 DEF Queue

LEMMA HandOverShifts ==
  ASSUME Typed, HandOver
  PROVE  Shifted /\ Queue[1] = hand.event /\ Len(Queue) >= 1
<1>1. hand # NoHand /\ hand' = NoHand /\ events' = events
  BY DEF HandOver, browser
<1>2. Queue = <<hand.event>> \o events /\ Queue' = events
  BY <1>1 DEF Queue
<1>3. hand.event \in Events /\ events \in Seq(Events)
  BY <1>1 DEF Typed
<1> HIDE DEF Events, Queue
<1>4. Len(events) \in Nat
  BY <1>3
<1>5. /\ Len(Queue) = Len(events) + 1
      /\ Queue[1] = hand.event
      /\ \A i \in 1 .. Len(events) : Queue[i + 1] = events[i]
  BY <1>2, <1>3, ConsFacts
<1> QED BY <1>2, <1>4, <1>5 DEF Shifted, Places

LEMMA HandFirst ==
  ASSUME Typed, hand # NoHand
  PROVE  1 \in Places /\ Queue[1] = hand.event
<1>1. Queue = <<hand.event>> \o events
  BY DEF Queue
<1>2. hand.event \in Events /\ events \in Seq(Events)
  BY DEF Typed
<1> HIDE DEF Events, Queue
<1>3. Len(events) \in Nat
  BY <1>2
<1>4. Len(Queue) = Len(events) + 1 /\ Queue[1] = hand.event
  BY <1>1, <1>2, ConsFacts
<1> QED BY <1>3, <1>4 DEF Places

LEMMA SendGrows ==
  ASSUME Typed, NEW ev \in Events, Send(ev), hand' = hand
  PROVE  Grown(ev)
<1>1. events' = Append(events, ev)
  BY DEF Send
<1>2. CASE hand = NoHand
  BY <1>1, <1>2 DEF Queue, Typed, Grown, Places
<1>3. CASE hand # NoHand
  <2>1. Queue = <<hand.event>> \o events /\ Queue' = <<hand.event>> \o Append(events, ev)
    BY <1>1, <1>3 DEF Queue
  <2>2. hand.event \in Events /\ events \in Seq(Events)
    BY <1>3 DEF Typed
  <2> DEFINE e == hand.event
  <2> HIDE DEF Events, Queue, e
  <2>3. <<e>> \o Append(events, ev) = Append(<<e>> \o events, ev) /\ <<e>> \o events \in Seq(Events)
    BY <2>2 DEF e
  <2>4. Queue' = Append(Queue, ev) /\ Queue \in Seq(Events)
    BY <2>1, <2>3 DEF e
  <2> QED BY <2>4 DEF Grown, Places
<1> QED BY <1>2, <1>3

(***************************************************************************)
(* What becomes of the events on their way when the browser adds one, ev,  *)
(* of request r, which is then as w says, and when one is handed over.     *)
(***************************************************************************)
Kinds == {"sent", "finished", "failed", "response"}

\* Told of a request that moves on: what was said of it still holds, and ev
\* comes after all of it.
Added(r, w, ev) ==
  /\ Grown(ev)
  /\ r \in Request /\ w \in Row /\ ev.request = r /\ Told(ev, w)
  /\ wire' = [wire EXCEPT ![r] = w]
  /\ \A i \in Places : Queue[i].request = r => Told(Queue[i], w) /\ Before(Queue[i], ev)
  /\ \A kind \in Kinds : Reached(w, kind) <=> (Reached(wire[r], kind) \/ Kind(ev) = kind)
  /\ \A kind \in Kinds : Kind(ev) = kind => ~Reached(wire[r], kind)
  /\ Kind(ev) = "sent" => ~w.hopped
  /\ w.hopped => wire[r].hopped \/ Kind(ev) = "hop"

LEMMA WireAfter ==
  ASSUME Typed, NEW r, NEW w, NEW ev, Added(r, w, ev)
  PROVE  \A x \in Request : wire'[x] = IF x = r THEN w ELSE wire[x]
BY DEF Typed, Added

LEMMA AddedOrder ==
  ASSUME Typed, InOrder, NEW r, NEW w, NEW ev, Added(r, w, ev)
  PROVE  InOrder'
<1> DEFINE n == Len(Queue)
<1>1. n \in Nat /\ Len(Queue') = n + 1 /\ Queue'[n + 1] = ev /\ \A i \in 1 .. n : Queue'[i] = Queue[i]
  BY Lengths DEF Added, Grown, Places
<1>2. /\ r \in Request /\ ev.request = r /\ Told(ev, w)
      /\ \A i \in 1 .. n : Queue[i].request = r => Told(Queue[i], w) /\ Before(Queue[i], ev)
      /\ Kind(ev) = "sent" => ~w.hopped
      /\ w.hopped => wire[r].hopped \/ Kind(ev) = "hop"
  BY DEF Added, Places
<1>3. \A x \in Request : wire'[x] = IF x = r THEN w ELSE wire[x]
  BY WireAfter
<1>4. /\ \A i \in 1 .. n : Queue[i].request \in Request /\ Told(Queue[i], wire[Queue[i].request])
      /\ \A i, j \in 1 .. n : i < j /\ Queue[i].request = Queue[j].request => Before(Queue[i], Queue[j])
      /\ \A i \in 1 .. n : Kind(Queue[i]) = "sent" /\ wire[Queue[i].request].hopped =>
           \E j \in 1 .. n : Queue[j].request = Queue[i].request /\ Kind(Queue[j]) = "hop"
  BY DEF InOrder, Places
<1> HIDE DEF n
<1> DEFINE Q == Queue'
<1>5. \A i \in 1 .. n + 1 : (i \in 1 .. n /\ Q[i] = Queue[i]) \/ (i = n + 1 /\ Q[i] = ev)
  BY <1>1
<1>6. \A i \in 1 .. n : i \in 1 .. n + 1 /\ Q[i] = Queue[i]
  BY <1>1
<1>7. n + 1 \in 1 .. n + 1 /\ Q[n + 1] = ev
  BY <1>1
<1> HIDE DEF Q
<1>8. \A i \in 1 .. n + 1 : Q[i].request \in Request /\ Told(Q[i], wire'[Q[i].request])
  BY <1>2, <1>3, <1>4, <1>5
<1>9. \A i, j \in 1 .. n + 1 : i < j /\ Q[i].request = Q[j].request => Before(Q[i], Q[j])
  <2> TAKE i, j \in 1 .. n + 1
  <2> HAVE i < j /\ Q[i].request = Q[j].request
  <2>1. i \in 1 .. n
    BY <1>1
  <2>2. CASE j \in 1 .. n
    BY <1>4, <1>6, <2>1, <2>2
  <2>3. CASE j = n + 1
    BY <1>2, <1>6, <1>7, <2>1, <2>3
  <2> QED BY <1>5, <2>2, <2>3
<1>10. ASSUME NEW i \in 1 .. n + 1, Kind(Q[i]) = "sent", wire'[Q[i].request].hopped
       PROVE  \E j \in 1 .. n + 1 : Q[j].request = Q[i].request /\ Kind(Q[j]) = "hop"
  <2>1. CASE Q[i].request = r /\ Kind(ev) = "hop"
    BY <1>2, <1>7, <2>1
  <2>2. CASE i = n + 1
    BY <1>2, <1>3, <1>7, <1>10, <2>2
  <2>3. CASE i \in 1 .. n /\ ~(Q[i].request = r /\ Kind(ev) = "hop")
    <3>1. Q[i] = Queue[i] /\ Queue[i].request \in Request
      BY <1>4, <1>6, <2>3
    <3>2. wire[Queue[i].request].hopped
      BY <1>2, <1>3, <1>10, <2>3, <3>1
    <3>3. PICK j \in 1 .. n : Queue[j].request = Queue[i].request /\ Kind(Queue[j]) = "hop"
      BY <1>4, <1>10, <2>3, <3>1, <3>2
    <3> QED BY <1>6, <3>1, <3>3
  <2> QED BY <1>5, <2>1, <2>2, <2>3
<1>11. Places' = 1 .. n + 1
  BY <1>1 DEF Places
<1> QED BY <1>8, <1>9, <1>10, <1>11 DEF InOrder, Q

\* Nothing is handed over when an event is added.
LEMMA AddedTaken ==
  ASSUME Typed, NEW r, NEW w, NEW ev, Added(r, w, ev), NEW kind \in Kinds
  PROVE  Taken(kind)' = Taken(kind)
<1> DEFINE n == Len(Queue)
<1>1. n \in Nat /\ Len(Queue') = n + 1 /\ Queue'[n + 1] = ev /\ \A i \in 1 .. n : Queue'[i] = Queue[i]
  BY Lengths DEF Added, Grown, Places
<1>2. /\ r \in Request /\ ev.request = r
      /\ Reached(w, kind) <=> (Reached(wire[r], kind) \/ Kind(ev) = kind)
      /\ Kind(ev) = kind => ~Reached(wire[r], kind)
  BY DEF Added
<1>3. \A x \in Request : wire'[x] = IF x = r THEN w ELSE wire[x]
  BY WireAfter
<1>4. Places = 1 .. n /\ Places' = 1 .. n + 1
  BY <1>1 DEF Places
<1> HIDE DEF n
<1> DEFINE Q == Queue'
<1>5. \A i \in 1 .. n + 1 : (i \in 1 .. n /\ Q[i] = Queue[i]) \/ (i = n + 1 /\ Q[i] = ev)
  BY <1>1
<1>6. \A i \in 1 .. n : i \in 1 .. n + 1 /\ Q[i] = Queue[i]
  BY <1>1
<1>7. n + 1 \in 1 .. n + 1 /\ Q[n + 1] = ev
  BY <1>1
<1> HIDE DEF Q
<1>8. \A x : Pending(x, kind)' <=> \E i \in 1 .. n + 1 : Q[i].request = x /\ Kind(Q[i]) = kind
  BY <1>4 DEF Pending, Q
<1>9. \A x : Pending(x, kind) <=> \E i \in 1 .. n : Queue[i].request = x /\ Kind(Queue[i]) = kind
  BY <1>4 DEF Pending
<1>10. \A x : Pending(x, kind)' <=> (Pending(x, kind) \/ (x = r /\ Kind(ev) = kind))
  BY <1>2, <1>5, <1>6, <1>7, <1>8, <1>9
<1>11. \A x \in Request : x \in Taken(kind)' <=> Reached(wire'[x], kind) /\ ~Pending(x, kind)'
  BY DEF Taken, Reached
<1>12. \A x \in Request : x \in Taken(kind) <=> Reached(wire[x], kind) /\ ~Pending(x, kind)
  BY DEF Taken
<1>13. \A x \in Request : x \in Taken(kind)' <=> x \in Taken(kind)
  BY <1>2, <1>3, <1>10, <1>11, <1>12
<1>14. Taken(kind) \subseteq Request /\ Taken(kind)' \subseteq Request
  BY DEF Taken
<1> QED BY <1>13, <1>14

LEMMA ShiftedOrder ==
  ASSUME Typed, InOrder, Shifted, Len(Queue) >= 1, wire' = wire
  PROVE  InOrder'
<1> DEFINE n == Len(Queue)
<1>1. n \in Nat /\ n >= 1 /\ Len(Queue') = n - 1 /\ \A i \in 1 .. n - 1 : Queue'[i] = Queue[i + 1]
  BY Lengths DEF Shifted, Places
<1>2. /\ \A i \in 1 .. n : Queue[i].request \in Request /\ Told(Queue[i], wire[Queue[i].request])
      /\ \A i, j \in 1 .. n : i < j /\ Queue[i].request = Queue[j].request => Before(Queue[i], Queue[j])
      /\ \A i \in 1 .. n : Kind(Queue[i]) = "sent" /\ wire[Queue[i].request].hopped =>
           \E j \in 1 .. n : Queue[j].request = Queue[i].request /\ Kind(Queue[j]) = "hop"
  BY DEF InOrder, Places
<1> DEFINE Q == Queue'
<1>3. Places' = 1 .. n - 1
  BY <1>1 DEF Places
<1> HIDE DEF n, Q
<1>4. \A i \in 1 .. n - 1 : i + 1 \in 1 .. n /\ Q[i] = Queue[i + 1]
  BY <1>1 DEF Q
<1>5. \A i \in 1 .. n - 1 : Q[i].request \in Request /\ Told(Q[i], wire[Q[i].request])
  BY <1>2, <1>4
<1>6. \A i, j \in 1 .. n - 1 : i < j /\ Q[i].request = Q[j].request => Before(Q[i], Q[j])
  <2> TAKE i, j \in 1 .. n - 1
  <2>1. i < j => i + 1 < j + 1
    OBVIOUS
  <2> QED BY <1>2, <1>4, <2>1
<1>7. ASSUME NEW i \in 1 .. n - 1, Kind(Q[i]) = "sent", wire[Q[i].request].hopped
      PROVE  \E j \in 1 .. n - 1 : Q[j].request = Q[i].request /\ Kind(Q[j]) = "hop"
  <2>1. i + 1 \in 1 .. n /\ Q[i] = Queue[i + 1]
    BY <1>4
  <2>2. PICK j \in 1 .. n : Queue[j].request = Q[i].request /\ Kind(Queue[j]) = "hop"
    BY <1>2, <1>7, <2>1
  <2>3. j # 1
    <3>1. SUFFICES ASSUME j = 1 PROVE FALSE
      OBVIOUS
    <3>2. 1 \in 1 .. n /\ 1 < i + 1
      BY <1>1
    <3>3. Before(Queue[1], Queue[i + 1])
      BY <1>2, <2>1, <2>2, <3>1, <3>2
    <3> QED BY <1>7, <2>1, <3>3 DEF Before
  <2>4. j - 1 \in 1 .. n - 1 /\ (j - 1) + 1 = j
    BY <1>1, <2>3
  <2>5. Q[j - 1] = Queue[j]
    BY <1>4, <2>4
  <2> QED BY <2>2, <2>4, <2>5
<1> QED BY <1>3, <1>5, <1>6, <1>7 DEF InOrder, Q

\* The one at the head is no longer awaited, nor is there another of its kind.
LEMMA ShiftedPending ==
  ASSUME Typed, InOrder, Shifted, Len(Queue) >= 1, NEW kind, NEW x
  PROVE  /\ Pending(x, kind)' => Pending(x, kind)
         /\ Pending(x, kind) => Pending(x, kind)' \/ (Queue[1].request = x /\ Kind(Queue[1]) = kind)
         /\ kind \in Kinds \cup {"hop"} /\ Queue[1].request = x /\ Kind(Queue[1]) = kind => ~Pending(x, kind)'
<1> DEFINE n == Len(Queue)
           Q == Queue'
<1>1. n \in Nat /\ n >= 1 /\ Len(Queue') = n - 1 /\ \A i \in 1 .. n - 1 : Q[i] = Queue[i + 1]
  BY Lengths DEF Shifted, Places
<1>2. \A i, j \in 1 .. n : i < j /\ Queue[i].request = Queue[j].request => Before(Queue[i], Queue[j])
  BY DEF InOrder, Places
<1>3. Places' = 1 .. n - 1 /\ Places = 1 .. n
  BY <1>1 DEF Places
<1>4. Pending(x, kind)' <=> \E i \in 1 .. n - 1 : Q[i].request = x /\ Kind(Q[i]) = kind
  BY <1>3 DEF Pending
<1>5. Pending(x, kind) <=> \E i \in 1 .. n : Queue[i].request = x /\ Kind(Queue[i]) = kind
  BY <1>3 DEF Pending
<1> HIDE DEF n, Q
<1>6. \A i \in 1 .. n - 1 : i + 1 \in 1 .. n /\ Q[i] = Queue[i + 1] /\ 1 < i + 1 /\ 1 \in 1 .. n
  BY <1>1
<1>7. \A i \in 1 .. n : i = 1 \/ (i - 1 \in 1 .. n - 1 /\ Q[i - 1] = Queue[i])
  <2> TAKE i \in 1 .. n
  <2>1. CASE i # 1
    <3>1. i - 1 \in 1 .. n - 1 /\ (i - 1) + 1 = i
      BY <1>1, <2>1
    <3> QED BY <1>6, <3>1
  <2> QED BY <2>1
<1>8. Pending(x, kind)' => Pending(x, kind)
  BY <1>4, <1>5, <1>6
<1>9. Pending(x, kind) => Pending(x, kind)' \/ (Queue[1].request = x /\ Kind(Queue[1]) = kind)
  BY <1>4, <1>5, <1>7
<1>10. ASSUME kind \in Kinds \cup {"hop"}, Queue[1].request = x, Kind(Queue[1]) = kind, Pending(x, kind)'
       PROVE  FALSE
  <2>1. PICK i \in 1 .. n - 1 : Q[i].request = x /\ Kind(Q[i]) = kind
    BY <1>4, <1>10
  <2>2. Before(Queue[1], Queue[i + 1])
    BY <1>2, <1>6, <1>10, <2>1
  <2>3. Kind(Queue[i + 1]) = kind
    BY <1>6, <2>1
  <2> QED BY <1>10, <2>2, <2>3 DEF Before, Kinds
<1> QED BY <1>8, <1>9, <1>10

LEMMA ShiftedTaken ==
  ASSUME Typed, InOrder, Shifted, Len(Queue) >= 1, wire' = wire, NEW kind \in Kinds
  PROVE  /\ Kind(Queue[1]) # kind => Taken(kind)' = Taken(kind)
         /\ Kind(Queue[1]) = kind => /\ Queue[1].request \in Request \ Taken(kind)
                                     /\ Taken(kind)' = Taken(kind) \cup {Queue[1].request}
<1>1. 1 \in Places
  BY Lengths DEF Places
<1>2. Queue[1].request \in Request /\ Told(Queue[1], wire[Queue[1].request])
  BY <1>1 DEF InOrder
<1>3. \A x \in Request : x \in Taken(kind)' <=> Reached(wire[x], kind) /\ ~Pending(x, kind)'
  BY DEF Taken, Reached
<1>4. \A x \in Request : x \in Taken(kind) <=> Reached(wire[x], kind) /\ ~Pending(x, kind)
  BY DEF Taken
<1>5. Taken(kind) \subseteq Request /\ Taken(kind)' \subseteq Request
  BY DEF Taken
<1>6. CASE Kind(Queue[1]) # kind
  <2>1. \A x : Pending(x, kind)' <=> Pending(x, kind)
    BY <1>6, ShiftedPending
  <2> QED BY <1>3, <1>4, <1>5, <1>6, <2>1
<1>7. CASE Kind(Queue[1]) = kind
  <2>0. PICK r \in Request : r = Queue[1].request
    BY <1>2
  <2>1. Pending(r, kind)
    BY <1>1, <1>7, <2>0 DEF Pending
  <2>2. ~Pending(r, kind)'
    <3>1. kind \in Kinds \cup {"hop"}
      OBVIOUS
    <3> QED BY <1>7, <2>0, <3>1, ShiftedPending
  <2>3. \A x : x # r => (Pending(x, kind)' <=> Pending(x, kind))
    BY <2>0, ShiftedPending
  <2>4. Reached(wire[r], kind)
    BY <1>2, <1>7, <2>0 DEF Told, Reached, Kinds
  <2>5. r \notin Taken(kind) /\ r \in Taken(kind)'
    BY <1>3, <1>4, <2>1, <2>2, <2>4
  <2>6. \A x \in Request : x # r => (x \in Taken(kind)' <=> x \in Taken(kind))
    BY <1>3, <1>4, <2>3
  <2>7. Taken(kind)' = Taken(kind) \cup {r}
    BY <1>5, <2>5, <2>6
  <2> QED BY <1>7, <2>0, <2>5, <2>7
<1> QED BY <1>6, <1>7

(***************************************************************************)
(* A step of the browser: request r, unsent or loading, is then as w says  *)
(* and ev tells of it.                                                     *)
(***************************************************************************)
Moves(r, w, ev) ==
  /\ Added(r, w, ev) /\ events' \in Seq(Events)
  /\ wire[r].status \in {"unsent", "loading"}
  /\ IF wire[r] = Unsent THEN w.by = live' ELSE w.by = wire[r].by
  /\ \/ Kind(ev) # "data" /\ w.bytes = wire[r].bytes
     \/ Kind(ev) = "data" /\ w.bytes = wire[r].bytes + 1 /\ ev.nth = w.bytes
  /\ w.url = wire[r].url \/ (Kind(ev) \in {"sent", "hop"} /\ ~wire[r].bad)
  /\ (stage' = stage /\ live' = live /\ (wire[r] = Unsent => live # 0)) \/ (stage = "set" /\ stage' = "loading" /\ live' = at)
  /\ UNCHANGED <<at, cur, results, collector, hand, stray>>

LEMMA RowFields ==
  ASSUME NEW w \in Row
  PROVE  /\ w.by \in Nat /\ w.bytes \in Nat /\ w.url \in Addresses
         /\ w.status \in {"unsent", "loading", "finished", "failed", "aborted"}
         /\ w.doc \in BOOLEAN /\ w.bad \in BOOLEAN /\ w.hopped \in BOOLEAN
BY DEF Row

LEMMA UnsentRow ==
  /\ Unsent.status = "unsent" /\ Unsent.by = 0 /\ Unsent.bytes = 0 /\ Unsent.bad = FALSE
  /\ Unsent.hopped = FALSE /\ Unsent.url = PageURL /\ Unsent.doc = FALSE /\ Unsent \in Row
BY DEF Unsent, Row, Addresses

LEMMA MovesTyped ==
  ASSUME Inv, NEW r, NEW w, NEW ev, Moves(r, w, ev)
  PROVE  Typed'
<1>1. wire' \in [Request -> Row]
  BY DEF Inv, Typed, Moves, Added
<1>2. live' \in Nat /\ stage' \in {"idle", "set", "loading", "read"} /\ cur' = IF stage' = "idle" THEN 0 ELSE at'
  BY DEF Inv, Typed, Moves
<1> QED BY <1>1, <1>2 DEF Inv, Typed, Moves

LEMMA MovesPlaced ==
  ASSUME Inv, NEW r, NEW w, NEW ev, Moves(r, w, ev)
  PROVE  Placed'
<1>1. Typed /\ Placed /\ Added(r, w, ev)
  BY DEF Inv, Moves
<1>2. \A x \in Request : wire'[x] = IF x = r THEN w ELSE wire[x]
  BY <1>1, WireAfter
<1>3. r \in Request /\ w \in Row /\ w.status # "unsent" /\ w # Unsent
  BY <1>1, UnsentRow DEF Added, Told
<1>4. at \in Nat /\ live \in Nat
  BY <1>1 DEF Typed
<1>5. /\ live' <= at' /\ (stage' = "set" => live' # at') /\ (stage' = "loading" => live' = at')
      /\ wire[r] = Unsent => live' # 0
  <2>1. CASE stage' = stage /\ live' = live /\ (wire[r] = Unsent => live # 0)
    BY <1>1, <2>1 DEF Placed, Moves
  <2>2. CASE stage = "set" /\ stage' = "loading" /\ live' = at
    BY <1>1, <1>4, <2>2 DEF Placed, Moves, Listening
  <2> QED BY <2>1, <2>2 DEF Moves
<1>6. w.by <= at' /\ (stage' = "set" => w.by # at') /\ w.by # 0
  <2>1. at' = at /\ (stage' = "set" => stage = "set")
    BY DEF Moves
  <2>2. CASE w.by = wire[r].by /\ wire[r] # Unsent
    BY <1>1, <1>3, <2>1, <2>2 DEF Placed
  <2>3. CASE wire[r] = Unsent /\ w.by = live'
    BY <1>4, <1>5, <2>3
  <2> QED BY <2>2, <2>3 DEF Moves
<1>7. \A x \in Request : /\ wire'[x].by <= at' /\ (stage' = "set" => wire'[x].by # at')
                         /\ wire'[x] = Unsent <=> wire'[x].status = "unsent"
                         /\ wire'[x].status # "unsent" => wire'[x].by # 0
  <2>1. at' = at /\ (stage' = "set" => stage = "set")
    BY DEF Moves
  <2> QED BY <1>1, <1>2, <1>3, <1>6, <2>1 DEF Placed
<1>8. UNCHANGED <<at, results, collector, hand>> /\ (stage' = "idle" => stage = "idle") /\ (Listening' <=> Listening)
  BY DEF Moves, Listening
<1> QED BY <1>1, <1>5, <1>7, <1>8 DEF Placed

LEMMA GrownPlaces ==
  ASSUME Typed, NEW ev, Grown(ev)
  PROVE  /\ \A i \in Places' : (i \in Places /\ Queue'[i] = Queue[i]) \/ Queue'[i] = ev
         /\ \A i \in Places : i \in Places' /\ Queue'[i] = Queue[i]
         /\ Len(Queue') \in Places' /\ Queue'[Len(Queue')] = ev
<1> DEFINE n == Len(Queue)
           Q == Queue'
<1>1. n \in Nat /\ Len(Q) = n + 1 /\ Q[n + 1] = ev /\ \A i \in 1 .. n : Q[i] = Queue[i]
  BY Lengths DEF Grown, Places
<1>2. Places = 1 .. n /\ Places' = 1 .. n + 1
  BY <1>1 DEF Places
<1> HIDE DEF n, Q
<1>3. /\ \A i \in 1 .. n + 1 : (i \in 1 .. n /\ Q[i] = Queue[i]) \/ Q[i] = ev
      /\ \A i \in 1 .. n : i \in 1 .. n + 1 /\ Q[i] = Queue[i]
      /\ Len(Q) \in 1 .. n + 1 /\ Q[Len(Q)] = ev
  BY <1>1
<1> QED BY <1>2, <1>3 DEF Q

LEMMA MovesCounted ==
  ASSUME Inv, NEW r, NEW w, NEW ev, Moves(r, w, ev)
  PROVE  Counted'
<1>1. Typed /\ Placed /\ InOrder /\ Counted /\ Added(r, w, ev) /\ Grown(ev)
  BY DEF Inv, Moves, Added
<1>2. \A x \in Request : wire'[x] = IF x = r THEN w ELSE wire[x]
  BY <1>1, WireAfter
<1>3. /\ \A x \in Request : wire[x].bytes \in Nat /\ collector.received[x] \in Nat
      /\ w.bytes \in Nat /\ r \in Request /\ ev.request = r
  BY <1>1, RowFields DEF Typed, Collectors, Added
<1>4. /\ collector' = collector
      /\ w.bytes >= wire[r].bytes /\ (Kind(ev) = "data" => ev.nth = wire[r].bytes + 1)
  BY <1>3 DEF Moves
<1>5. \A x \in Request : collector'.received[x] <= wire'[x].bytes
  BY <1>1, <1>2, <1>3, <1>4 DEF Counted
<1>6. ASSUME NEW x \in Request, NEW i \in Places', Queue'[i].request = x, Kind(Queue'[i]) = "data"
      PROVE  collector'.received[x] < Queue'[i].nth
  <2>1. CASE i \in Places /\ Queue'[i] = Queue[i]
    BY <1>1, <1>4, <1>6, <2>1 DEF Counted
  <2>2. CASE Queue'[i] = ev
    <3>1. x = r /\ ev.nth = wire[r].bytes + 1 /\ collector.received[r] <= wire[r].bytes
      BY <1>1, <1>3, <1>4, <1>6, <2>2 DEF Counted
    <3>2. collector.received[r] < wire[r].bytes + 1
      BY <1>3, <3>1
    <3> QED BY <1>4, <2>2, <3>1, <3>2
  <2> QED BY <1>1, <2>1, <2>2, GrownPlaces
<1> QED BY <1>5, <1>6 DEF Counted

\* What was handed over weighs what it did.
MineBytes == Bytes(Mine("finished"))
Weights == [r \in Request |-> wire[r].bytes]

LEMMA KindsTaken ==
  /\ "sent" \in Kinds /\ "finished" \in Kinds /\ "failed" \in Kinds /\ "response" \in Kinds
  /\ Kinds = {"sent", "finished", "failed", "response"}
BY DEF Kinds

LEMMA WeightsNatural ==
  ASSUME Typed
  PROVE  \A r \in Request : Weights[r] = wire[r].bytes /\ Weights[r] \in Nat
BY RowFields DEF Typed, Weights

LEMMA RequestsFinite ==
  ASSUME NEW S \in SUBSET Request
  PROVE  IsFiniteSet(S) /\ Cardinality(S) \in Nat
BY CollectorAssumption, FS_Subset, FS_CardinalityType

LEMMA MovesCharged ==
  ASSUME Inv, NEW r, NEW w, NEW ev, Moves(r, w, ev)
  PROVE  Charged'
<1>1. Typed /\ Charged /\ Added(r, w, ev)
  BY DEF Inv, Moves
<1>2. \A x \in Request : wire'[x] = IF x = r THEN w ELSE wire[x]
  BY <1>1, WireAfter
<1>3. r \notin Taken("finished")
  BY DEF Moves, Taken, Reached
<1>4. Taken("finished")' = Taken("finished") /\ Taken("sent")' = Taken("sent")
  BY <1>1, AddedTaken, KindsTaken
<1>5. Taken("finished") \in SUBSET Request
  BY DEF Taken
<1>6. Bytes(Taken("finished"))' = Bytes(Taken("finished"))
  <2>1. \A x \in Taken("finished") : Weights[x] \in Nat /\ Weights'[x] = Weights[x]
    BY <1>1, <1>2, <1>3, <1>5, WeightsNatural DEF Weights
  <2>2. SumFunctionOnSet(Weights', Taken("finished")) = SumFunctionOnSet(Weights, Taken("finished"))
    BY <1>5, <2>1, RequestsFinite, SumOfSame
  <2> QED BY <1>4, <2>2 DEF Bytes, Weights
<1>7. results' = results /\ collector' = collector /\ (Listening' <=> Listening)
  BY DEF Moves, Listening
<1>8. Total("weight")' = Total("weight") /\ Total("count")' = Total("count")
  BY <1>7 DEF Total
<1> QED BY <1>1, <1>4, <1>6, <1>7, <1>8 DEF Charged

LEMMA MovesReported ==
  ASSUME Inv, NEW r, NEW w, NEW ev, Moves(r, w, ev)
  PROVE  ReportedOnce'
<1>1. Typed /\ ReportedOnce /\ Added(r, w, ev)
  BY DEF Inv, Moves
<1>2. Taken("failed")' = Taken("failed") /\ Taken("response")' = Taken("response")
  BY <1>1, AddedTaken, KindsTaken
<1>3. \A e : Taken(Behind(e))' = Taken(Behind(e))
  BY <1>2 DEF Behind
<1>4. results' = results /\ collector' = collector /\ (Listening' <=> Listening)
  BY DEF Moves, Listening
<1> QED BY <1>1, <1>3, <1>4 DEF ReportedOnce, Report

LEMMA MovesFaithful ==
  ASSUME Inv, NEW r, NEW w, NEW ev, Moves(r, w, ev), Straight'
  PROVE  Faithful'
<1>1. Typed /\ Placed /\ InOrder /\ Counted /\ ReportedOnce /\ Faithful /\ Listening /\ Added(r, w, ev) /\ Grown(ev)
  BY DEF Inv, Moves, Added, Straight, Listening
<1>2. \A x \in Request : wire'[x] = IF x = r THEN w ELSE wire[x]
  BY <1>1, WireAfter
<1>3. UNCHANGED <<at, collector, hand>> /\ r \in Request /\ ev.request = r /\ w \in Row
  BY DEF Moves, Added
<1>4. \A kind \in Kinds : Taken(kind)' = Taken(kind)
  BY <1>1, AddedTaken
<1>5. \A kind \in Kinds : wire[r] = Unsent => r \notin Taken(kind)
  BY UnsentRow DEF Taken, Reached, Kinds
<1>6. wire[r] # Unsent => w.by = wire[r].by
  BY DEF Moves
<1>7. \A x \in Request : x # r \/ wire[r] # Unsent => (x \in Of(at)' <=> x \in Of(at))
  BY <1>2, <1>3, <1>6 DEF Of
<1>8. \A kind \in Kinds : Mine(kind)' = Mine(kind)
  <2> TAKE kind \in Kinds
  <2>1. \A x \in Request : x \in Taken(kind) => (x \in Of(at)' <=> x \in Of(at))
    BY <1>5, <1>7
  <2>2. Taken(kind) \subseteq Request
    BY DEF Taken
  <2> QED BY <1>4, <2>1, <2>2 DEF Mine
<1>9. MineBytes' = MineBytes
  <2>1. Mine("finished") \in SUBSET Request /\ r \notin Mine("finished")
    BY DEF Mine, Taken, Moves, Reached
  <2>2. \A x \in Mine("finished") : Weights[x] \in Nat /\ Weights'[x] = Weights[x]
    BY <1>1, <1>2, <2>1, WeightsNatural DEF Weights
  <2>3. SumFunctionOnSet(Weights', Mine("finished")) = SumFunctionOnSet(Weights, Mine("finished"))
    BY <2>1, <2>2, RequestsFinite, SumOfSame
  <2>4. Mine("finished")' = Mine("finished")
    BY <1>8, KindsTaken
  <2> QED BY <2>3, <2>4 DEF Bytes, Weights, MineBytes
<1>10. /\ collector'.count = Cardinality(Mine("sent")')
       /\ collector'.weight = Bytes(Mine("finished"))'
       /\ Len(collector'.network) = Cardinality(Mine("failed")') + Cardinality(Mine("response")')
  BY <1>1, <1>3, <1>8, <1>9, KindsTaken DEF Faithful, MineBytes
\* The event in hand tells of a request that was sent.
<1>11. hand' # NoHand => (hand'.to = at' <=> wire'[hand'.event.request].by = at')
  <2> SUFFICES ASSUME hand # NoHand
               PROVE  hand.to = at <=> wire'[hand.event.request].by = at
    BY <1>3
  <2>1. 1 \in Places /\ Queue[1] = hand.event
    BY <1>1, HandFirst
  <2>2. hand.event.request \in Request /\ wire[hand.event.request].status # "unsent"
    BY <1>1, <2>1 DEF InOrder, Told
  <2>3. wire'[hand.event.request].by = wire[hand.event.request].by
    BY <1>2, <1>6, <2>2, UnsentRow
  <2> QED BY <1>1, <2>3 DEF Faithful
\* A redirect finds no failure of its request.
<1>12. \A i \in DOMAIN collector'.network :
         LET e == collector'.network[i] IN e.request \in Of(at)' /\ e.url = wire'[e.request].url
  <2> SUFFICES ASSUME NEW i \in DOMAIN collector.network, NEW e, e = collector.network[i]
               PROVE  e.request \in Of(at)' /\ e.url = wire'[e.request].url
    BY <1>3
  <2>1. e.request \in Of(at) /\ e.url = wire[e.request].url /\ e.request \in Taken(Behind(e))
    BY <1>1 DEF Faithful, ReportedOnce
  <2>2. e.request \in Request
    BY <2>1 DEF Of
  <2>3. e.request = r => wire[r].bad
    BY <2>1 DEF Moves, Taken, Behind, Reached
  <2>4. e.request = r => wire[r] # Unsent /\ w.url = wire[r].url
    BY <2>3, UnsentRow DEF Moves
  <2> QED BY <1>2, <1>7, <2>1, <2>2, <2>4
<1>13. ASSUME NEW x \in Request, x \in Of(at)'
       PROVE  /\ ~Pending(x, "sent")' /\ ~Pending(x, "hop")' => collector'.urls[x] = {wire'[x].url}
              /\ x \notin Taken("finished")' => \A n \in (collector'.received[x] + 1) .. wire'[x].bytes :
                   \E i \in Places' : Queue'[i].request = x /\ Kind(Queue'[i]) = "data" /\ Queue'[i].nth = n
  <2>1. \A kind : Pending(x, kind) => Pending(x, kind)'
    BY <1>1, GrownPlaces DEF Pending
  <2>2. \A kind : x = r /\ Kind(ev) = kind => Pending(x, kind)'
    BY <1>1, <1>3, GrownPlaces DEF Pending
  <2>3. wire[x].bytes \in Nat /\ collector.received[x] \in Nat
    BY <1>1, RowFields DEF Typed, Collectors
  <2>4. CASE x = r /\ wire[r] = Unsent
    <3>1. Kind(ev) = "sent"
      BY <1>1, <2>4, UnsentRow, KindsTaken DEF Added, Told, Reached
    <3>2. wire'[x].bytes = 0
      BY <1>2, <2>4, <3>1, UnsentRow DEF Moves
    <3> QED BY <1>3, <2>2, <2>3, <2>4, <3>1, <3>2
  <2>5. CASE x # r \/ wire[r] # Unsent
    <3>1. x \in Of(at)
      BY <1>7, <1>13, <2>5
    <3>2. ASSUME ~Pending(x, "sent")', ~Pending(x, "hop")' PROVE collector'.urls[x] = {wire'[x].url}
      <4>1. collector.urls[x] = {wire[x].url}
        BY <1>1, <2>1, <3>1, <3>2 DEF Faithful
      <4>2. x = r => w.url = wire[r].url
        BY <2>2, <3>2 DEF Moves
      <4> QED BY <1>2, <1>3, <4>1, <4>2
    <3>3. ASSUME x \notin Taken("finished"), NEW n \in (collector.received[x] + 1) .. wire'[x].bytes
          PROVE  \E i \in Places' : Queue'[i].request = x /\ Kind(Queue'[i]) = "data" /\ Queue'[i].nth = n
      <4>1. CASE n <= wire[x].bytes
        <5>1. n \in (collector.received[x] + 1) .. wire[x].bytes
          BY <2>3, <4>1
        <5>2. PICK i \in Places : Queue[i].request = x /\ Kind(Queue[i]) = "data" /\ Queue[i].nth = n
          BY <1>1, <3>1, <3>3, <5>1 DEF Faithful
        <5> QED BY <1>1, <5>2, GrownPlaces
      <4>2. CASE ~(n <= wire[x].bytes)
        <5>1. x = r /\ wire'[x] = w
          BY <1>2, <2>3, <4>2
        <5>2. Kind(ev) = "data" /\ w.bytes = wire[r].bytes + 1 /\ ev.nth = w.bytes
          BY <2>3, <4>2, <5>1 DEF Moves
        <5>3. n = ev.nth
          BY <2>3, <4>2, <5>1, <5>2
        <5> QED BY <1>1, <1>3, <5>1, <5>2, <5>3, GrownPlaces
      <4> QED BY <4>1, <4>2
    <3>4. Taken("finished")' = Taken("finished")
      BY <1>4, KindsTaken
    <3> QED BY <1>3, <3>2, <3>3, <3>4
  <2> QED BY <2>4, <2>5
<1>14. Of(at)' \subseteq Request
  BY DEF Of
<1> QED BY <1>10, <1>11, <1>12, <1>13, <1>14 DEF Faithful

LEMMA MovesInv ==
  ASSUME Inv, NEW r, NEW w, NEW ev, Moves(r, w, ev)
  PROVE  Inv'
<1>1. Typed /\ InOrder /\ Added(r, w, ev)
  BY DEF Inv, Moves
<1> QED BY <1>1, MovesTyped, MovesPlaced, AddedOrder, MovesCounted, MovesCharged, MovesReported, MovesFaithful DEF Inv

(***************************************************************************)
(* The steps of the browser, one by one.                                   *)
(***************************************************************************)
\* What is on its way of a request not yet sent, and of one that loads.
LEMMA PendingOf ==
  ASSUME Typed, InOrder, NEW r \in Request, NEW i \in Places, Queue[i].request = r
  PROVE  /\ wire[r].status # "unsent"
         /\ Told(Queue[i], wire[r])
         /\ wire[r].status = "loading" => Kind(Queue[i]) \in {"sent", "hop", "data", "response"}
BY DEF InOrder, Told

\* A request that is sent, of the document or of the page.
LEMMA IssueMoves ==
  ASSUME Inv, NEW r \in Request, wire[r] = Unsent, NEW by \in Nat, NEW u \in Addresses, NEW doc \in BOOLEAN,
         Send(Sent(r, u, FALSE)), wire' = [wire EXCEPT ![r] = Issued(r, by, u, doc)], by = live',
         (stage' = stage /\ live' = live /\ live # 0) \/ (stage = "set" /\ stage' = "loading" /\ live' = at),
         UNCHANGED <<at, cur, results, collector, hand, stray>>
  PROVE  Inv'
<1> DEFINE ev == Sent(r, u, FALSE)
           w == Issued(r, by, u, doc)
<1>1. ev \in Events /\ ev = Sent(r, u, FALSE) /\ w = Issued(r, by, u, doc)
  BY DEF Events, Sent
<1>2. Send(ev) /\ wire' = [wire EXCEPT ![r] = w]
  OBVIOUS
<1> HIDE DEF ev, w
<1>3. /\ w \in Row /\ w.by = by /\ w.url = u /\ w.status = "loading"
      /\ w.bytes = 0 /\ w.bad = FALSE /\ w.hopped = FALSE
  <2>1. w = [by |-> by, doc |-> doc, url |-> u, bytes |-> 0, status |-> "loading", bad |-> FALSE, hopped |-> FALSE]
    BY <1>1 DEF Issued, Unsent
  <2> QED BY <2>1 DEF Row
<1>4. ev.request = r /\ ev.type = "sent" /\ ev.url = u /\ ev.hop = FALSE /\ Kind(ev) = "sent"
  BY <1>1 DEF Sent, Kind
<1>5. Typed /\ InOrder /\ Grown(ev) /\ events' \in Seq(Events)
  <2>1. Typed /\ InOrder /\ hand' = hand
    BY DEF Inv
  <2>2. events' = Append(events, ev) /\ events \in Seq(Events)
    BY <1>2, <2>1 DEF Send, Typed
  <2> HIDE DEF Events
  <2>3. Grown(ev)
    BY <1>1, <1>2, <2>1, SendGrows
  <2>4. events' \in Seq(Events)
    <3>1. ev \in Events
      BY <1>1
    <3> QED BY <2>2, <3>1
  <2> QED BY <2>1, <2>3, <2>4
<1>6. \A i \in Places : Queue[i].request # r
  BY <1>5, PendingOf, UnsentRow
<1>7. Told(ev, w)
  BY <1>3, <1>4 DEF Told
<1>8. \A kind \in Kinds : /\ ~Reached(wire[r], kind)
                          /\ Reached(w, kind) <=> kind = "sent"
  BY <1>3, UnsentRow DEF Reached, Kinds
<1>9. Added(r, w, ev)
  BY <1>2, <1>3, <1>4, <1>5, <1>6, <1>7, <1>8 DEF Added
<1>10. Moves(r, w, ev)
  BY <1>3, <1>4, <1>5, <1>9, UnsentRow DEF Moves
<1> QED BY <1>10, MovesInv

LEMMA NavigateInv ==
  ASSUME Inv, NEW r \in Request, Navigate(r)
  PROVE  Inv'
<1>1. at \in Nat /\ PageURL \in Addresses
  BY DEF Inv, Typed, Addresses
<1> QED BY <1>1, IssueMoves DEF Navigate

LEMMA IssueInv ==
  ASSUME Inv, NEW r \in Request, Issue(r), UNCHANGED <<live, capture, collector, hand, stray>>
  PROVE  Inv'
<1>1. live \in Nat
  BY DEF Inv, Typed
<1>2. PICK u \in Url : Send(Sent(r, u, FALSE)) /\ wire' = [wire EXCEPT ![r] = Issued(r, live, u, FALSE)]
  BY DEF Issue
<1>3. u \in Addresses
  BY DEF Addresses
<1> QED BY <1>1, <1>2, <1>3, IssueMoves DEF Issue, capture

\* A step of a request that loads.
LEMMA LoadingMoves ==
  ASSUME Inv, NEW r \in Request, Loading(r), NEW ev \in Events, NEW w \in Row,
         Send(ev), wire' = [wire EXCEPT ![r] = w], UNCHANGED <<live, capture, collector, hand, stray>>,
         ev.request = r, Told(ev, w), Kind(ev) # "sent", w.by = wire[r].by,
         \A i \in Places : Queue[i].request = r => Told(Queue[i], w) /\ Before(Queue[i], ev),
         \A kind \in Kinds : (Reached(w, kind) <=> (Reached(wire[r], kind) \/ Kind(ev) = kind))
                             /\ (Kind(ev) = kind => ~Reached(wire[r], kind)),
         w.hopped => wire[r].hopped \/ Kind(ev) = "hop",
         (Kind(ev) # "data" /\ w.bytes = wire[r].bytes) \/
           (Kind(ev) = "data" /\ w.bytes = wire[r].bytes + 1 /\ ev.nth = w.bytes),
         w.url = wire[r].url \/ (Kind(ev) = "hop" /\ ~wire[r].bad)
  PROVE  Inv'
<1>1. Typed /\ Placed
  BY DEF Inv
<1>2. Grown(ev) /\ events' \in Seq(Events)
  BY <1>1, SendGrows DEF Send, Typed
<1>3. Added(r, w, ev)
  BY <1>2 DEF Added
<1>4. wire[r] # Unsent
  BY UnsentRow DEF Loading
<1>5. Moves(r, w, ev)
  BY <1>2, <1>3, <1>4 DEF Moves, Loading, capture
<1> QED BY <1>5, MovesInv

LEMMA ChunkInv ==
  ASSUME Inv, NEW r \in Request, Chunk(r), UNCHANGED <<live, capture, collector, hand, stray>>
  PROVE  Inv'
<1>1. Typed /\ InOrder /\ Loading(r) /\ wire[r] \in Row
  BY DEF Inv, Typed, Chunk
<1>2. wire[r].bytes \in Nat
  BY <1>1, RowFields
<1>3. PICK ev : ev = [type |-> "data", request |-> r, nth |-> wire[r].bytes + 1]
  OBVIOUS
<1>4. ev.type = "data" /\ ev.request = r /\ ev.nth = wire[r].bytes + 1 /\ Kind(ev) = "data"
  BY <1>1, <1>3, RowFields DEF Kind, Addresses
<1>5. ev \in Events
  BY <1>1, <1>2, <1>3, RowFields DEF Events, Addresses
<1>6. PICK w : w = [wire[r] EXCEPT !.bytes = @ + 1]
  OBVIOUS
<1>7. /\ w \in Row /\ w.bytes = wire[r].bytes + 1 /\ w.status = "loading" /\ w.url = wire[r].url
      /\ w.by = wire[r].by /\ w.bad = wire[r].bad /\ w.hopped = wire[r].hopped
  BY <1>1, <1>2, <1>6, RowFields DEF Row, Loading, Addresses
<1>8. Send(ev) /\ wire' = [wire EXCEPT ![r] = w]
  BY <1>1, <1>2, <1>3, <1>6 DEF Chunk, Typed
<1>9. Told(ev, w)
  BY <1>1, <1>2, <1>4, <1>7, RowFields DEF Told, Loading
<1>10. ASSUME NEW i \in Places, Queue[i].request = r PROVE Told(Queue[i], w) /\ Before(Queue[i], ev)
  <2>1. Told(Queue[i], wire[r]) /\ Kind(Queue[i]) \in {"sent", "hop", "data", "response"}
    BY <1>1, <1>10, PendingOf DEF Loading
  <2>2. Told(Queue[i], w)
    BY <1>1, <1>2, <1>7, <2>1, RowFields DEF Told, Loading
  <2>3. Before(Queue[i], ev)
    BY <1>1, <1>2, <1>4, <2>1, RowFields DEF Before, Told
  <2> QED BY <2>2, <2>3
<1>11. \A kind \in Kinds : (Reached(w, kind) <=> (Reached(wire[r], kind) \/ Kind(ev) = kind))
                            /\ (Kind(ev) = kind => ~Reached(wire[r], kind))
  BY <1>1, <1>2, <1>4, <1>7 DEF Reached, Kinds, Loading
<1> HIDE DEF Events
<1> QED BY <1>1, <1>2, <1>4, <1>5, <1>7, <1>8, <1>9, <1>10, <1>11, LoadingMoves

LEMMA RespondInv ==
  ASSUME Inv, NEW r \in Request, Respond(r), UNCHANGED <<live, capture, collector, hand, stray>>
  PROVE  Inv'
<1>1. Typed /\ InOrder /\ Loading(r) /\ wire[r] \in Row
  BY DEF Inv, Typed, Respond
<1>2. ~wire[r].bad
  BY DEF Respond
<1>3. PICK ev : ev = [type |-> "response", request |-> r, url |-> wire[r].url]
  OBVIOUS
<1>4. ev.type = "response" /\ ev.request = r /\ ev.url = wire[r].url /\ Kind(ev) = "response"
  BY <1>1, <1>3, RowFields DEF Kind, Addresses
<1>5. ev \in Events
  BY <1>1, <1>2, <1>3, RowFields DEF Events, Addresses
<1>6. PICK w : w = [wire[r] EXCEPT !.bad = TRUE]
  OBVIOUS
<1>7. /\ w \in Row /\ w.bytes = wire[r].bytes /\ w.status = "loading" /\ w.url = wire[r].url
      /\ w.by = wire[r].by /\ w.bad = TRUE /\ w.hopped = wire[r].hopped
  BY <1>1, <1>2, <1>6, RowFields DEF Row, Loading, Addresses
<1>8. Send(ev) /\ wire' = [wire EXCEPT ![r] = w]
  BY <1>1, <1>2, <1>3, <1>6 DEF Respond, Typed
<1>9. Told(ev, w)
  BY <1>1, <1>2, <1>4, <1>7, RowFields DEF Told, Loading
<1>10. ASSUME NEW i \in Places, Queue[i].request = r PROVE Told(Queue[i], w) /\ Before(Queue[i], ev)
  <2>1. Told(Queue[i], wire[r]) /\ Kind(Queue[i]) \in {"sent", "hop", "data", "response"}
    BY <1>1, <1>10, PendingOf DEF Loading
  <2>2. Told(Queue[i], w)
    BY <1>1, <1>2, <1>7, <2>1, RowFields DEF Told, Loading
  <2>3. Before(Queue[i], ev)
    BY <1>1, <1>2, <1>4, <2>1, RowFields DEF Before, Told
  <2> QED BY <2>2, <2>3
<1>11. \A kind \in Kinds : (Reached(w, kind) <=> (Reached(wire[r], kind) \/ Kind(ev) = kind))
                            /\ (Kind(ev) = kind => ~Reached(wire[r], kind))
  BY <1>1, <1>2, <1>4, <1>7 DEF Reached, Kinds, Loading
<1> HIDE DEF Events
<1> QED BY <1>1, <1>2, <1>4, <1>5, <1>7, <1>8, <1>9, <1>10, <1>11, LoadingMoves

LEMMA FinishInv ==
  ASSUME Inv, NEW r \in Request, Finish(r), UNCHANGED <<live, capture, collector, hand, stray>>
  PROVE  Inv'
<1>1. Typed /\ InOrder /\ Loading(r) /\ wire[r] \in Row
  BY DEF Inv, Typed, Finish
<1>2. wire[r].doc \in BOOLEAN /\ wire[r].bytes \in Nat
  BY <1>1, RowFields
<1>3. PICK ev : ev = [type |-> "finished", request |-> r, total |-> IF wire[r].doc THEN 0 ELSE wire[r].bytes]
  OBVIOUS
<1>4. /\ ev.type = "finished" /\ ev.request = r /\ Kind(ev) = "finished"
      /\ ev.total = IF wire[r].doc THEN 0 ELSE wire[r].bytes
  BY <1>1, <1>3, RowFields DEF Kind, Addresses
<1>5. ev \in Events
  BY <1>1, <1>2, <1>3, RowFields DEF Events, Addresses
<1>6. PICK w : w = [wire[r] EXCEPT !.status = "finished"]
  OBVIOUS
<1>7. /\ w \in Row /\ w.bytes = wire[r].bytes /\ w.status = "finished" /\ w.url = wire[r].url
      /\ w.by = wire[r].by /\ w.bad = wire[r].bad /\ w.hopped = wire[r].hopped /\ w.doc = wire[r].doc
  BY <1>1, <1>2, <1>6, RowFields DEF Row, Loading, Addresses
<1>8. Send(ev) /\ wire' = [wire EXCEPT ![r] = w]
  BY <1>1, <1>2, <1>3, <1>6 DEF Finish, Typed
<1>9. Told(ev, w)
  BY <1>1, <1>2, <1>4, <1>7, RowFields DEF Told, Loading
<1>10. ASSUME NEW i \in Places, Queue[i].request = r PROVE Told(Queue[i], w) /\ Before(Queue[i], ev)
  <2>1. Told(Queue[i], wire[r]) /\ Kind(Queue[i]) \in {"sent", "hop", "data", "response"}
    BY <1>1, <1>10, PendingOf DEF Loading
  <2>2. Told(Queue[i], w)
    BY <1>1, <1>2, <1>7, <2>1, RowFields DEF Told, Loading
  <2>3. Before(Queue[i], ev)
    BY <1>1, <1>2, <1>4, <2>1, RowFields DEF Before, Told
  <2> QED BY <2>2, <2>3
<1>11. \A kind \in Kinds : (Reached(w, kind) <=> (Reached(wire[r], kind) \/ Kind(ev) = kind))
                            /\ (Kind(ev) = kind => ~Reached(wire[r], kind))
  BY <1>1, <1>2, <1>4, <1>7 DEF Reached, Kinds, Loading
<1> HIDE DEF Events
<1> QED BY <1>1, <1>2, <1>4, <1>5, <1>7, <1>8, <1>9, <1>10, <1>11, LoadingMoves

LEMMA FailInv ==
  ASSUME Inv, NEW r \in Request, Fail(r), UNCHANGED <<live, capture, collector, hand, stray>>
  PROVE  Inv'
<1>1. Typed /\ InOrder /\ Loading(r) /\ wire[r] \in Row
  BY DEF Inv, Typed, Fail
<1>2. PICK how \in {"failed", "aborted"} :
        /\ Send([type |-> "failed", request |-> r, aborted |-> how = "aborted"])
        /\ wire' = [wire EXCEPT ![r].status = how]
  BY DEF Fail
<1>3. PICK ev : ev = [type |-> "failed", request |-> r, aborted |-> how = "aborted"]
  OBVIOUS
<1>4. /\ ev.type = "failed" /\ ev.request = r /\ ev.aborted = (how = "aborted")
      /\ Kind(ev) = IF how = "aborted" THEN "aborted" ELSE "failed"
  BY <1>1, <1>3, RowFields DEF Kind, Addresses
<1>5. ev \in Events
  BY <1>1, <1>2, <1>3, RowFields DEF Events, Addresses
<1>6. PICK w : w = [wire[r] EXCEPT !.status = how]
  OBVIOUS
<1>7. /\ w \in Row /\ w.bytes = wire[r].bytes /\ w.status = how /\ w.url = wire[r].url
      /\ w.by = wire[r].by /\ w.bad = wire[r].bad /\ w.hopped = wire[r].hopped
  BY <1>1, <1>2, <1>6, RowFields DEF Row, Loading, Addresses
<1>8. Send(ev) /\ wire' = [wire EXCEPT ![r] = w]
  BY <1>1, <1>2, <1>3, <1>6 DEF Fail, Typed
<1>9. Told(ev, w)
  BY <1>1, <1>2, <1>4, <1>7, RowFields DEF Told, Loading
<1>10. ASSUME NEW i \in Places, Queue[i].request = r PROVE Told(Queue[i], w) /\ Before(Queue[i], ev)
  <2>1. Told(Queue[i], wire[r]) /\ Kind(Queue[i]) \in {"sent", "hop", "data", "response"}
    BY <1>1, <1>10, PendingOf DEF Loading
  <2>2. Told(Queue[i], w)
    BY <1>1, <1>2, <1>7, <2>1, RowFields DEF Told, Loading
  <2>3. Before(Queue[i], ev)
    BY <1>1, <1>2, <1>4, <2>1, RowFields DEF Before, Told
  <2> QED BY <2>2, <2>3
<1>11. \A kind \in Kinds : (Reached(w, kind) <=> (Reached(wire[r], kind) \/ Kind(ev) = kind))
                            /\ (Kind(ev) = kind => ~Reached(wire[r], kind))
  BY <1>1, <1>2, <1>4, <1>7 DEF Reached, Kinds, Loading
<1> HIDE DEF Events
<1> QED BY <1>1, <1>2, <1>4, <1>5, <1>7, <1>8, <1>9, <1>10, <1>11, LoadingMoves

LEMMA RedirectInv ==
  ASSUME Inv, NEW r \in Request, Redirect(r), UNCHANGED <<live, capture, collector, hand, stray>>
  PROVE  Inv'
<1>1. Typed /\ InOrder /\ Loading(r) /\ wire[r] \in Row
  BY DEF Inv, Typed, Redirect
<1>2. PICK u \in Addresses :
        /\ ~wire[r].hopped /\ wire[r].bytes = 0 /\ ~wire[r].bad
        /\ Send(Sent(r, u, TRUE)) /\ wire' = [wire EXCEPT ![r].url = u, ![r].hopped = TRUE]
  BY DEF Redirect, Addresses
<1>3. PICK ev : ev = [type |-> "sent", request |-> r, url |-> u, hop |-> TRUE]
  OBVIOUS
<1>4. ev.type = "sent" /\ ev.request = r /\ ev.url = u /\ ev.hop = TRUE /\ Kind(ev) = "hop"
  BY <1>1, <1>3, RowFields DEF Kind, Addresses
<1>5. ev \in Events
  BY <1>1, <1>2, <1>3, RowFields DEF Events, Addresses
<1>6. PICK w : w = [wire[r] EXCEPT !.url = u, !.hopped = TRUE]
  OBVIOUS
<1>7. /\ w \in Row /\ w.bytes = wire[r].bytes /\ w.status = "loading" /\ w.url = u
      /\ w.by = wire[r].by /\ w.bad = wire[r].bad /\ w.hopped = TRUE
  BY <1>1, <1>2, <1>6, RowFields DEF Row, Loading, Addresses
<1>8. Send(ev) /\ wire' = [wire EXCEPT ![r] = w]
  BY <1>1, <1>2, <1>3, <1>6 DEF Sent, Typed
<1>9. Told(ev, w)
  BY <1>1, <1>2, <1>4, <1>7, RowFields DEF Told, Loading
<1>10. ASSUME NEW i \in Places, Queue[i].request = r PROVE Told(Queue[i], w) /\ Before(Queue[i], ev)
  <2>1. Told(Queue[i], wire[r]) /\ Kind(Queue[i]) \in {"sent", "hop", "data", "response"}
    BY <1>1, <1>10, PendingOf DEF Loading
  <2>2. Told(Queue[i], w)
    BY <1>1, <1>2, <1>7, <2>1, RowFields DEF Told, Loading
  <2>3. Before(Queue[i], ev)
    BY <1>1, <1>2, <1>4, <2>1, RowFields DEF Before, Told
  <2> QED BY <2>2, <2>3
<1>11. \A kind \in Kinds : (Reached(w, kind) <=> (Reached(wire[r], kind) \/ Kind(ev) = kind))
                            /\ (Kind(ev) = kind => ~Reached(wire[r], kind))
  BY <1>1, <1>2, <1>4, <1>7 DEF Reached, Kinds, Loading
<1> HIDE DEF Events
<1> QED BY <1>1, <1>2, <1>4, <1>5, <1>7, <1>8, <1>9, <1>10, <1>11, LoadingMoves

LEMMA BrowserInv ==
  ASSUME Inv, NEW r \in Request, Browser(r)
  PROVE  Inv'
BY IssueInv, RedirectInv, ChunkInv, RespondInv, FinishInv, FailInv DEF Browser

(***************************************************************************)
(* The steps of the capture and of the listener that hand nothing over.    *)
(***************************************************************************)
LEMMA QueueKept ==
  ASSUME hand' = hand, events' = events
  PROVE  Queue' = Queue
BY DEF Queue

\* What rests on the queue and the requests alone.
LEMMA SameQueue ==
  ASSUME Typed, Queue' = Queue, wire' = wire
  PROVE  /\ Places' = Places
         /\ InOrder => InOrder'
         /\ \A kind : Taken(kind)' = Taken(kind)
         /\ Bytes(Taken("finished"))' = Bytes(Taken("finished"))
         /\ \A kind, r : Pending(r, kind)' <=> Pending(r, kind)
<1>1. Places' = Places
  BY DEF Places
<1>2. InOrder => InOrder'
  BY <1>1 DEF InOrder
<1>3. \A kind, r : Pending(r, kind)' <=> Pending(r, kind)
  BY <1>1 DEF Pending
<1>4. \A kind : Taken(kind)' = Taken(kind)
  BY <1>3 DEF Taken, Reached
<1>5. Bytes(Taken("finished"))' = Bytes(Taken("finished"))
  BY <1>4 DEF Bytes
<1> QED BY <1>1, <1>2, <1>3, <1>4, <1>5

\* The sums are of numbers.
Amounts(part) == [k \in 1 .. Captures |-> results[k][part]]

LEMMA TotalIs ==
  ASSUME NEW part
  PROVE  Total(part) = SumFunctionOnSet(Amounts(part), 1 .. Captures)
BY DEF Total, Amounts, SumFunction

LEMMA CapturesFinite == Captures \in Nat /\ IsFiniteSet(1 .. Captures)
BY CollectorAssumption, FS_Interval

LEMMA AmountsNatural ==
  ASSUME Typed
  PROVE  /\ Total("weight") \in Nat /\ Total("count") \in Nat
         /\ Bytes(Taken("finished")) \in Nat /\ Cardinality(Taken("sent")) \in Nat
<1>1. \A k \in 1 .. Captures : Amounts("weight")[k] \in Nat /\ Amounts("count")[k] \in Nat
  BY DEF Typed, Results, Amounts
<1>2. Total("weight") \in Nat /\ Total("count") \in Nat
  BY <1>1, TotalIs, CapturesFinite, SumNatural
<1>3. Taken("finished") \in SUBSET Request /\ Taken("sent") \in SUBSET Request
  BY DEF Taken
<1>4. Cardinality(Taken("sent")) \in Nat /\ IsFiniteSet(Taken("finished"))
  BY <1>3, RequestsFinite
<1>5. SumFunctionOnSet(Weights, Taken("finished")) \in Nat
  BY <1>3, <1>4, WeightsNatural, SumNatural
<1> QED BY <1>2, <1>4, <1>5 DEF Bytes, Weights

LEMMA SameCounted ==
  ASSUME Typed, Counted, Queue' = Queue, wire' = wire, collector' = collector
  PROVE  Counted'
BY SameQueue DEF Counted

\* The collector and the reports as they were.
LEMMA SameReports ==
  ASSUME Typed, Charged, ReportedOnce, Queue' = Queue, wire' = wire, UNCHANGED <<collector, results>>,
         Listening' => Listening
  PROVE  Charged' /\ ReportedOnce'
<1>1. /\ \A e : Taken(Behind(e))' = Taken(Behind(e))
      /\ Bytes(Taken("finished"))' = Bytes(Taken("finished")) /\ Taken("sent")' = Taken("sent")
  BY SameQueue
<1>2. Total("weight")' = Total("weight") /\ Total("count")' = Total("count")
  BY DEF Total
<1>3. ReportedOnce'
  BY <1>1 DEF ReportedOnce, Report
<1>4. Charged'
  <2>1. collector.weight \in Nat /\ collector.count \in Nat
    BY DEF Typed, Collectors
  <2>2. Total("weight") \in Nat /\ Total("count") \in Nat /\ Bytes(Taken("finished")) \in Nat /\ Cardinality(Taken("sent")) \in Nat
    BY AmountsNatural
  <2>3. CASE Listening'
    BY <1>1, <1>2, <2>3 DEF Charged
  <2>4. CASE ~Listening'
    <3>1. Total("weight") <= Bytes(Taken("finished")) /\ Total("count") <= Cardinality(Taken("sent"))
      BY <2>1, <2>2 DEF Charged
    <3>2. Total("weight") + 0 = Total("weight") /\ Total("count") + 0 = Total("count")
      BY <2>2
    <3> QED BY <1>1, <1>2, <2>4, <3>1, <3>2 DEF Charged
  <2> QED BY <2>3, <2>4
<1> QED BY <1>3, <1>4

\* The page under way and what it is charged with as they were.
SameFaith == Queue' = Queue /\ UNCHANGED <<at, wire, collector>>

LEMMA FaithfulKept ==
  ASSUME Typed, Faithful, SameFaith, hand' # NoHand => (hand'.to = at' <=> wire'[hand'.event.request].by = at')
  PROVE  Faithful'
<1>1. UNCHANGED <<at, wire, collector>>
  BY DEF SameFaith
<1>2. Of(at)' = Of(at)
  BY <1>1 DEF Of
<1>3. /\ Places' = Places /\ Queue' = Queue
      /\ \A kind : Taken(kind)' = Taken(kind)
      /\ \A kind, r : Pending(r, kind)' <=> Pending(r, kind)
  BY SameQueue DEF SameFaith
<1>4. \A kind : Mine(kind)' = Mine(kind)
  BY <1>2, <1>3 DEF Mine
<1>5. Bytes(Mine("finished"))' = Bytes(Mine("finished"))
  BY <1>1, <1>4 DEF Bytes
<1> QED BY <1>1, <1>2, <1>3, <1>4, <1>5 DEF Faithful

LEMMA LookUpInv ==
  ASSUME Inv, LookUp
  PROVE  Inv'
<1>1. Typed /\ Placed /\ InOrder /\ Counted /\ Charged /\ ReportedOnce /\ Queue' = Queue
  BY LookUpKeeps DEF Inv
<1>2. /\ hand' = [type |-> "event", event |-> Head(events), to |-> cur]
      /\ events' = Tail(events) /\ events # <<>> /\ events \in Seq(Events)
      /\ UNCHANGED <<at, stage, cur, results, collector, live, wire>>
  BY <1>1 DEF LookUp, capture, Typed
<1>3. hand'.type = "event" /\ hand'.event = Head(events) /\ hand'.to = cur
  BY <1>2
<1>4. Head(events) \in Events /\ events' \in Seq(Events)
  BY <1>2
<1>5. cur \in Nat /\ cur <= at /\ stray' \in BOOLEAN
  BY <1>1 DEF LookUp, Typed
<1>6. Typed'
  BY <1>1, <1>2, <1>3, <1>4, <1>5 DEF Typed
<1>7. Placed'
  BY <1>1, <1>2, <1>3, <1>5 DEF Placed, Listening
<1>8. InOrder' /\ Counted' /\ Charged' /\ ReportedOnce'
  BY <1>1, <1>2, SameQueue, SameCounted, SameReports DEF Listening
<1>9. ASSUME Straight' PROVE Faithful'
  <2>1. Straight /\ cur = at /\ Faithful
    BY <1>1, <1>2, <1>9 DEF Straight, Listening, LookUp, Typed, Inv
  <2>2. wire[Head(events).request].by = at
    BY <1>9, <2>1 DEF Straight, LookUp
  <2>3. hand'.to = at' /\ wire'[hand'.event.request].by = at'
    BY <1>2, <1>3, <2>1, <2>2
  <2>4. SameFaith
    BY <1>1, <1>2 DEF SameFaith
  <2> QED BY <1>1, <2>1, <2>3, <2>4, FaithfulKept
<1> QED BY <1>6, <1>7, <1>8, <1>9 DEF Inv

LEMMA FreshFields ==
  /\ Fresh.count = 0 /\ Fresh.weight = 0 /\ Fresh.network = <<>> /\ DOMAIN Fresh.network = {} /\ Len(Fresh.network) = 0
  /\ \A r \in Request : Fresh.received[r] = 0 /\ Fresh.urls[r] = {}
  /\ Fresh \in Collectors
BY DEF Fresh, Collectors

LEMMA StartInv ==
  ASSUME Inv, Start
  PROVE  Inv'
<1>1. /\ Typed /\ Placed /\ InOrder /\ Counted /\ Charged /\ ReportedOnce
      /\ stage = "idle" /\ at < Captures /\ at' = at + 1 /\ cur' = at + 1 /\ stage' = "set" /\ stray' = FALSE
      /\ UNCHANGED <<collector, results, live, wire, events, hand>>
  BY DEF Inv, Start, browser
<1>2. at \in Nat /\ Captures \in Nat /\ at' \in 1 .. Captures /\ at' > at /\ collector = Fresh
  BY <1>1, CapturesFinite DEF Typed, Placed
<1>3. Queue' = Queue
  BY <1>1, QueueKept
<1>4. Typed'
  <2>1. at' \in 0 .. Captures
    BY <1>2
  <2>2. cur' = IF stage' = "idle" THEN 0 ELSE at'
    BY <1>1, Zenon
  <2>3. stray' \in BOOLEAN /\ stage' \in {"idle", "set", "loading", "read"}
    BY <1>1, Zenon
  <2> QED BY <1>1, <2>1, <2>2, <2>3, Zenon DEF Typed
<1>5. /\ live \in Nat /\ live <= at /\ \A r \in Request : wire[r].by \in Nat /\ wire[r].by <= at
      /\ hand # NoHand => hand.to \in Nat /\ hand.to <= at
  BY <1>1, RowFields DEF Typed, Placed
<1>6. Placed'
  <2>1. /\ live <= at' /\ live # at' /\ \A r \in Request : wire[r].by <= at' /\ wire[r].by # at'
        /\ hand # NoHand => hand.to <= at'
    BY <1>2, <1>5
  <2>2. results[at'] = Nothing /\ at' # 0 /\ \A k \in 1 .. Captures : k > at' => results[k] = Nothing
    <3>1. \A k \in 1 .. Captures : k > at' => k > at
      BY <1>1, <1>2
    <3> QED BY <1>1, <1>2, <3>1 DEF Placed
  <2>3. \A r \in Request : /\ wire[r] = Unsent <=> wire[r].status = "unsent"
                           /\ wire[r].status # "unsent" => wire[r].by # 0
    BY <1>1 DEF Placed
  <2> QED BY <1>1, <2>1, <2>2, <2>3 DEF Placed
<1>7. InOrder' /\ Counted'
  BY <1>1, <1>3, SameQueue, SameCounted
<1>8. /\ \A e : Taken(Behind(e))' = Taken(Behind(e))
      /\ Bytes(Taken("finished"))' = Bytes(Taken("finished")) /\ Taken("sent")' = Taken("sent")
  BY <1>1, <1>3, SameQueue
<1>9. Charged'
  <2>1. Total("weight")' = Total("weight") /\ Total("count")' = Total("count")
    BY <1>1 DEF Total
  <2>2. collector'.weight = 0 /\ collector'.count = 0 /\ Listening' /\ ~Listening
    BY <1>1, <1>2, FreshFields DEF Listening
  <2> QED BY <1>1, <1>8, <2>1, <2>2 DEF Charged
<1>10. ReportedOnce'
  <2>1. DOMAIN collector'.network = {}
    BY <1>1, <1>2, FreshFields
  <2> QED BY <1>1, <1>8, <2>1 DEF ReportedOnce, Report
<1>11. Faithful'
  <2>1. hand' # NoHand => ~(hand'.to = at') /\ wire'[hand'.event.request].by # at'
    <3> SUFFICES ASSUME hand # NoHand PROVE ~(hand.to = at') /\ wire[hand.event.request].by # at'
      BY <1>1
    <3>1. hand.event.request \in Request
      BY <1>1, HandFirst DEF InOrder
    <3> QED BY <1>2, <1>5, <3>1
  <2>2. Of(at)' = {}
    BY <1>1, <1>2, <1>5 DEF Of
  <2>3. \A kind : Mine(kind)' = {}
    BY <2>2 DEF Mine
  <2>4. Bytes(Mine("finished"))' = 0
    BY <2>3, SumOfNone DEF Bytes
  <2>5. \A kind : Cardinality(Mine(kind)') = 0
    BY <2>3, FS_EmptySet
  <2>6. /\ collector'.count = 0 /\ collector'.weight = 0
        /\ Len(collector'.network) = 0 /\ DOMAIN collector'.network = {}
    BY <1>1, <1>2, FreshFields
  <2> QED BY <2>1, <2>2, <2>4, <2>5, <2>6 DEF Faithful
<1> QED BY <1>4, <1>6, <1>7, <1>9, <1>10, <1>11 DEF Inv

LEMMA SkipInv ==
  ASSUME Inv, Skip
  PROVE  Inv'
<1>1. /\ Typed /\ Placed /\ InOrder /\ Counted /\ Charged /\ ReportedOnce
      /\ stage \in {"set", "loading"} /\ stage' = "read"
      /\ UNCHANGED <<at, cur, results, collector, live, wire, events, hand, stray>>
  BY DEF Inv, Skip, browser
<1>2. Queue' = Queue
  BY <1>1, QueueKept
<1>3. ~Listening' /\ ~Straight'
  BY <1>1 DEF Listening, Straight
<1>4. Typed'
  BY <1>1 DEF Typed
<1>5. Placed'
  BY <1>1, <1>3 DEF Placed, Listening
<1>6. InOrder' /\ Counted' /\ Charged' /\ ReportedOnce'
  BY <1>1, <1>2, <1>3, SameQueue, SameCounted, SameReports
<1> QED BY <1>3, <1>4, <1>5, <1>6 DEF Inv

LEMMA LeaveInv ==
  ASSUME Inv, Leave
  PROVE  Inv'
<1>1. /\ Typed /\ Placed /\ InOrder /\ Counted /\ Charged /\ ReportedOnce
      /\ stage = "read" /\ stage' = "idle" /\ cur' = 0 /\ collector' = Fresh
      /\ UNCHANGED <<at, results, live, wire, events, hand, stray>>
  BY DEF Inv, Leave, browser
<1>2. Queue' = Queue
  BY <1>1, QueueKept
<1>3. ~Listening' /\ ~Straight' /\ ~Listening
  BY <1>1 DEF Listening, Straight
<1>4. Typed'
  BY <1>1, FreshFields DEF Typed
<1>5. Placed'
  BY <1>1, <1>3 DEF Placed
<1>6. InOrder' /\ Places' = Places
  BY <1>1, <1>2, SameQueue
\* What the new collector received is less than what the old one did.
<1>7. Counted'
  <2>1. \A r \in Request : wire[r].bytes \in Nat /\ collector'.received[r] = 0 /\ collector.received[r] \in Nat
    BY <1>1, FreshFields, RowFields DEF Typed, Collectors
  <2>2. \A r \in Request : 0 <= wire[r].bytes
    BY <2>1
  <2>3. ASSUME NEW i \in Places, Kind(Queue[i]) = "data" PROVE 0 < Queue[i].nth
    <3>1. Queue[i].request \in Request /\ Told(Queue[i], wire[Queue[i].request])
      BY <1>1 DEF InOrder
    <3>2. Queue[i].nth \in 1 .. wire[Queue[i].request].bytes
      BY <2>3, <3>1 DEF Told
    <3> QED BY <2>1, <3>1, <3>2
  <2> QED BY <1>1, <1>2, <1>6, <2>1, <2>2, <2>3 DEF Counted
<1>8. /\ \A e : Taken(Behind(e))' = Taken(Behind(e))
      /\ Bytes(Taken("finished"))' = Bytes(Taken("finished")) /\ Taken("sent")' = Taken("sent")
  BY <1>1, <1>2, SameQueue
<1>9. Charged'
  <2>1. Total("weight")' = Total("weight") /\ Total("count")' = Total("count")
    BY <1>1 DEF Total
  <2> QED BY <1>1, <1>3, <1>8, <2>1 DEF Charged
<1>10. ReportedOnce'
  BY <1>1, <1>3, <1>8 DEF ReportedOnce, Report
<1> QED BY <1>3, <1>4, <1>5, <1>6, <1>7, <1>9, <1>10 DEF Inv

(***************************************************************************)
(* The collector is read: its numbers and failures become the capture's.   *)
(***************************************************************************)
LEMMA PageResultFields ==
  ASSUME Typed
  PROVE  LET res == PageResult(collector) IN
         /\ res \in Results
         /\ res.count = collector.count /\ res.weight = collector.weight
         /\ Len(res.network) = Len(collector.network)
         /\ DOMAIN res.network = DOMAIN collector.network
         /\ \A i \in DOMAIN collector.network :
              /\ res.network[i].request = collector.network[i].request
              /\ res.network[i].reason = collector.network[i].reason
              /\ res.network[i].first = SameOrigin(PageURL, collector.network[i].url)
<1> DEFINE n == Len(collector.network)
           net == [i \in DOMAIN collector.network |->
                     [collector.network[i] EXCEPT !.first = SameOrigin(PageURL, collector.network[i].url)]]
<1>1. /\ collector.network \in Seq(Failures) /\ collector.count \in Nat /\ collector.weight \in Nat
      /\ n \in Nat /\ DOMAIN collector.network = 1 .. n
  BY DEF Typed, Collectors
<1>2. \A i \in 1 .. n : collector.network[i] \in Failures
  BY <1>1
<1>3. \A u : SameOrigin(PageURL, u) \in BOOLEAN
  BY DEF SameOrigin
<1>4. \A i \in 1 .. n : /\ net[i] \in Failures
                        /\ net[i].request = collector.network[i].request
                        /\ net[i].reason = collector.network[i].reason
                        /\ net[i].first = SameOrigin(PageURL, collector.network[i].url)
  <2> TAKE i \in 1 .. n
  <2>1. net[i] = [collector.network[i] EXCEPT !.first = SameOrigin(PageURL, collector.network[i].url)]
    BY <1>1
  <2>2. PICK e \in Failures : e = collector.network[i]
    BY <1>2
  <2>3. PICK first \in BOOLEAN : first = SameOrigin(PageURL, collector.network[i].url)
    BY <1>3
  <2> HIDE DEF net
  <2>4. net[i] = [e EXCEPT !.first = first]
    BY <2>1, <2>2, <2>3
  <2>5. net[i] \in Failures /\ net[i].request = e.request /\ net[i].reason = e.reason /\ net[i].first = first
    BY <2>4 DEF Failures
  <2> QED BY <2>2, <2>3, <2>5
<1>5. DOMAIN net = 1 .. n
  BY <1>1
<1>6. net = [i \in 1 .. n |-> net[i]]
  BY <1>1
<1> HIDE DEF net, n
<1>7. net \in Seq(Failures) /\ Len(net) = n
  BY <1>1, <1>4, <1>5, <1>6
<1>8. PageResult(collector) = [count |-> collector.count, weight |-> collector.weight, network |-> net]
  BY DEF PageResult, net
<1>9. PageResult(collector) \in Results
  BY <1>1, <1>7, <1>8 DEF Results
<1> QED BY <1>1, <1>4, <1>5, <1>7, <1>8, <1>9 DEF n

LEMMA ReadInv ==
  ASSUME Inv, Read
  PROVE  Inv'
<1>1. /\ Typed /\ Placed /\ InOrder /\ Counted /\ Charged /\ ReportedOnce
      /\ stage = "loading" /\ stage' = "read" /\ results' = [results EXCEPT ![at] = PageResult(collector)]
      /\ UNCHANGED <<at, cur, collector, live, wire, events, hand, stray>>
  BY DEF Inv, Read, browser
<1>2. Queue' = Queue
  BY <1>1, QueueKept
<1>3. ~Listening' /\ ~Straight' /\ Listening
  BY <1>1 DEF Listening, Straight
<1>4. at \in 1 .. Captures /\ results[at] = Nothing /\ Captures \in Nat
  BY <1>1, <1>3, CapturesFinite DEF Typed, Placed
<1> DEFINE res == PageResult(collector)
<1>5. /\ res \in Results /\ res.count = collector.count /\ res.weight = collector.weight
      /\ DOMAIN res.network = DOMAIN collector.network
      /\ \A i \in DOMAIN collector.network :
           /\ res.network[i].request = collector.network[i].request
           /\ res.network[i].reason = collector.network[i].reason
  BY <1>1, PageResultFields
<1> HIDE DEF res
<1>6. \A k \in 1 .. Captures : results'[k] = IF k = at THEN res ELSE results[k]
  BY <1>1 DEF Typed, res
<1>7. Typed'
  <2>1. results' \in [1 .. Captures -> Results]
    BY <1>1, <1>5 DEF Typed, res
  <2> QED BY <1>1, <2>1 DEF Typed
<1>8. Placed'
  <2>1. \A k \in 1 .. Captures : k > at => results'[k] = Nothing
    BY <1>1, <1>4, <1>6 DEF Placed
  <2> QED BY <1>1, <1>3, <2>1 DEF Placed
<1>9. InOrder' /\ Counted'
  BY <1>1, <1>2, SameQueue, SameCounted
<1>10. /\ \A e : Taken(Behind(e))' = Taken(Behind(e))
       /\ Bytes(Taken("finished"))' = Bytes(Taken("finished")) /\ Taken("sent")' = Taken("sent")
  BY <1>1, <1>2, SameQueue
<1>11. Charged'
  <2>1. \A k \in 1 .. Captures : /\ Amounts("weight")[k] \in Nat /\ Amounts("weight")'[k] \in Nat
                                 /\ Amounts("count")[k] \in Nat /\ Amounts("count")'[k] \in Nat
    BY <1>1, <1>7 DEF Amounts, Typed, Results
  <2>2. Amounts("weight")[at] = 0 /\ Amounts("count")[at] = 0
    BY <1>4 DEF Amounts, Nothing
  <2>3. Amounts("weight")'[at] = collector.weight /\ Amounts("count")'[at] = collector.count
    BY <1>4, <1>5, <1>6 DEF Amounts
  <2>4. \A k \in (1 .. Captures) \ {at} : /\ Amounts("weight")'[k] = Amounts("weight")[k]
                                          /\ Amounts("count")'[k] = Amounts("count")[k]
    BY <1>6 DEF Amounts
  <2>5. IsFiniteSet(1 .. Captures)
    BY CapturesFinite
  <2>6. SumFunctionOnSet(Amounts("weight")', 1 .. Captures)
          = SumFunctionOnSet(Amounts("weight"), 1 .. Captures) + Amounts("weight")'[at]
    BY <1>4, <2>1, <2>2, <2>4, <2>5, SumOfNew
  <2>7. SumFunctionOnSet(Amounts("count")', 1 .. Captures)
          = SumFunctionOnSet(Amounts("count"), 1 .. Captures) + Amounts("count")'[at]
    BY <1>4, <2>1, <2>2, <2>4, <2>5, SumOfNew
  <2>8. /\ Total("weight") = SumFunctionOnSet(Amounts("weight"), 1 .. Captures)
        /\ Total("count") = SumFunctionOnSet(Amounts("count"), 1 .. Captures)
    BY TotalIs
  <2>9. /\ Total("weight")' = SumFunctionOnSet(Amounts("weight")', 1 .. Captures)
        /\ Total("count")' = SumFunctionOnSet(Amounts("count")', 1 .. Captures)
    BY DEF Total, Amounts, SumFunction
  <2>10. Total("weight")' = Total("weight") + collector.weight /\ Total("count")' = Total("count") + collector.count
    BY <2>3, <2>6, <2>7, <2>8, <2>9
  <2>11. /\ Total("weight") \in Nat /\ Total("count") \in Nat
         /\ collector.weight \in Nat /\ collector.count \in Nat
    BY <1>1, AmountsNatural DEF Typed, Collectors
  <2>12. Total("weight")' + 0 = Total("weight") + collector.weight /\ Total("count")' + 0 = Total("count") + collector.count
    BY <2>10, <2>11
  <2> QED BY <1>1, <1>3, <1>10, <2>12 DEF Charged
<1>12. ReportedOnce'
  <2>1. ASSUME NEW k \in 1 .. Captures, NEW i \in DOMAIN results'[k].network
        PROVE  \/ k = at /\ i \in DOMAIN collector.network /\ Same(results'[k].network[i], collector.network[i])
               \/ k # at /\ i \in DOMAIN results[k].network /\ results'[k].network[i] = Report(k, i)
    BY <1>5, <1>6, <2>1 DEF Same, Report
  <2>2. ASSUME NEW e, NEW f, Same(e, f) PROVE Same(f, e) /\ Behind(e) = Behind(f) /\ e.request = f.request
    BY <2>2 DEF Same, Behind
  <2>3. ASSUME NEW e, NEW f, NEW g, Same(e, f), Same(f, g) PROVE Same(e, g)
    BY <2>3 DEF Same
  <2>4. /\ \A k \in 1 .. Captures : \A i \in DOMAIN results[k].network :
             /\ Report(k, i).request \in Taken(Behind(Report(k, i)))
             /\ \A l \in 1 .. Captures : \A j \in DOMAIN results[l].network :
                  Same(Report(k, i), Report(l, j)) => k = l /\ i = j
        /\ \A i \in DOMAIN collector.network :
             /\ collector.network[i].request \in Taken(Behind(collector.network[i]))
             /\ \A j \in DOMAIN collector.network : Same(collector.network[i], collector.network[j]) => i = j
             /\ \A k \in 1 .. Captures : \A j \in DOMAIN results[k].network : ~Same(collector.network[i], Report(k, j))
    BY <1>1, <1>3 DEF ReportedOnce
  <2>5. ASSUME NEW k \in 1 .. Captures, NEW i \in DOMAIN results'[k].network
        PROVE  /\ results'[k].network[i].request \in Taken(Behind(results'[k].network[i]))
               /\ \A l \in 1 .. Captures : \A j \in DOMAIN results'[l].network :
                    Same(results'[k].network[i], results'[l].network[j]) => k = l /\ i = j
    <3>1. CASE k = at /\ i \in DOMAIN collector.network /\ Same(results'[k].network[i], collector.network[i])
      BY <2>1, <2>2, <2>3, <2>4, <3>1
    <3>2. CASE k # at /\ i \in DOMAIN results[k].network /\ results'[k].network[i] = Report(k, i)
      BY <2>1, <2>2, <2>3, <2>4, <3>2
    <3> QED BY <2>1, <2>5, <3>1, <3>2
  <2>6. \A e : Taken(Behind(e))' = Taken(Behind(e))
    BY <1>10
  <2> QED BY <1>3, <2>5, <2>6 DEF ReportedOnce, Report, Behind
<1> QED BY <1>3, <1>7, <1>8, <1>9, <1>11, <1>12 DEF Inv

(***************************************************************************)
(* An event is handed over: what the collector makes of each kind.         *)
(***************************************************************************)
Failure(c, ev) ==
  IF Kind(ev) = "response" THEN Entry(ev.request, ev.url, "http_status")
  ELSE Entry(ev.request, CHOOSE u \in c.urls[ev.request] : TRUE, "failed")
Fails(c, ev) == Kind(ev) = "response" \/ (Kind(ev) = "failed" /\ c.urls[ev.request] # {})

HandledAs(c, ev, d) ==
  /\ d \in Collectors
  /\ d.count = IF Kind(ev) = "sent" THEN c.count + 1 ELSE c.count
  /\ d.weight = IF Kind(ev) = "finished" THEN c.weight + Transferred(c, ev) ELSE c.weight
  /\ \A x \in Request :
       /\ d.received[x] = IF x = ev.request /\ Kind(ev) = "data" THEN c.received[x] + 1
                          ELSE IF x = ev.request /\ Kind(ev) = "finished" THEN 0 ELSE c.received[x]
       /\ d.urls[x] = IF x = ev.request /\ Kind(ev) \in {"sent", "hop"} THEN {ev.url} ELSE c.urls[x]
  /\ d.network = IF Fails(c, ev) THEN Append(c.network, Failure(c, ev)) ELSE c.network

LEMMA CollectorFields ==
  ASSUME NEW c \in Collectors
  PROVE  /\ c.urls \in [Request -> SUBSET Addresses] /\ c.received \in [Request -> Nat]
         /\ c.count \in Nat /\ c.weight \in Nat /\ c.network \in Seq(Failures)
         /\ c = [urls |-> c.urls, received |-> c.received, count |-> c.count, weight |-> c.weight, network |-> c.network]
BY DEF Collectors

LEMMA HandledSent ==
  ASSUME NEW c \in Collectors, NEW ev, ev.request \in Request, ev.type = "sent", ev.hop \in BOOLEAN, ev.url \in Addresses
  PROVE  HandledAs(c, ev, handle(c, ev))
<1> DEFINE r == ev.request
<1>1. /\ c.urls \in [Request -> SUBSET Addresses] /\ c.received \in [Request -> Nat]
      /\ c.count \in Nat /\ c.weight \in Nat /\ c.network \in Seq(Failures)
  BY CollectorFields
<1>2. handle(c, ev) = [c EXCEPT !.urls[r] = {ev.url}, !.count = IF ev.hop THEN @ ELSE @ + 1]
  BY DEF handle
<1>3. handle(c, ev) = [urls |-> [c.urls EXCEPT ![r] = {ev.url}], received |-> c.received,
                       count |-> IF ev.hop THEN c.count ELSE c.count + 1, weight |-> c.weight, network |-> c.network]
  BY <1>2, CollectorFields
<1>4. Kind(ev) = (IF ev.hop THEN "hop" ELSE "sent") /\ ~Fails(c, ev)
  BY DEF Kind, Fails
<1>5. [c.urls EXCEPT ![r] = {ev.url}] \in [Request -> SUBSET Addresses]
  BY <1>1
<1>6. handle(c, ev) \in Collectors
  BY <1>1, <1>3, <1>5 DEF Collectors
<1> QED BY <1>1, <1>3, <1>4, <1>6 DEF HandledAs

LEMMA HandledData ==
  ASSUME NEW c \in Collectors, NEW ev, ev.request \in Request, ev.type = "data"
  PROVE  HandledAs(c, ev, handle(c, ev))
<1> DEFINE r == ev.request
<1>1. /\ c.urls \in [Request -> SUBSET Addresses] /\ c.received \in [Request -> Nat]
      /\ c.count \in Nat /\ c.weight \in Nat /\ c.network \in Seq(Failures)
  BY CollectorFields
<1>2. handle(c, ev) = [c EXCEPT !.received[r] = @ + 1]
  BY DEF handle
<1>3. handle(c, ev) = [urls |-> c.urls, received |-> [c.received EXCEPT ![r] = @ + 1],
                       count |-> c.count, weight |-> c.weight, network |-> c.network]
  BY <1>2, CollectorFields
<1>4. Kind(ev) = "data" /\ ~Fails(c, ev)
  BY DEF Kind, Fails
<1>5. [c.received EXCEPT ![r] = @ + 1] \in [Request -> Nat]
  BY <1>1
<1>6. handle(c, ev) \in Collectors
  BY <1>1, <1>3, <1>5 DEF Collectors
<1> QED BY <1>1, <1>3, <1>4, <1>6 DEF HandledAs

LEMMA HandledFinished ==
  ASSUME NEW c \in Collectors, NEW ev, ev.request \in Request, ev.type = "finished", ev.total \in Nat
  PROVE  HandledAs(c, ev, handle(c, ev))
<1> DEFINE r == ev.request
<1>1. /\ c.urls \in [Request -> SUBSET Addresses] /\ c.received \in [Request -> Nat]
      /\ c.count \in Nat /\ c.weight \in Nat /\ c.network \in Seq(Failures)
  BY CollectorFields
<1>2. handle(c, ev) = [c EXCEPT !.weight = @ + Transferred(c, ev), !.received[r] = 0]
  BY DEF handle
<1>3. handle(c, ev) = [urls |-> c.urls, received |-> [c.received EXCEPT ![r] = 0],
                       count |-> c.count, weight |-> c.weight + Transferred(c, ev), network |-> c.network]
  <2>1. PICK weighed : weighed = [urls |-> c.urls, received |-> c.received, count |-> c.count,
                                  weight |-> c.weight + Transferred(c, ev), network |-> c.network]
    OBVIOUS
  <2>2. weighed = [c EXCEPT !.weight = @ + Transferred(c, ev)]
    BY <2>1, CollectorFields
  <2>3. handle(c, ev) = [weighed EXCEPT !.received = [weighed.received EXCEPT ![r] = 0]]
    BY <1>2, <2>2
  <2> QED BY <2>1, <2>3
<1>4. Kind(ev) = "finished" /\ ~Fails(c, ev)
  BY DEF Kind, Fails
<1>5. [c.received EXCEPT ![r] = 0] \in [Request -> Nat]
  BY <1>1
<1>6. c.weight + Transferred(c, ev) \in Nat
  BY <1>1 DEF Transferred
<1>7. handle(c, ev) \in Collectors
  BY <1>1, <1>3, <1>5, <1>6 DEF Collectors
<1> QED BY <1>1, <1>3, <1>4, <1>7 DEF HandledAs

LEMMA HandledFailure ==
  ASSUME NEW c \in Collectors, NEW ev, ev.request \in Request,
         (ev.type = "response" /\ ev.url \in Addresses) \/ (ev.type = "failed" /\ ev.aborted \in BOOLEAN)
  PROVE  HandledAs(c, ev, handle(c, ev))
<1> DEFINE r == ev.request
           e == Failure(c, ev)
<1>1. /\ c.urls \in [Request -> SUBSET Addresses] /\ c.received \in [Request -> Nat]
      /\ c.count \in Nat /\ c.weight \in Nat /\ c.network \in Seq(Failures)
  BY CollectorFields
<1>2. Kind(ev) = IF ev.type = "response" THEN "response" ELSE IF ev.aborted THEN "aborted" ELSE "failed"
  BY DEF Kind
<1>3. CASE ~Fails(c, ev)
  <2>1. handle(c, ev) = c
    BY <1>2, <1>3 DEF handle, Fails
  <2> QED BY <1>2, <1>3, <2>1 DEF HandledAs
<1>4. CASE Fails(c, ev)
  <2>1. handle(c, ev) = [c EXCEPT !.network = Append(@, e)]
    BY <1>2, <1>4 DEF handle, Fails, Failure
  <2>2. e \in Failures
    <3>1. CASE Kind(ev) = "response"
      BY <1>2, <3>1 DEF Failure, Entry, Failures, Reasons
    <3>2. CASE Kind(ev) # "response"
      <4>1. c.urls[r] # {} /\ c.urls[r] \subseteq Addresses
        BY <1>1, <1>4, <3>2 DEF Fails
      <4>2. (CHOOSE u \in c.urls[r] : TRUE) \in Addresses
        BY <4>1
      <4> QED BY <3>2, <4>2 DEF Failure, Entry, Failures, Reasons
    <3> QED BY <3>1, <3>2
  <2> HIDE DEF e
  <2>3. handle(c, ev) = [urls |-> c.urls, received |-> c.received,
                         count |-> c.count, weight |-> c.weight, network |-> Append(c.network, e)]
    BY <2>1, CollectorFields
  <2>4. Append(c.network, e) \in Seq(Failures)
    BY <1>1, <2>2
  <2>5. handle(c, ev) \in Collectors
    BY <1>1, <2>3, <2>4 DEF Collectors
  <2> QED BY <1>2, <1>4, <2>3, <2>5 DEF HandledAs, e
<1> QED BY <1>3, <1>4

LEMMA HandledEvent ==
  ASSUME NEW c \in Collectors, NEW ev, NEW w \in Row, ev.request \in Request, Told(ev, w)
  PROVE  HandledAs(c, ev, handle(c, ev))
<1>1. CASE ev.type = "sent"
  BY <1>1, HandledSent, RowFields DEF Told, Kind
<1>2. CASE ev.type = "data"
  BY <1>2, HandledData
<1>3. CASE ev.type = "finished"
  <2>1. ev.total \in Nat
    BY <1>3, RowFields DEF Told, Kind
  <2> QED BY <1>3, <2>1, HandledFinished
<1>4. CASE ev.type = "response"
  BY <1>4, HandledFailure, RowFields DEF Told, Kind
<1>5. CASE ev.type = "failed"
  BY <1>5, HandledFailure DEF Told, Kind
<1> QED BY <1>1, <1>2, <1>3, <1>4, <1>5 DEF Told

\* The event ev of request r leaves the hand, for the collector or for none.
Listens == hand.to = at /\ cur = at
Delivers(r, ev) ==
  /\ ev \in Events /\ ev = hand.event /\ ev = Queue[1] /\ r \in Request /\ ev.request = r /\ Told(ev, wire[r])
  /\ Shifted /\ Len(Queue) >= 1
  /\ UNCHANGED <<at, stage, cur, results, live, wire, events, stray>> /\ hand # NoHand /\ hand' = NoHand
  /\ IF Listens THEN stage # "idle" /\ HandledAs(collector, ev, collector') ELSE collector' = collector

LEMMA HandOverDelivers ==
  ASSUME Inv, HandOver
  PROVE  \E r, ev : Delivers(r, ev)
<1>1. Typed /\ Placed /\ InOrder /\ HandOver
  BY DEF Inv
<1>2. /\ Shifted /\ Queue[1] = hand.event /\ Len(Queue) >= 1
      /\ hand # NoHand /\ hand' = NoHand
      /\ collector' = (IF hand.to = at /\ cur = at THEN handle(collector, hand.event) ELSE collector)
      /\ UNCHANGED <<at, stage, cur, results, live, wire, events, stray>>
  BY <1>1, HandOverShifts DEF HandOver, capture, browser
<1>3. PICK ev \in Events : ev = hand.event
  BY <1>1, <1>2 DEF Typed
<1>4. 1 \in Places
  BY <1>1, <1>2, HandFirst
<1>5. PICK r \in Request : r = ev.request
  BY <1>1, <1>2, <1>3, <1>4 DEF InOrder
<1>6. Told(ev, wire[r])
  BY <1>1, <1>2, <1>3, <1>4, <1>5 DEF InOrder
<1>7. Listens => stage # "idle"
  <2> SUFFICES ASSUME Listens, stage = "idle" PROVE FALSE
    OBVIOUS
  <2>1. at = 0
    BY <1>1 DEF Listens, Typed
  <2>2. wire[r].by \in Nat /\ wire[r].by <= at /\ wire[r].by # 0
    BY <1>1, <1>6, RowFields DEF Placed, Told, Typed
  <2> QED BY <2>1, <2>2
<1>8. Listens => HandledAs(collector, ev, collector')
  <2>1. collector \in Collectors /\ wire[r] \in Row
    BY <1>1 DEF Typed
  <2>2. HandledAs(collector, ev, handle(collector, ev))
    BY <1>5, <1>6, <2>1, HandledEvent
  <2> QED BY <1>2, <1>3, <2>2 DEF Listens
<1> HIDE DEF Events
<1>9. ~Listens => collector' = collector
  BY <1>2 DEF Listens
<1>10. Delivers(r, ev)
  BY <1>2, <1>3, <1>5, <1>6, <1>7, <1>8, <1>9 DEF Delivers
<1> QED BY <1>10

LEMMA DeliversTyped ==
  ASSUME Inv, NEW r, NEW ev, Delivers(r, ev)
  PROVE  Typed' /\ Placed' /\ InOrder'
<1>1. Typed /\ Placed /\ InOrder
  BY DEF Inv
<1>2. /\ UNCHANGED <<at, stage, cur, results, live, wire, events, stray>> /\ hand # NoHand /\ hand' = NoHand
      /\ Shifted /\ Len(Queue) >= 1
  BY DEF Delivers
<1>3. collector' \in Collectors /\ (stage = "idle" => collector' = collector)
  BY <1>1 DEF Delivers, HandledAs, Typed
<1>4. Typed'
  BY <1>1, <1>2, <1>3 DEF Typed
<1>5. Placed'
  BY <1>1, <1>2, <1>3 DEF Placed, Listening
<1> QED BY <1>1, <1>2, <1>4, <1>5, ShiftedOrder

\* Where the rest of the events were, with the first of them before the rest.
LEMMA ShiftedPlaces ==
  ASSUME Typed, InOrder, Shifted, Len(Queue) >= 1
  PROVE  /\ 1 \in Places
         /\ \A i \in Places' : /\ i + 1 \in Places /\ Queue'[i] = Queue[i + 1]
                               /\ Queue[1].request = Queue[i + 1].request => Before(Queue[1], Queue[i + 1])
         /\ \A i \in Places : i # 1 => i - 1 \in Places' /\ Queue'[i - 1] = Queue[i]
         /\ \A i \in Places : i # 1 /\ Queue[1].request = Queue[i].request => Before(Queue[1], Queue[i])
<1> DEFINE n == Len(Queue)
           Q == Queue'
<1>1. n \in Nat /\ n >= 1 /\ Len(Q) = n - 1 /\ \A i \in 1 .. n - 1 : Q[i] = Queue[i + 1]
  BY Lengths DEF Shifted, Places
<1>2. Places = 1 .. n /\ Places' = 1 .. n - 1
  BY <1>1 DEF Places
<1>3. \A i, j \in 1 .. n : i < j /\ Queue[i].request = Queue[j].request => Before(Queue[i], Queue[j])
  BY DEF InOrder, Places
<1> HIDE DEF n, Q
<1>4. \A i \in 1 .. n - 1 : i + 1 \in 1 .. n /\ Q[i] = Queue[i + 1] /\ 1 < i + 1
  BY <1>1
<1>5. \A i \in 1 .. n : 1 \in 1 .. n /\ (i # 1 => 1 < i /\ i - 1 \in 1 .. n - 1 /\ (i - 1) + 1 = i)
  BY <1>1
<1>6. 1 \in 1 .. n
  BY <1>1
<1> QED BY <1>2, <1>3, <1>4, <1>5, <1>6 DEF Q

LEMMA DeliversCounted ==
  ASSUME Inv, NEW r, NEW ev, Delivers(r, ev)
  PROVE  Counted'
<1>1. /\ Typed /\ InOrder /\ Counted /\ Shifted /\ Len(Queue) >= 1 /\ ev = Queue[1] /\ ev.request = r /\ r \in Request
      /\ Told(ev, wire[r]) /\ wire' = wire
  BY DEF Inv, Delivers
<1>2. \A x \in Request : /\ wire[x].bytes \in Nat /\ collector.received[x] \in Nat /\ collector.received[x] <= wire[x].bytes
                         /\ \A i \in Places : Queue[i].request = x /\ Kind(Queue[i]) = "data" =>
                              /\ collector.received[x] < Queue[i].nth /\ Queue[i].nth \in 1 .. wire[x].bytes
  BY <1>1, RowFields DEF Typed, Collectors, Counted, InOrder, Told
<1>3. \A x \in Request :
        \/ collector'.received[x] = collector.received[x] /\ ~(x = r /\ Kind(ev) = "data" /\ Listens)
        \/ collector'.received[x] = 0
        \/ x = r /\ Kind(ev) = "data" /\ collector'.received[x] = collector.received[x] + 1
  BY <1>1 DEF Delivers, HandledAs
<1>4. ASSUME NEW x \in Request
      PROVE  /\ collector'.received[x] <= wire[x].bytes
             /\ \A i \in Places' : Queue'[i].request = x /\ Kind(Queue'[i]) = "data" => collector'.received[x] < Queue'[i].nth
  <2>1. \A i \in Places' : Queue'[i].request = x /\ Kind(Queue'[i]) = "data" =>
          /\ collector.received[x] < Queue'[i].nth /\ Queue'[i].nth \in Nat
          /\ x = r /\ Kind(ev) = "data" => ev.nth < Queue'[i].nth
    BY <1>1, <1>2, ShiftedPlaces DEF Before
  <2>2. CASE collector'.received[x] = collector.received[x]
    BY <1>2, <2>1, <2>2
  <2>3. CASE collector'.received[x] = 0
    <3>1. 0 <= wire[x].bytes
      BY <1>2
    <3>2. ASSUME NEW i \in Places', Queue'[i].request = x, Kind(Queue'[i]) = "data" PROVE 0 < Queue'[i].nth
      BY <1>2, <2>1, <3>2
    <3> QED BY <2>3, <3>1, <3>2
  <2>4. CASE x = r /\ Kind(ev) = "data" /\ collector'.received[x] = collector.received[x] + 1
    <3>1. collector.received[x] < ev.nth /\ ev.nth \in 1 .. wire[x].bytes
      BY <1>1, <1>2, <2>4, ShiftedPlaces
    <3>2. collector'.received[x] <= ev.nth /\ ev.nth <= wire[x].bytes /\ collector'.received[x] \in Nat /\ ev.nth \in Nat
      BY <1>2, <2>4, <3>1
    <3>3. collector'.received[x] <= wire[x].bytes
      BY <1>2, <3>2
    <3>4. ASSUME NEW i \in Places', Queue'[i].request = x, Kind(Queue'[i]) = "data"
          PROVE  collector'.received[x] < Queue'[i].nth
      BY <2>1, <2>4, <3>2, <3>4
    <3> QED BY <3>3, <3>4
  <2> QED BY <1>3, <2>2, <2>3, <2>4
<1> QED BY <1>1, <1>4 DEF Counted

\* What is handed over is taken once.
LEMMA DeliversTaken ==
  ASSUME Inv, NEW r, NEW ev, Delivers(r, ev), NEW kind \in Kinds
  PROVE  /\ Kind(ev) # kind => Taken(kind)' = Taken(kind)
         /\ Kind(ev) = kind => r \notin Taken(kind) /\ Taken(kind)' = Taken(kind) \cup {r}
         /\ Taken(kind) \in SUBSET Request
<1>1. Typed /\ InOrder /\ Shifted /\ Len(Queue) >= 1 /\ wire' = wire /\ ev = Queue[1] /\ ev.request = r
  BY DEF Inv, Delivers
<1>2. /\ Kind(ev) # kind => Taken(kind)' = Taken(kind)
      /\ Kind(ev) = kind => r \notin Taken(kind) /\ Taken(kind)' = Taken(kind) \cup {r}
  BY <1>1, ShiftedTaken
<1>3. Taken(kind) \in SUBSET Request
  BY DEF Taken
<1> QED BY <1>2, <1>3

LEMMA CardinalityOfOneMore ==
  ASSUME NEW S \in SUBSET Request, NEW r, r \notin S
  PROVE  Cardinality(S \cup {r}) = Cardinality(S) + 1
BY RequestsFinite, FS_AddElement

LEMMA BytesOfOneMore ==
  ASSUME Typed, NEW S \in SUBSET Request, NEW r \in Request, r \notin S
  PROVE  SumFunctionOnSet(Weights, S \cup {r}) = SumFunctionOnSet(Weights, S) + wire[r].bytes
<1>1. \A x \in Request : Weights[x] = wire[x].bytes /\ Weights[x] \in Nat
  BY WeightsNatural
<1>2. IsFiniteSet(S) /\ \A x \in S \cup {r} : Weights[x] \in Nat
  BY <1>1, RequestsFinite
<1>3. SumFunctionOnSet(Weights, S \cup {r}) = Weights[r] + SumFunctionOnSet(Weights, S)
  BY <1>2, SumOfOneMore
<1>4. SumFunctionOnSet(Weights, S) \in Nat
  BY <1>2, SumNatural
<1> QED BY <1>1, <1>3, <1>4

\* The total that the browser states, or the chunks that came, are no more
\* than the bytes of the response.
LEMMA TransferredAtMost ==
  ASSUME Inv, NEW r, NEW ev, Delivers(r, ev), Kind(ev) = "finished"
  PROVE  /\ Transferred(collector, ev) \in Nat /\ Transferred(collector, ev) <= wire[r].bytes
         /\ ev.total # 0 => Transferred(collector, ev) = wire[r].bytes
         /\ ev.total = 0 => Transferred(collector, ev) = collector.received[r]
<1>1. /\ Typed /\ Counted /\ r \in Request /\ ev.request = r /\ Told(ev, wire[r])
  BY DEF Inv, Delivers
<1>2. wire[r].bytes \in Nat /\ collector.received[r] \in Nat /\ collector.received[r] <= wire[r].bytes
  BY <1>1, RowFields DEF Typed, Collectors, Counted
<1>3. ev.total = IF wire[r].doc THEN 0 ELSE wire[r].bytes
  BY <1>1 DEF Told
<1> QED BY <1>1, <1>2, <1>3 DEF Transferred

LEMMA DeliversCharged ==
  ASSUME Inv, NEW r, NEW ev, Delivers(r, ev)
  PROVE  Charged'
<1>1. /\ Typed /\ Charged /\ r \in Request /\ ev.request = r
      /\ UNCHANGED <<wire, results, stage>>
  BY DEF Inv, Delivers
<1>2. Total("weight")' = Total("weight") /\ Total("count")' = Total("count") /\ (Listening' <=> Listening)
  BY <1>1 DEF Total, Listening
<1>3. /\ Total("weight") \in Nat /\ Total("count") \in Nat /\ wire[r].bytes \in Nat
      /\ Bytes(Taken("finished")) \in Nat /\ Cardinality(Taken("sent")) \in Nat
      /\ collector.weight \in Nat /\ collector.count \in Nat
  BY <1>1, AmountsNatural, RowFields DEF Typed, Collectors
<1>4. Bytes(Taken("finished"))' = IF Kind(ev) = "finished" THEN Bytes(Taken("finished")) + wire[r].bytes
                                  ELSE Bytes(Taken("finished"))
  <2>1. CASE Kind(ev) # "finished"
    BY <1>1, <2>1, DeliversTaken, KindsTaken DEF Bytes
  <2>2. CASE Kind(ev) = "finished"
    <3>1. /\ r \notin Taken("finished") /\ Taken("finished")' = Taken("finished") \cup {r}
          /\ Taken("finished") \in SUBSET Request
      BY <2>2, DeliversTaken, KindsTaken
    <3>2. SumFunctionOnSet(Weights, Taken("finished") \cup {r}) = SumFunctionOnSet(Weights, Taken("finished")) + wire[r].bytes
      BY <1>1, <3>1, BytesOfOneMore
    <3> QED BY <1>1, <2>2, <3>1, <3>2 DEF Bytes, Weights
  <2> QED BY <2>1, <2>2
<1>5. Cardinality(Taken("sent"))' = IF Kind(ev) = "sent" THEN Cardinality(Taken("sent")) + 1 ELSE Cardinality(Taken("sent"))
  <2>1. CASE Kind(ev) # "sent"
    BY <2>1, DeliversTaken, KindsTaken
  <2>2. CASE Kind(ev) = "sent"
    <3>1. /\ r \notin Taken("sent") /\ Taken("sent")' = Taken("sent") \cup {r}
          /\ Taken("sent") \in SUBSET Request
      BY <2>2, DeliversTaken, KindsTaken
    <3>2. Cardinality(Taken("sent") \cup {r}) = Cardinality(Taken("sent")) + 1
      BY <3>1, CardinalityOfOneMore
    <3> QED BY <2>2, <3>1, <3>2
  <2> QED BY <2>1, <2>2
<1>6. \/ collector'.weight = collector.weight
      \/ /\ Kind(ev) = "finished" /\ collector'.weight = collector.weight + Transferred(collector, ev)
         /\ Transferred(collector, ev) \in Nat /\ Transferred(collector, ev) <= wire[r].bytes
  BY TransferredAtMost DEF Delivers, HandledAs
<1>7. \/ collector'.count = collector.count
      \/ Kind(ev) = "sent" /\ collector'.count = collector.count + 1
  BY DEF Delivers, HandledAs
<1>8. Total("weight") + (IF Listening THEN collector'.weight ELSE 0) <= Bytes(Taken("finished"))'
  <2>1. Total("weight") + (IF Listening THEN collector.weight ELSE 0) <= Bytes(Taken("finished"))
    BY <1>1 DEF Charged
  <2> QED BY <1>3, <1>4, <1>6, <2>1
<1>9. Total("count") + (IF Listening THEN collector'.count ELSE 0) <= Cardinality(Taken("sent"))'
  <2>1. Total("count") + (IF Listening THEN collector.count ELSE 0) <= Cardinality(Taken("sent"))
    BY <1>1 DEF Charged
  <2> QED BY <1>3, <1>5, <1>7, <2>1
<1> QED BY <1>2, <1>8, <1>9 DEF Charged

LEMMA FailureFields ==
  ASSUME NEW c, NEW ev, Fails(c, ev)
  PROVE  /\ Failure(c, ev).request = ev.request
         /\ Behind(Failure(c, ev)) = Kind(ev) /\ Kind(ev) \in {"failed", "response"}
BY DEF Failure, Fails, Entry, Behind

LEMMA DeliversReported ==
  ASSUME Inv, NEW r, NEW ev, Delivers(r, ev)
  PROVE  ReportedOnce'
<1>1. /\ Typed /\ ReportedOnce /\ r \in Request /\ ev.request = r
      /\ UNCHANGED <<wire, results, stage>>
  BY DEF Inv, Delivers
<1>2. \A e : Taken(Behind(e)) \subseteq Taken(Behind(e))'
  <2>1. Taken("failed") \subseteq Taken("failed")' /\ Taken("response") \subseteq Taken("response")'
    <3>1. Taken("failed") \subseteq Taken("failed")'
      BY DeliversTaken, KindsTaken
    <3>2. Taken("response") \subseteq Taken("response")'
      BY DeliversTaken, KindsTaken
    <3> QED BY <3>1, <3>2
  <2> QED BY <2>1 DEF Behind
<1>3. \A k \in 1 .. Captures : \A i \in DOMAIN results[k].network :
        /\ Report(k, i).request \in Taken(Behind(Report(k, i)))
        /\ \A l \in 1 .. Captures : \A j \in DOMAIN results[l].network : Same(Report(k, i), Report(l, j)) => k = l /\ i = j
  BY <1>1 DEF ReportedOnce
<1>4. \A k \in 1 .. Captures : \A i \in DOMAIN results'[k].network :
        /\ \A e : e = results'[k].network[i] => e.request \in Taken(Behind(e))'
        /\ \A l \in 1 .. Captures : \A j \in DOMAIN results'[l].network :
             Same(results'[k].network[i], results'[l].network[j]) => k = l /\ i = j
  BY <1>1, <1>2, <1>3 DEF Report
<1>5. ASSUME Listening'
      PROVE  \A i \in DOMAIN collector'.network :
               /\ \A e : e = collector'.network[i] => e.request \in Taken(Behind(e))'
               /\ \A j \in DOMAIN collector'.network : Same(collector'.network[i], collector'.network[j]) => i = j
               /\ \A k \in 1 .. Captures : \A j \in DOMAIN results[k].network : ~Same(collector'.network[i], Report(k, j))
  <2>1. \A i \in DOMAIN collector.network :
          /\ collector.network[i].request \in Taken(Behind(collector.network[i]))
          /\ \A j \in DOMAIN collector.network : Same(collector.network[i], collector.network[j]) => i = j
          /\ \A k \in 1 .. Captures : \A j \in DOMAIN results[k].network : ~Same(collector.network[i], Report(k, j))
    BY <1>1, <1>5 DEF ReportedOnce, Listening
  <2>2. CASE collector'.network = collector.network
    BY <1>2, <2>1, <2>2
  <2>3. CASE Fails(collector, ev) /\ collector'.network = Append(collector.network, Failure(collector, ev))
    <3>1. PICK e : e = Failure(collector, ev)
      OBVIOUS
    <3>2. e.request = r /\ Behind(e) \in {"failed", "response"} /\ Kind(ev) = Behind(e)
      BY <1>1, <2>3, <3>1, FailureFields
    <3>3. r \notin Taken(Behind(e)) /\ r \in Taken(Behind(e))'
      BY <3>2, DeliversTaken, KindsTaken
    <3>4. \A f : Same(e, f) \/ Same(f, e) => f.request \notin Taken(Behind(f))
      BY <3>2, <3>3 DEF Same, Behind
    <3>5. collector.network \in Seq(Failures)
      BY <1>1 DEF Typed, Collectors
    <3> DEFINE n == Len(collector.network)
               net == collector'.network
    <3>6. /\ n \in Nat /\ DOMAIN collector.network = 1 .. n /\ DOMAIN net = 1 .. n + 1
          /\ net[n + 1] = e /\ \A i \in 1 .. n : net[i] = collector.network[i]
      BY <2>3, <3>1, <3>5
    <3> HIDE DEF n, net
    <3>7. \A i \in 1 .. n + 1 : (i = n + 1 /\ net[i] = e) \/ (i \in 1 .. n /\ net[i] = collector.network[i])
      BY <3>6
    <3>8. \A i \in 1 .. n + 1 : \A f : f = net[i] => f.request \in Taken(Behind(f))'
      BY <1>2, <2>1, <3>2, <3>3, <3>6, <3>7
    <3>9. \A i, j \in 1 .. n + 1 : Same(net[i], net[j]) => i = j
      BY <2>1, <3>4, <3>6, <3>7
    <3>10. \A i \in 1 .. n + 1 : \A k \in 1 .. Captures : \A j \in DOMAIN results[k].network : ~Same(net[i], Report(k, j))
      BY <1>3, <2>1, <3>4, <3>6, <3>7
    <3> QED BY <3>6, <3>8, <3>9, <3>10 DEF net
  <2> QED BY <2>2, <2>3 DEF Delivers, HandledAs
<1> QED BY <1>1, <1>4, <1>5 DEF ReportedOnce, Report

\* A page none of whose events go astray gets its own, all of them, in order.
LEMMA DeliversMine ==
  ASSUME Inv, NEW r, NEW ev, Delivers(r, ev), NEW kind \in Kinds
  PROVE  /\ ~(Kind(ev) = kind /\ wire[r].by = at) => Mine(kind)' = Mine(kind)
         /\ Kind(ev) = kind /\ wire[r].by = at => r \notin Mine(kind) /\ Mine(kind)' = Mine(kind) \cup {r}
         /\ Mine(kind) \in SUBSET Request
<1>1. Of(at)' = Of(at) /\ r \in Request
  BY DEF Delivers, Of
<1>2. r \in Of(at) <=> wire[r].by = at
  BY <1>1 DEF Of
<1>3. /\ Kind(ev) # kind => Taken(kind)' = Taken(kind)
      /\ Kind(ev) = kind => r \notin Taken(kind) /\ Taken(kind)' = Taken(kind) \cup {r}
      /\ Taken(kind) \in SUBSET Request
  BY DeliversTaken
<1>4. Mine(kind)' = Taken(kind)' \cap Of(at)'
  BY DEF Mine
<1>5. Mine(kind) = Taken(kind) \cap Of(at)
  BY DEF Mine
<1> QED BY <1>1, <1>2, <1>3, <1>4, <1>5

\* The end of a request comes after all else of it: its chunks and its URL
\* have come.
LEMMA EndComesLast ==
  ASSUME Inv, Faithful, NEW r, NEW ev, Delivers(r, ev), wire[r].by = at
  PROVE  /\ Kind(ev) = "finished" => collector.received[r] = wire[r].bytes
         /\ Kind(ev) = "failed" => collector.urls[r] = {wire[r].url}
<1>1. /\ Typed /\ InOrder /\ Counted /\ Shifted /\ Len(Queue) >= 1 /\ ev = Queue[1] /\ ev.request = r
      /\ r \in Request /\ r \in Of(at)
  BY DEF Inv, Delivers, Of
<1>2. ASSUME Kind(ev) \in {"finished", "failed"}, NEW i \in Places, Queue[i].request = r
      PROVE  i = 1 /\ Kind(Queue[i]) = Kind(ev)
  BY <1>1, <1>2, ShiftedPlaces DEF Before
<1>3. ASSUME Kind(ev) = "finished" PROVE collector.received[r] = wire[r].bytes
  <2>1. wire[r].bytes \in Nat /\ collector.received[r] \in Nat /\ collector.received[r] <= wire[r].bytes
    BY <1>1, RowFields DEF Typed, Collectors, Counted
  <2>2. r \notin Taken("finished")
    BY <1>3, DeliversTaken, KindsTaken
  <2>3. \A n \in (collector.received[r] + 1) .. wire[r].bytes : FALSE
    BY <1>1, <1>2, <1>3, <2>2 DEF Faithful
  <2>4. ~(collector.received[r] < wire[r].bytes)
    <3> SUFFICES ASSUME collector.received[r] < wire[r].bytes PROVE FALSE
      OBVIOUS
    <3>1. collector.received[r] + 1 \in (collector.received[r] + 1) .. wire[r].bytes
      BY <2>1
    <3> QED BY <2>3, <3>1
  <2> QED BY <2>1, <2>4
<1>4. ASSUME Kind(ev) = "failed" PROVE collector.urls[r] = {wire[r].url}
  <2>1. ~Pending(r, "sent") /\ ~Pending(r, "hop")
    BY <1>2, <1>4 DEF Pending
  <2> QED BY <1>1, <2>1 DEF Faithful
<1> QED BY <1>3, <1>4

LEMMA DeliversFaithful ==
  ASSUME Inv, NEW r, NEW ev, Delivers(r, ev), Straight'
  PROVE  Faithful'
<1>1. /\ Typed /\ InOrder /\ Counted /\ Faithful /\ Listening /\ Shifted /\ Len(Queue) >= 1 /\ ev = Queue[1] /\ ev.request = r
      /\ r \in Request /\ Told(ev, wire[r]) /\ UNCHANGED <<at, wire>> /\ hand' = NoHand
  BY DEF Inv, Delivers, Straight, Listening
<1>2. Listens <=> wire[r].by = at
  BY <1>1 DEF Delivers, Listens, Faithful, Typed, Listening
<1>3. Of(at)' = Of(at) /\ \A x \in Request : x \in Of(at) <=> wire[x].by = at
  BY <1>1 DEF Of
<1>4. /\ collector.count \in Nat /\ collector.weight \in Nat /\ collector.network \in Seq(Failures)
      /\ wire[r].bytes \in Nat /\ \A x \in Request : collector.received[x] \in Nat /\ wire[x].bytes \in Nat
  BY <1>1, RowFields DEF Typed, Collectors
<1>5. CASE ~Listens
  <2>1. collector' = collector
    BY <1>5 DEF Delivers
  <2>2. \A kind \in Kinds : Mine(kind)' = Mine(kind)
    BY <1>2, <1>5, DeliversMine
  <2>3. /\ collector'.count = Cardinality(Mine("sent"))'
        /\ collector'.weight = Bytes(Mine("finished"))'
        /\ Len(collector'.network) = Cardinality(Mine("failed"))' + Cardinality(Mine("response"))'
    BY <1>1, <2>1, <2>2, KindsTaken DEF Faithful, Bytes
  <2>4. \A i \in DOMAIN collector'.network :
          LET e == collector'.network[i] IN e.request \in Of(at) /\ e.url = wire[e.request].url
    BY <1>1, <2>1 DEF Faithful
  <2>5. ASSUME NEW x \in Request, x \in Of(at)
        PROVE  /\ ~Pending(x, "sent")' /\ ~Pending(x, "hop")' => collector'.urls[x] = {wire[x].url}
               /\ x \notin Taken("finished")' => \A n \in (collector'.received[x] + 1) .. wire[x].bytes :
                    \E i \in Places' : Queue'[i].request = x /\ Kind(Queue'[i]) = "data" /\ Queue'[i].nth = n
    <3>1. x # r
      BY <1>2, <1>3, <1>5, <2>5
    <3>2. \A kind : Pending(x, kind) => Pending(x, kind)'
      BY <1>1, <3>1, ShiftedPending
    <3>3. x \in Taken("finished") => x \in Taken("finished")'
      BY DeliversTaken, KindsTaken
    <3>4. \A i \in Places : Queue[i].request = x => i - 1 \in Places' /\ Queue'[i - 1] = Queue[i]
      BY <1>1, <3>1, ShiftedPlaces
    <3> QED BY <1>1, <2>1, <2>5, <3>2, <3>3, <3>4 DEF Faithful
  <2>6. Of(at)' \subseteq Request
    BY DEF Of
  <2> QED BY <1>1, <1>3, <2>3, <2>4, <2>5, <2>6 DEF Faithful
<1>6. CASE Listens
  <2>1. HandledAs(collector, ev, collector') /\ r \in Of(at) /\ wire[r].by = at
    BY <1>1, <1>2, <1>3, <1>6 DEF Delivers
  <2>2. collector'.count = Cardinality(Mine("sent"))'
    <3>1. collector.count = Cardinality(Mine("sent"))
      BY <1>1 DEF Faithful
    <3>2. CASE Kind(ev) # "sent"
      BY <2>1, <3>1, <3>2, DeliversMine, KindsTaken DEF HandledAs
    <3>3. CASE Kind(ev) = "sent"
      <4>1. r \notin Mine("sent") /\ Mine("sent")' = Mine("sent") \cup {r} /\ Mine("sent") \in SUBSET Request
        BY <2>1, <3>3, DeliversMine, KindsTaken
      <4>2. Cardinality(Mine("sent") \cup {r}) = Cardinality(Mine("sent")) + 1
        BY <4>1, CardinalityOfOneMore
      <4> QED BY <2>1, <3>1, <3>3, <4>1, <4>2 DEF HandledAs
    <3> QED BY <3>2, <3>3
  <2>3. collector'.weight = Bytes(Mine("finished"))'
    <3>1. collector.weight = Bytes(Mine("finished"))
      BY <1>1 DEF Faithful
    <3>2. CASE Kind(ev) # "finished"
      <4>1. Mine("finished")' = Mine("finished")
        BY <3>2, DeliversMine, KindsTaken
      <4> QED BY <1>1, <2>1, <3>1, <3>2, <4>1 DEF HandledAs, Bytes
    <3>3. CASE Kind(ev) = "finished"
      <4>1. /\ r \notin Mine("finished") /\ Mine("finished")' = Mine("finished") \cup {r}
            /\ Mine("finished") \in SUBSET Request
        BY <2>1, <3>3, DeliversMine, KindsTaken
      <4>2. SumFunctionOnSet(Weights, Mine("finished") \cup {r}) = SumFunctionOnSet(Weights, Mine("finished")) + wire[r].bytes
        BY <1>1, <4>1, BytesOfOneMore
      <4>3. Bytes(Mine("finished"))' = Bytes(Mine("finished")) + wire[r].bytes
        BY <1>1, <4>1, <4>2 DEF Bytes, Weights
      <4>4. Transferred(collector, ev) = wire[r].bytes
        BY <1>1, <2>1, <3>3, TransferredAtMost, EndComesLast
      <4> QED BY <2>1, <3>1, <3>3, <4>3, <4>4 DEF HandledAs
    <3> QED BY <3>2, <3>3
  <2>4. Len(collector'.network) = Cardinality(Mine("failed"))' + Cardinality(Mine("response"))'
    <3>1. Len(collector.network) = Cardinality(Mine("failed")) + Cardinality(Mine("response"))
      BY <1>1 DEF Faithful
    <3>2. /\ Mine("failed") \in SUBSET Request /\ Mine("response") \in SUBSET Request
          /\ Cardinality(Mine("failed")) \in Nat /\ Cardinality(Mine("response")) \in Nat
      BY RequestsFinite DEF Mine, Taken
    <3>3. Fails(collector, ev) <=> Kind(ev) \in {"failed", "response"}
      BY <2>1, EndComesLast, <1>1 DEF Fails
    <3>4. CASE ~Fails(collector, ev)
      <4>1. Mine("failed")' = Mine("failed") /\ Mine("response")' = Mine("response")
        BY <3>3, <3>4, DeliversMine, KindsTaken
      <4> QED BY <2>1, <3>1, <3>4, <4>1 DEF HandledAs
    <3>5. PICK f \in Nat, g \in Nat : f = Cardinality(Mine("failed")) /\ g = Cardinality(Mine("response"))
      BY <3>2
    <3>6. CASE Fails(collector, ev)
      <4>1. Len(collector'.network) = Len(collector.network) + 1
        BY <1>4, <2>1, <3>6 DEF HandledAs
      <4>2. CASE Kind(ev) = "failed"
        <5>1. /\ r \notin Mine("failed") /\ Mine("failed")' = Mine("failed") \cup {r}
              /\ Mine("response")' = Mine("response")
          BY <2>1, <4>2, DeliversMine, KindsTaken
        <5>2. Cardinality(Mine("failed") \cup {r}) = Cardinality(Mine("failed")) + 1
          BY <3>2, <5>1, CardinalityOfOneMore
        <5>3. /\ Cardinality(Mine("failed"))' = f + 1 /\ Cardinality(Mine("response"))' = g
              /\ Len(collector'.network) = (f + g) + 1
          BY <3>1, <3>5, <4>1, <5>1, <5>2
        <5>4. (f + g) + 1 = (f + 1) + g
          BY <3>5
        <5> QED BY <5>3, <5>4
      <4>3. CASE Kind(ev) = "response"
        <5>1. /\ r \notin Mine("response") /\ Mine("response")' = Mine("response") \cup {r}
              /\ Mine("failed")' = Mine("failed")
          BY <2>1, <4>3, DeliversMine, KindsTaken
        <5>2. Cardinality(Mine("response") \cup {r}) = Cardinality(Mine("response")) + 1
          BY <3>2, <5>1, CardinalityOfOneMore
        <5>3. /\ Cardinality(Mine("response"))' = g + 1 /\ Cardinality(Mine("failed"))' = f
              /\ Len(collector'.network) = (f + g) + 1
          BY <3>1, <3>5, <4>1, <5>1, <5>2
        <5>4. (f + g) + 1 = f + (g + 1)
          BY <3>5
        <5> QED BY <5>3, <5>4
      <4> QED BY <3>3, <3>6, <4>2, <4>3
    <3> QED BY <3>4, <3>6
  <2>5. \A i \in DOMAIN collector'.network :
          LET e == collector'.network[i] IN e.request \in Of(at) /\ e.url = wire[e.request].url
    <3>1. \A i \in DOMAIN collector.network :
            LET e == collector.network[i] IN e.request \in Of(at) /\ e.url = wire[e.request].url
      BY <1>1 DEF Faithful
    <3>2. CASE ~Fails(collector, ev)
      BY <2>1, <3>1, <3>2 DEF HandledAs
    <3>3. CASE Fails(collector, ev)
      <4>1. PICK e : e = Failure(collector, ev)
        OBVIOUS
      <4>2. e.request = r /\ Kind(ev) \in {"failed", "response"}
        BY <1>1, <3>3, <4>1, FailureFields
      <4>3. e.url = wire[r].url
        <5>1. CASE Kind(ev) = "response"
          BY <1>1, <4>1, <5>1 DEF Failure, Entry, Told
        <5>2. CASE Kind(ev) = "failed"
          <6>1. collector.urls[r] = {wire[r].url}
            BY <1>1, <2>1, <5>2, EndComesLast
          <6>2. e.url = CHOOSE u \in collector.urls[r] : TRUE
            BY <1>1, <4>1, <5>2 DEF Failure, Entry
          <6> QED BY <6>1, <6>2
        <5> QED BY <4>2, <5>1, <5>2
      <4>4. collector'.network = Append(collector.network, e)
        BY <2>1, <3>3, <4>1 DEF HandledAs
      <4>5. \A i \in DOMAIN collector'.network :
              (i \in DOMAIN collector.network /\ collector'.network[i] = collector.network[i]) \/ collector'.network[i] = e
        BY <1>4, <4>4
      <4> QED BY <2>1, <3>1, <4>2, <4>3, <4>5
    <3> QED BY <3>2, <3>3
  <2>6. ASSUME NEW x \in Request, x \in Of(at)
        PROVE  /\ ~Pending(x, "sent")' /\ ~Pending(x, "hop")' => collector'.urls[x] = {wire[x].url}
               /\ x \notin Taken("finished")' => \A n \in (collector'.received[x] + 1) .. wire[x].bytes :
                    \E i \in Places' : Queue'[i].request = x /\ Kind(Queue'[i]) = "data" /\ Queue'[i].nth = n
    <3>1. x \in Taken("finished") => x \in Taken("finished")'
      BY DeliversTaken, KindsTaken
    <3>2. CASE x # r
      <4>1. \A kind : Pending(x, kind) => Pending(x, kind)'
        BY <1>1, <3>2, ShiftedPending
      <4>2. \A i \in Places : Queue[i].request = x => i - 1 \in Places' /\ Queue'[i - 1] = Queue[i]
        BY <1>1, <3>2, ShiftedPlaces
      <4>3. collector'.received[x] = collector.received[x] /\ collector'.urls[x] = collector.urls[x]
        BY <1>1, <2>1, <3>2 DEF HandledAs
      <4> QED BY <1>1, <2>6, <3>1, <4>1, <4>2, <4>3 DEF Faithful
    <3>3. CASE x = r
      <4>1. \A i \in Places : i # 1 => i - 1 \in Places' /\ Queue'[i - 1] = Queue[i]
        BY <1>1, ShiftedPlaces
      <4>2. ASSUME ~Pending(x, "sent")', ~Pending(x, "hop")' PROVE collector'.urls[x] = {wire[x].url}
        <5>1. CASE Kind(ev) \in {"sent", "hop"}
          <6>1. collector'.urls[x] = {ev.url}
            BY <1>1, <2>1, <3>3, <5>1 DEF HandledAs
          <6>2. ~(Kind(ev) = "sent" /\ wire[r].hopped)
            <7> SUFFICES ASSUME Kind(ev) = "sent", wire[r].hopped PROVE FALSE
              OBVIOUS
            <7>1. PICK i \in Places : Queue[i].request = r /\ Kind(Queue[i]) = "hop"
              BY <1>1, ShiftedPlaces DEF InOrder
            <7>2. i # 1
              BY <1>1, <7>1
            <7> QED BY <3>3, <4>1, <4>2, <7>1, <7>2 DEF Pending
          <6> QED BY <1>1, <3>3, <5>1, <6>1, <6>2 DEF Told
        <5>2. CASE Kind(ev) \notin {"sent", "hop"}
          <6>1. ~Pending(x, "sent") /\ ~Pending(x, "hop")
            BY <1>1, <4>2, <5>2, ShiftedPending
          <6>2. collector'.urls[x] = collector.urls[x]
            BY <1>1, <2>1, <5>2 DEF HandledAs
          <6> QED BY <1>1, <2>6, <6>1, <6>2 DEF Faithful
        <5> QED BY <5>1, <5>2
      <4>3. ASSUME x \notin Taken("finished")', NEW n \in (collector'.received[x] + 1) .. wire[x].bytes
            PROVE  \E i \in Places' : Queue'[i].request = x /\ Kind(Queue'[i]) = "data" /\ Queue'[i].nth = n
        <5>1. Kind(ev) # "finished"
          BY <3>3, <4>3, DeliversTaken, KindsTaken
        <5>2. \A m \in (collector.received[x] + 1) .. wire[x].bytes :
                \E i \in Places : Queue[i].request = x /\ Kind(Queue[i]) = "data" /\ Queue[i].nth = m
          BY <1>1, <2>6, <3>1, <4>3 DEF Faithful
        <5>3. CASE Kind(ev) # "data"
          <6>1. collector'.received[x] = collector.received[x]
            BY <1>1, <2>1, <5>1, <5>3 DEF HandledAs
          <6>2. PICK i \in Places : Queue[i].request = x /\ Kind(Queue[i]) = "data" /\ Queue[i].nth = n
            BY <4>3, <5>2, <6>1
          <6>3. i # 1
            BY <1>1, <5>3, <6>2
          <6> QED BY <4>1, <6>2, <6>3
\* The chunk in hand is the one after those received.
        <5>4. CASE Kind(ev) = "data"
          <6> DEFINE got == collector.received[x]
          <6>1. collector'.received[x] = got + 1 /\ got \in Nat /\ wire[x].bytes \in Nat
            BY <1>1, <1>4, <2>1, <3>3, <5>4 DEF HandledAs
          <6>2. n \in (got + 1) .. wire[x].bytes /\ got + 1 \in (got + 1) .. wire[x].bytes /\ n # got + 1
            BY <4>3, <6>1
          <6>3. PICK i \in Places : Queue[i].request = x /\ Kind(Queue[i]) = "data" /\ Queue[i].nth = n
            BY <5>2, <6>2
          <6>4. PICK j \in Places : Queue[j].request = x /\ Kind(Queue[j]) = "data" /\ Queue[j].nth = got + 1
            BY <5>2, <6>2
          <6>5. got < ev.nth /\ ev.nth \in Nat
            BY <1>1, <1>4, <3>3, <5>4, ShiftedPlaces DEF Counted, Told
          <6>6. j = 1
            <7> SUFFICES ASSUME j # 1 PROVE FALSE
              OBVIOUS
            <7>1. ev.nth < got + 1
              BY <1>1, <3>3, <5>4, <6>4, ShiftedPlaces DEF Before
            <7> QED BY <6>1, <6>5, <7>1
          <6>7. i # 1
            BY <6>2, <6>3, <6>4, <6>6
          <6> QED BY <4>1, <6>3, <6>7
        <5> QED BY <5>3, <5>4
      <4> QED BY <4>2, <4>3
    <3> QED BY <3>2, <3>3
  <2>7. Of(at)' \subseteq Request
    BY DEF Of
  <2> QED BY <1>1, <1>3, <2>2, <2>3, <2>4, <2>5, <2>6, <2>7 DEF Faithful
<1> QED BY <1>5, <1>6

LEMMA HandOverInv ==
  ASSUME Inv, HandOver
  PROVE  Inv'
<1>1. PICK r, ev : Delivers(r, ev)
  BY HandOverDelivers
<1> QED BY <1>1, DeliversTyped, DeliversCounted, DeliversCharged, DeliversReported, DeliversFaithful DEF Inv

(***************************************************************************)
(* The invariant holds.                                                    *)
(***************************************************************************)
LEMMA SumOfZeros ==
  ASSUME NEW f, NEW S, IsFiniteSet(S), \A x \in S : f[x] = 0
  PROVE  SumFunctionOnSet(f, S) = 0
<1>1. SumFunctionOnSet(f, S) = Cardinality(Pairs(f, S))
  BY SumCounts
<1>2. Pairs(f, S) = {}
  BY DEF Pairs
<1> QED BY <1>1, <1>2, FS_EmptySet

LEMMA InitInv == Init => Inv
<1> SUFFICES ASSUME Init PROVE Inv
  OBVIOUS
<1>1. /\ at = 0 /\ stage = "idle" /\ cur = 0 /\ live = 0 /\ events = <<>> /\ hand = NoHand /\ stray = FALSE
      /\ collector = Fresh
      /\ \A k \in 1 .. Captures : results[k] = Nothing
      /\ \A r \in Request : wire[r] = Unsent
  BY DEF Init
<1>2. Nothing \in Results /\ Nothing.weight = 0 /\ Nothing.count = 0 /\ DOMAIN Nothing.network = {}
  BY DEF Nothing, Results
<1>3. Typed
  <2>1. results \in [1 .. Captures -> Results] /\ wire \in [Request -> Row]
    BY <1>2, UnsentRow DEF Init
  <2>2. at \in 0 .. Captures /\ live \in Nat /\ cur = (IF stage = "idle" THEN 0 ELSE at)
    BY <1>1, CapturesFinite
  <2>3. events \in Seq(Events)
    BY <1>1
  <2>4. collector \in Collectors
    BY <1>1, FreshFields
  <2>5. stage \in {"idle", "set", "loading", "read"} /\ stray \in BOOLEAN
    BY <1>1
  <2>6. hand = NoHand
    BY <1>1
  <2> QED BY <2>1, <2>2, <2>3, <2>4, <2>5, <2>6, Zenon DEF Typed
<1>4. Placed
  BY <1>1, UnsentRow DEF Placed, Listening
<1>5. Places = {}
  BY <1>1 DEF Places, Queue
<1>6. InOrder /\ Counted
  BY <1>1, <1>5, FreshFields, UnsentRow DEF InOrder, Counted
<1>7. ~Listening /\ ~Straight
  BY <1>1 DEF Listening, Straight
<1>8. Charged
  <2>1. \A k \in 1 .. Captures : Amounts("weight")[k] = 0 /\ Amounts("count")[k] = 0
    BY <1>1, <1>2 DEF Amounts
  <2>2. Total("weight") = 0 /\ Total("count") = 0
    BY <2>1, TotalIs, CapturesFinite, SumOfZeros
  <2>3. Bytes(Taken("finished")) \in Nat /\ Cardinality(Taken("sent")) \in Nat
    BY <1>3, AmountsNatural
  <2> QED BY <1>7, <2>2, <2>3 DEF Charged
<1>9. ReportedOnce
  BY <1>1, <1>2, <1>7 DEF ReportedOnce
<1> QED BY <1>3, <1>4, <1>6, <1>7, <1>8, <1>9 DEF Inv

LEMMA NextInv == Inv /\ [Next]_vars => Inv'
<1> SUFFICES ASSUME Inv, [Next]_vars PROVE Inv'
  OBVIOUS
<1>1. CASE Next
  BY <1>1, StartInv, ReadInv, SkipInv, LeaveInv, LookUpInv, HandOverInv, NavigateInv, BrowserInv DEF Next
<1>2. CASE UNCHANGED vars
  <2>1. UNCHANGED <<at, stage, cur, collector, results, live, wire, events, hand, stray>>
    BY <1>2 DEF vars
  <2>2. Queue' = Queue
    BY <2>1, QueueKept
  <2>3. Typed /\ Placed /\ InOrder /\ Counted /\ Charged /\ ReportedOnce
    BY DEF Inv
  <2>4. Typed' /\ Placed'
    BY <2>1, <2>3 DEF Typed, Placed, Listening
  <2>5. InOrder' /\ Counted' /\ Charged' /\ ReportedOnce'
    BY <2>1, <2>2, <2>3, SameQueue, SameCounted, SameReports DEF Listening
  <2>6. ASSUME Straight' PROVE Faithful'
    <3>1. Faithful
      BY <2>1, <2>6 DEF Inv, Straight, Listening
    <3>2. SameFaith
      BY <2>1, <2>2 DEF SameFaith
    <3>3. hand' # NoHand => (hand'.to = at' <=> wire'[hand'.event.request].by = at')
      BY <2>1, <3>1 DEF Faithful
    <3> QED BY <2>3, <3>1, <3>2, <3>3, FaithfulKept
  <2> QED BY <2>4, <2>5, <2>6 DEF Inv
<1> QED BY <1>1, <1>2

(***************************************************************************)
(* What it shows.                                                          *)
(***************************************************************************)
LEMMA AtMostOnce ==
  ASSUME NEW S, \A p, q \in S : p = q
  PROVE  Cardinality(S) \in {0, 1} /\ (S = {} => Cardinality(S) = 0)
<1>1. CASE S = {}
  BY <1>1, FS_EmptySet
<1>2. CASE S # {}
  <2>1. PICK p : S = {p}
    BY <1>2
  <2> QED BY <1>2, <2>1, FS_Singleton
<1> QED BY <1>1, <1>2

LEMMA InvChargedOnce == Inv => ChargedOnce
<1> SUFFICES ASSUME Inv PROVE ChargedOnce
  OBVIOUS
<1>1. Typed /\ Placed /\ Charged /\ ReportedOnce
  BY DEF Inv
<1>2. /\ Total("weight") \in Nat /\ Total("count") \in Nat /\ Bytes(Taken("finished")) \in Nat
      /\ Cardinality(Taken("sent")) \in Nat /\ collector.weight \in Nat /\ collector.count \in Nat
  BY <1>1, AmountsNatural DEF Typed, Collectors
<1>3. Total("weight") <= Bytes(Taken("finished")) /\ Total("count") <= Cardinality(Taken("sent"))
  BY <1>1, <1>2 DEF Charged
<1>4. Total("weight") <= Bytes(Request)
  <2>1. Taken("finished") \in SUBSET Request /\ IsFiniteSet(Request)
    BY CollectorAssumption DEF Taken
  <2>2. \A r \in Request : Weights[r] \in Nat
    BY <1>1, WeightsNatural
  <2>3. SumFunctionOnSet(Weights, Taken("finished")) <= SumFunctionOnSet(Weights, Request)
    BY <2>1, <2>2, SumOfPart
  <2>4. SumFunctionOnSet(Weights, Request) \in Nat
    BY <2>1, <2>2, SumNatural
  <2>5. Bytes(Taken("finished")) <= Bytes(Request) /\ Bytes(Request) \in Nat
    BY <2>3, <2>4 DEF Bytes, Weights
  <2> QED BY <1>2, <1>3, <2>5
<1>5. Total("count") <= Cardinality({r \in Request : wire[r] # Unsent})
  <2> DEFINE sent == {r \in Request : wire[r] # Unsent}
  <2>1. Taken("sent") \in SUBSET sent
    BY <1>1, UnsentRow DEF Taken, Reached
  <2>2. sent \in SUBSET Request
    OBVIOUS
  <2> HIDE DEF sent
  <2>3. IsFiniteSet(sent) /\ Cardinality(sent) \in Nat
    BY <2>2, RequestsFinite
  <2>4. Cardinality(Taken("sent")) <= Cardinality(sent)
    BY <2>1, <2>3, FS_Subset
  <2>5. Total("count") <= Cardinality(sent)
    BY <1>2, <1>3, <2>3, <2>4
  <2> QED BY <2>5 DEF sent
<1>6. ASSUME NEW r \in Request, NEW why, NEW p \in Reports(r, why)
      PROVE  \E k \in 1 .. Captures : \E i \in DOMAIN results[k].network :
               p = <<k, i>> /\ Report(k, i).request = r /\ Report(k, i).reason = why
  <2>1. PICK k \in 1 .. Captures : p \in {k} \X DOMAIN results[k].network
    BY DEF Reports
  <2>2. PICK i \in DOMAIN results[k].network : p = <<k, i>>
    BY <2>1
  <2>3. p[1] = k /\ p[2] = i
    BY <2>2
  <2> QED BY <2>2, <2>3 DEF Reports, Report
<1>7. ASSUME NEW r \in Request, NEW why
      PROVE  /\ \A p, q \in Reports(r, why) : p = q
             /\ Reports(r, why) # {} => r \in Taken(IF why = "failed" THEN "failed" ELSE "response")
  <2>1. ASSUME NEW p \in Reports(r, why), NEW q \in Reports(r, why) PROVE p = q
    BY <1>1, <1>6 DEF ReportedOnce, Same
  <2>2. ASSUME NEW p \in Reports(r, why) PROVE r \in Taken(IF why = "failed" THEN "failed" ELSE "response")
    BY <1>1, <1>6 DEF ReportedOnce, Behind
  <2> QED BY <2>1, <2>2
<1>8. ASSUME NEW r \in Request
      PROVE  /\ Times(r, "failed") <= IF wire[r].status = "failed" THEN 1 ELSE 0
             /\ Times(r, "http_status") <= IF wire[r].bad THEN 1 ELSE 0
  <2>1. /\ Times(r, "failed") \in {0, 1} /\ Times(r, "http_status") \in {0, 1}
        /\ Reports(r, "failed") = {} => Times(r, "failed") = 0
        /\ Reports(r, "http_status") = {} => Times(r, "http_status") = 0
    BY <1>7, AtMostOnce DEF Times
  <2>2. Reports(r, "failed") # {} => wire[r].status = "failed"
    BY <1>7 DEF Taken, Reached
  <2>3. Reports(r, "http_status") # {} => wire[r].bad
    BY <1>7 DEF Taken, Reached
  <2> QED BY <2>1, <2>2, <2>3
<1> QED BY <1>4, <1>5, <1>8 DEF ChargedOnce

\* A page at rest has taken all that happened to its requests.
LEMMA InvExact ==
  ASSUME OwnOrigin, Inv, Resting, ~stray
  PROVE  Exact(at, PageResult(collector))
<1>1. Typed /\ Placed /\ InOrder /\ Faithful
  BY DEF Inv, Resting, Straight, Listening
<1>2. Places = {}
  BY DEF Resting, Places, Queue
<1>3. \A kind : Mine(kind) = {r \in Of(at) : Reached(wire[r], kind)}
  <2>1. \A kind, r : ~Pending(r, kind)
    BY <1>2 DEF Pending
  <2> QED BY <2>1 DEF Mine, Taken, Of
<1>4. at # 0 /\ at \in Nat
  BY <1>1 DEF Placed, Typed, Resting, Listening
<1>5. Mine("sent") = Of(at)
  <2>1. \A r \in Of(at) : wire[r].status # "unsent"
    BY <1>1, <1>4, UnsentRow DEF Of, Placed
  <2> QED BY <1>3, <2>1 DEF Reached
<1>6. Mine("finished") = {r \in Of(at) : wire[r].status = "finished"}
  BY <1>3 DEF Reached
<1>7. Mine("failed") = {r \in Of(at) : wire[r].status = "failed"}
  BY <1>3 DEF Reached
<1>8. Mine("response") = {r \in Of(at) : wire[r].bad}
  BY <1>3 DEF Reached
<1> DEFINE res == PageResult(collector)
<1>9. /\ res.count = collector.count /\ res.weight = collector.weight
      /\ Len(res.network) = Len(collector.network)
      /\ DOMAIN res.network = DOMAIN collector.network
      /\ \A i \in DOMAIN collector.network :
           /\ res.network[i].request = collector.network[i].request
           /\ res.network[i].first = SameOrigin(PageURL, collector.network[i].url)
  BY <1>1, PageResultFields
<1> HIDE DEF res
<1>10. /\ res.count = Cardinality(Of(at))
       /\ res.weight = Bytes({r \in Of(at) : wire[r].status = "finished"})
       /\ Len(res.network) = Cardinality({r \in Of(at) : wire[r].status = "failed"}) + Cardinality({r \in Of(at) : wire[r].bad})
  BY <1>1, <1>5, <1>6, <1>7, <1>8, <1>9 DEF Faithful
<1>11. ASSUME NEW i \in DOMAIN res.network
       PROVE  res.network[i].first = (wire[res.network[i].request].url \in Own)
  <2>1. PICK e : e = collector.network[i]
    OBVIOUS
  <2>2. e.request \in Of(at) /\ e.url = wire[e.request].url
    BY <1>1, <1>9, <2>1 DEF Faithful
  <2>3. e.url \in Url \cup {PageURL}
    BY <1>1, <2>2, RowFields DEF Of, Typed, Addresses
  <2>4. SameOrigin(PageURL, e.url) = (e.url \in Own)
    <3>1. SameOrigin(PageURL, e.url) <=> e.url \in Own
      BY <2>3 DEF OwnOrigin
    <3>2. SameOrigin(PageURL, e.url) \in BOOLEAN
      BY DEF SameOrigin
    <3> HIDE DEF SameOrigin
    <3> QED BY <3>1, <3>2
  <2> QED BY <1>9, <2>1, <2>2, <2>4
<1> QED BY <1>10, <1>11 DEF Exact, res

\* What a page is charged with is its own and counted once, provided Own is
\* drawn along origins (collector.handle, session.handle, capturePage).
THEOREM PagesAreCharged ==
  ASSUME OwnOrigin
  PROVE  Spec => []Attribution
<1>1. Inv => Attribution
  BY InvChargedOnce, InvExact DEF Attribution
<1> QED BY <1>1, InitInv, NextInv, PTL DEF Spec
=============================================================================
