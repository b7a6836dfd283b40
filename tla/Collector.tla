----------------------------- MODULE Collector -----------------------------
(***************************************************************************)
(* What a page is charged with (internal/crawler: session, collector,      *)
(* capturePage, classify.go).  One tab serves every capture.  Its network  *)
(* events arrive in order but late, on a goroutine that first looks up the *)
(* collector of the current capture and then, unlocked, hands the event    *)
(* over; meanwhile the capture may read its collector and go.              *)
(***************************************************************************)
EXTENDS FiniteSetsExt, Sequences

CONSTANTS
  Captures,    \* bound: captures of the crawl, one after another
  Request,     \* bound: request ids the browser hands out
  PageURL, Url,
  Own,         \* the URLs meant to be of the page's own origin
  MaxBytes,    \* bound: chunks of a response
  MaxLag       \* bound: events on their way

ASSUME CollectorAssumption ==
  PageURL \in Own /\ IsFiniteSet(Request) /\ Captures \in Nat /\ MaxBytes \in Nat /\ MaxLag \in Nat

VARIABLES
  at, stage,   \* the capture under way and its place in capturePage
  cur,         \* session.cur: the capture whose collector listens, or 0
  collector,   \* the collector of capture at
  results,     \* what each capture reported
  live,        \* the capture whose page the tab shows
  wire,        \* every request: who issued it, its URL, what became of it
  events,      \* sent by the browser, not yet looked at
  hand,        \* the event in the listener's hands with its collector
  stray        \* history: an event of capture at went elsewhere, or it got another's

vars == <<at, stage, cur, collector, results, live, wire, events, hand, stray>>

(* classify.go                                                             *)
DefaultPort == [https |-> 443, http |-> 80]
originKey(u) ==
  IF u.port = 0 /\ u.scheme \in DOMAIN DefaultPort THEN [u EXCEPT !.port = DefaultPort[u.scheme]] ELSE u
SameOrigin(base, u) ==
  \/ u.scheme \in {"data", "blob", "about", "javascript"}
  \/ originKey(base) = originKey(u)

(* The collector.                                                          *)
Fresh   == [urls |-> [r \in Request |-> {}], received |-> [r \in Request |-> 0], count |-> 0, weight |-> 0,
            network |-> <<>>]
Nothing == [count |-> 0, weight |-> 0, network |-> <<>>]
NoHand  == [type |-> "none"]
Unsent  == [by |-> 0, doc |-> FALSE, url |-> PageURL, bytes |-> 0, status |-> "unsent",
            bad |-> FALSE, hopped |-> FALSE]

Entry(r, u, why) == [request |-> r, url |-> u, reason |-> why, first |-> FALSE]

\* Mutant: the chunks are added to the total instead of standing in for it.
TotalAndChunks(c, ev) == ev.total + c.received[ev.request]
\* A total of zero, which is what a document reports, stands for its chunks.
Transferred(c, ev) == IF ev.total = 0 THEN c.received[ev.request] ELSE ev.total

\* A hop of a redirect counts no request; an abort is no failure, nor is one of
\* a request this collector never saw.
handle(c, ev) ==
  CASE ev.type = "sent"     -> [c EXCEPT !.urls[ev.request] = {ev.url},
                                         !.count = IF ev.hop THEN @ ELSE @ + 1]
    [] ev.type = "data"     -> [c EXCEPT !.received[ev.request] = @ + 1]
    [] ev.type = "finished" -> [c EXCEPT !.weight = @ + Transferred(c, ev),
                                         !.received[ev.request] = 0]
    [] ev.type = "response" -> [c EXCEPT !.network = Append(@, Entry(ev.request, ev.url, "http_status"))]
    [] ev.type = "failed"   -> IF ev.aborted \/ c.urls[ev.request] = {} THEN c
                               ELSE LET u == CHOOSE u \in c.urls[ev.request] : TRUE
                                    IN  [c EXCEPT !.network = Append(@, Entry(ev.request, u, "failed"))]

\* Each failure is told whether it is of the page's own origin.
PageResult(c) ==
  [count |-> c.count, weight |-> c.weight,
   network |-> [i \in DOMAIN c.network |-> [c.network[i] EXCEPT !.first = SameOrigin(PageURL, c.network[i].url)]]]

Init ==
  /\ at = 0 /\ stage = "idle" /\ cur = 0 /\ live = 0 /\ events = <<>> /\ hand = NoHand /\ stray = FALSE
  /\ collector = Fresh
  /\ results = [k \in 1 .. Captures |-> Nothing]
  /\ wire = [r \in Request |-> Unsent]

capture == <<at, stage, cur, results>>
browser == <<live, wire, events>>

(* capturePage                                                             *)
Start ==
  /\ stage = "idle" /\ at < Captures
  /\ at' = at + 1 /\ cur' = at + 1 /\ stage' = "set" /\ stray' = FALSE
  /\ UNCHANGED <<collector, results, browser, hand>>

\* Every request of the document and of the page that is live goes to the tail
\* of the queue; those of the page before may still be on their way.
Send(ev) == Len(events) < MaxLag /\ events' = Append(events, ev)
Sent(r, u, hop) == [type |-> "sent", request |-> r, url |-> u, hop |-> hop]
Issued(r, by, u, doc) == [Unsent EXCEPT !.by = by, !.url = u, !.doc = doc, !.status = "loading"]

Navigate(r) ==
  /\ stage = "set" /\ wire[r] = Unsent
  /\ stage' = "loading" /\ live' = at
  /\ wire' = [wire EXCEPT ![r] = Issued(r, at, PageURL, TRUE)]
  /\ Send(Sent(r, PageURL, FALSE))
  /\ UNCHANGED <<at, cur, results, collector, hand, stray>>

\* The body is ready and the settle time over: the collector is read as it is.
Read ==
  /\ stage = "loading" /\ stage' = "read"
  /\ results' = [results EXCEPT ![at] = PageResult(collector)]
  /\ UNCHANGED <<at, cur, collector, browser, hand, stray>>

\* A step of the capture fails or its time is up: the page is left out.
Skip ==
  /\ stage \in {"set", "loading"} /\ stage' = "read"
  /\ UNCHANGED <<at, cur, results, collector, browser, hand, stray>>

\* Nobody looks at the collector again.
Leave ==
  /\ stage = "read" /\ stage' = "idle" /\ cur' = 0 /\ collector' = Fresh
  /\ UNCHANGED <<at, results, browser, hand, stray>>

(* The browser.                                                            *)
Loading(r) == wire[r].status = "loading"

Issue(r) ==
  /\ live # 0 /\ wire[r] = Unsent
  /\ \E u \in Url : Send(Sent(r, u, FALSE)) /\ wire' = [wire EXCEPT ![r] = Issued(r, live, u, FALSE)]

Redirect(r) ==
  /\ Loading(r) /\ ~wire[r].hopped /\ wire[r].bytes = 0 /\ ~wire[r].bad
  /\ \E u \in Url : Send(Sent(r, u, TRUE)) /\ wire' = [wire EXCEPT ![r].url = u, ![r].hopped = TRUE]

\* nth is history: the code counts no chunks.
Chunk(r) ==
  /\ Loading(r) /\ wire[r].bytes < MaxBytes
  /\ Send([type |-> "data", request |-> r, nth |-> wire[r].bytes + 1])
  /\ wire' = [wire EXCEPT ![r].bytes = @ + 1]

\* An answer of 400 or more.
Respond(r) ==
  /\ Loading(r) /\ ~wire[r].bad
  /\ Send([type |-> "response", request |-> r, url |-> wire[r].url]) /\ wire' = [wire EXCEPT ![r].bad = TRUE]

Finish(r) ==
  /\ Loading(r)
  /\ Send([type |-> "finished", request |-> r, total |-> IF wire[r].doc THEN 0 ELSE wire[r].bytes])
  /\ wire' = [wire EXCEPT ![r].status = "finished"]

Fail(r) ==
  /\ Loading(r)
  /\ \E how \in {"failed", "aborted"} :
       /\ Send([type |-> "failed", request |-> r, aborted |-> how = "aborted"])
       /\ wire' = [wire EXCEPT ![r].status = how]

Browser(r) ==
  /\ Issue(r) \/ Redirect(r) \/ Chunk(r) \/ Respond(r) \/ Finish(r) \/ Fail(r)
  /\ UNCHANGED <<live, capture, collector, hand, stray>>

(* session.handle: the collector is looked up under one lock, the event    *)
(* handled under another.                                                  *)
LookUp ==
  /\ hand = NoHand /\ events # <<>>
  /\ hand' = [type |-> "event", event |-> Head(events), to |-> cur]
  /\ events' = Tail(events)
  /\ LET by == wire[Head(events).request].by
     IN  stray' = (stray \/ (by # cur /\ at \in {by, cur}))
  /\ UNCHANGED <<capture, collector, live, wire>>

HandOver ==
  /\ hand # NoHand /\ hand' = NoHand
  /\ collector' = IF hand.to = at /\ cur = at THEN handle(collector, hand.event) ELSE collector
  /\ UNCHANGED <<capture, browser, stray>>

Next ==
  \/ Start \/ Read \/ Skip \/ Leave \/ LookUp \/ HandOver
  \/ \E r \in Request : Navigate(r) \/ Browser(r)

Spec == Init /\ [][Next]_vars

----------------------------------------------------------------------------
Total(part) == SumFunction([k \in 1 .. Captures |-> results[k][part]])
Bytes(requests) == SumFunctionOnSet([r \in Request |-> wire[r].bytes], requests)
Of(k) == {r \in Request : wire[r].by = k}
\* Where a failure of the request is reported, in all captures.
Reports(r, why) ==
  {p \in UNION {{k} \X DOMAIN results[k].network : k \in 1 .. Captures} :
     LET e == results[p[1]].network[p[2]] IN e.request = r /\ e.reason = why}
Times(r, why) == Cardinality(Reports(r, why))

\* However late its events come, no byte and no request is charged twice, to
\* one page or to two, and only a failed or refused request is reported, once.
ChargedOnce ==
  /\ Total("weight") <= Bytes(Request)
  /\ Total("count") <= Cardinality({r \in Request : wire[r] # Unsent})
  /\ \A r \in Request : /\ Times(r, "failed") <= IF wire[r].status = "failed" THEN 1 ELSE 0
                        /\ Times(r, "http_status") <= IF wire[r].bad THEN 1 ELSE 0

\* A page that has come to rest, and no event of which went astray, is
\* about to report what it did: its requests, a redirected one once; the
\* bytes of those that finished, the document included; and its failures,
\* none dropped, by origin.
Exact(k, res) ==
  /\ res.count = Cardinality(Of(k))
  /\ res.weight = Bytes({r \in Of(k) : wire[r].status = "finished"})
  /\ Len(res.network) = Cardinality({r \in Of(k) : wire[r].status = "failed"}) + Cardinality({r \in Of(k) : wire[r].bad})
  /\ \A i \in DOMAIN res.network : res.network[i].first = (wire[res.network[i].request].url \in Own)
Resting == stage = "loading" /\ events = <<>> /\ hand = NoHand /\ \A r \in Of(at) : ~Loading(r)

\* What a page is charged with is its own and counted once (collector.handle,
\* session.handle, capturePage, SameOrigin).
Attribution == ChargedOnce /\ (Resting /\ ~stray => Exact(at, PageResult(collector)))

\* Own is drawn along origins: the URLs of the page's own are those of one
\* scheme, host and port with it, and those that name no host (classify.go).
OwnOrigin == \A u \in Url \cup {PageURL} : u \in Own <=> SameOrigin(PageURL, u)
=============================================================================
