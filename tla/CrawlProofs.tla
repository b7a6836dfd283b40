----------------------------- MODULE CrawlProofs -----------------------------
(* Proofs about Crawl, for any site, list of recipes, budget and behaviour of the pages. *)
EXTENDS Crawl, FiniteSetTheorems, TLAPS

-----------------------------------------------------------------------------
(* Least and greatest elements, which the operators below CHOOSE.          *)

\* A set of natural numbers has a least element.
LEMMA Least ==
  ASSUME NEW S, S # {}, S \subseteq Nat
  PROVE  \E i \in S : \A j \in S : i <= j
<1>1. PICK i \in S : \A j \in S : <<j, i>> \notin OpToRel(<, Nat)
  BY WFMin, NatLessThanWellFounded, Zenon
<1>2. \A j \in S : ~ (j < i)
  BY <1>1, Zenon DEF OpToRel
<1> QED BY <1>2

\* One that is bounded has a greatest.
LEMMA Greatest ==
  ASSUME NEW n \in Nat, NEW S, S # {}, \A i \in S : i \in 0 .. n
  PROVE  \E i \in S : \A j \in S : j <= i
<1> DEFINE T == {m \in 0 .. n : n - m \in S}
<1>1. T # {} /\ T \subseteq Nat
  <2>1. PICK i \in S : TRUE
    OBVIOUS
  <2>2. n - i \in 0 .. n /\ n - (n - i) = i
    BY <2>1
  <2>3. n - i \in T
    BY <2>1, <2>2
  <2> QED BY <2>3
<1>2. PICK m \in T : \A k \in T : m <= k
  BY <1>1, Least
<1>3. \A j \in S : n - j \in T
  <2> SUFFICES ASSUME NEW j \in S PROVE n - j \in T
    OBVIOUS
  <2>1. n - j \in 0 .. n /\ n - (n - j) = j
    OBVIOUS
  <2> QED BY <2>1
<1>4. n - m \in S /\ \A j \in S : j <= n - m
  BY <1>2, <1>3
<1> QED BY <1>4

-----------------------------------------------------------------------------
(* The address of the favicon.                                             *)

\* The address a favicon is fetched from is in policy for the host it was resolved for.
LEMMA PinnedAllowed ==
  ASSUME NEW host, NEW answer \in Answers
  PROVE  /\ pinnedIP(host, answer) \in Address \cup {"none"}
         /\ pinnedIP(host, answer) # "none" => ipAllowed(host, pinnedIP(host, answer))
<1> DEFINE ips  == Addresses(host, answer)
           good == {i \in DOMAIN ips : ipAllowed(host, ips[i])}
           least == CHOOSE i \in good : \A j \in good : i <= j
<1>1. ips \in Seq(Address)
  BY GuardAssumption, CrawlAssumption DEF Addresses
<1>2. \A i \in good : i \in Nat /\ ips[i] \in Address
  BY <1>1
<1>3. ASSUME good # {} PROVE least \in good
  <2>1. good \subseteq Nat
    BY <1>2
  <2>2. \E i \in good : \A j \in good : i <= j
    BY <1>3, <2>1, Least
  <2> QED BY <2>2
<1>4. pinnedIP(host, answer) = IF good = {} THEN "none" ELSE ips[least]
  BY DEF pinnedIP
<1> HIDE DEF ips, least
<1> QED BY <1>2, <1>3, <1>4

-----------------------------------------------------------------------------
(* How long a recipe may take.                                             *)

B(r) == stepTimeout + worstWait(r)

\* The seconds a step of a recipe may take are at most those of a step in the budget.
LEMMA Waits ==
  ASSUME NEW r \in Recipes
  PROVE  /\ r \in Seq(Step) /\ Len(r) \in Nat /\ B(r) \in Nat
         /\ \A i \in 1 .. Len(r) : Slowest(r[i]) \in Nat /\ Slowest(r[i]) <= B(r)
<1> DEFINE at    == {j \in DOMAIN r : r[j].type = "waitFor"}
           waits == {waitTimeout(r[i].timeout) : i \in at} \cup {0}
<1>1. r \in Seq(Step) /\ Len(r) \in Nat /\ DOMAIN r = 1 .. Len(r)
  BY RecipeAssumption
<1>2. ASSUME NEW i \in at PROVE r[i].timeout \in 0 .. MaxWaitTimeout
  <2>1. r # <<>>
    BY <1>1
  <2>2. ValidStep(r[i])
    BY <1>1, <2>1, RecipeAssumption DEF Validate
  <2> QED BY <1>2, <2>2 DEF ValidStep
<1>3. waits # {} /\ \A w \in waits : w \in 0 .. 120
  BY <1>2 DEF waitTimeout, MaxWaitTimeout, DefaultWaitTimeout
<1>4. worstWait(r) = CHOOSE w \in waits : \A v \in waits : v <= w
  BY DEF worstWait
<1> HIDE DEF waits
<1>5. \E w \in waits : \A v \in waits : v <= w
  BY <1>3, Greatest
<1>6. worstWait(r) \in waits /\ \A v \in waits : v <= worstWait(r)
  BY <1>4, <1>5
<1>7. worstWait(r) \in Nat
  BY <1>3, <1>6
<1>8. \A w \in waits : w \in Nat
  BY <1>3
<1>9. ASSUME NEW i \in 1 .. Len(r) PROVE Slowest(r[i]) \in Nat /\ Slowest(r[i]) <= B(r)
  <2>1. CASE r[i].type = "waitFor"
    <3>1. waitTimeout(r[i].timeout) \in waits
      BY <1>1, <2>1 DEF waits
    <3>2. waitTimeout(r[i].timeout) \in Nat /\ waitTimeout(r[i].timeout) <= worstWait(r)
      BY <1>6, <1>7, <1>8, <3>1
    <3>3. Slowest(r[i]) = waitTimeout(r[i].timeout)
      BY <2>1 DEF Slowest
    <3> QED BY <1>7, <3>2, <3>3 DEF B, stepTimeout
  <2>2. CASE r[i].type # "waitFor"
    BY <1>7, <2>2 DEF Slowest, B, stepTimeout
  <2> QED BY <2>1, <2>2
<1> QED BY <1>1, <1>7, <1>9 DEF B, stepTimeout

-----------------------------------------------------------------------------
(* Types and places.                                                       *)

Before == {"start", "probe", "intercept", "login"}
Busy   == pc \in {"capture", "follow"}

\* What the session has done so far, by place.
Placed ==
  /\ pc \in Before => outcome = Outcome("none")
  /\ pc \in Before \cup {"landed"} =>
       queue = <<>> /\ pages = <<>> /\ found = {} /\ links = <<>>
  /\ pc = "capture" => vp \in 1 .. Viewports
  /\ Busy => cur \in Item
  /\ dialled # "none" => pc = "over"

LEMMA Ended ==
  /\ \A end \in {"none", "done", "error", "login", "stalled"} : Outcome(end) \in Outcomes
  /\ \A o \in Outcomes, u \in Urls \cup Canonical \cup {Blank} :
       [o EXCEPT !.end = "done", !.shot = u] \in Outcomes /\ [o EXCEPT !.ok = TRUE] \in Outcomes
BY DEF Outcome, Outcomes

LEMMA Starts == Init => TypeOK /\ Placed
<1> SUFFICES ASSUME Init PROVE TypeOK /\ Placed
  OBVIOUS
<1>1. /\ queue \in Seq(Item) /\ pages \in Seq(PageRow) /\ links \in Seq(Urls)
      /\ refused \subseteq Canonical /\ found \subseteq Canonical \X Urls
  BY DEF Init
<1>2. DOMAIN visited \subseteq Canonical /\ \A u \in DOMAIN visited : visited[u] \in 0 .. MaxDepth
  BY DEF Init
<1>3. outcome \in Outcomes
  BY Ended DEF Init
<1>4. recipe \in Recipes /\ step \in 0 .. Len(recipe) + 1 /\ elapsed \in Nat
  BY Waits DEF Init
<1>5. vp \in 0 .. Viewports
  BY CrawlAssumption DEF Init
<1>6. /\ pc \in Place /\ parked \in BOOLEAN /\ mode \in {"crawl", "probe"}
      /\ tab \in Urls \cup Canonical \cup {Blank} /\ aborted \in BOOLEAN
      /\ cur \in Item \cup {NoItem} /\ favicon \in Urls \cup {NoUrl}
      /\ dialled \in Address \cup {"none"}
  BY DEF Init, Place
<1>7. TypeOK
  BY <1>1, <1>2, <1>3, <1>4, <1>5, <1>6 DEF TypeOK
<1> QED
  BY <1>7 DEF Init, Placed, Before, Busy

\* The end of a session, however it comes about.
LEMMA Ending ==
  ASSUME TypeOK, Placed, NEW o \in Outcomes, Ends(o), UNCHANGED <<mode, page, crawl, item>>,
         recipe' = recipe, step' = step, elapsed' \in Nat
  PROVE  TypeOK' /\ Placed'
<1> USE DEF Ends, page, crawl, item
<1>1. TypeOK'
  BY DEF TypeOK, Place
<1>2. Placed'
  BY DEF Placed, Before, Busy
<1> QED BY <1>1, <1>2

LEMMA LoginTypes ==
  ASSUME TypeOK, Placed, BringUp \/ NoLogin \/ Preflight \/ LoginStep \/ Landing \/ Begin
  PROVE  TypeOK' /\ Placed'
<1> USE DEF login, page, crawl, item, result, At, Before, Busy
<1>1. ASSUME pc = "login", LoginFails, UNCHANGED step, elapsed' \in Nat PROVE TypeOK' /\ Placed'
  <2>1. CASE mode = "crawl"
    BY <1>1, <2>1, Ended, Ending DEF LoginFails, Over
  <2>2. CASE mode # "crawl"
    <3>1. pc' = "check" /\ outcome' \in Outcomes
      BY <1>1, <2>2, Ended DEF LoginFails
    <3>2. TypeOK'
      BY <1>1, <2>2, <3>1 DEF LoginFails, TypeOK, Place
    <3> QED BY <1>1, <2>2, <3>1, <3>2 DEF LoginFails, Placed
  <2> QED BY <2>1, <2>2
<1>2. CASE BringUp
  <2>1. CASE Over("error")
    BY <1>2, <2>1, Ended, Ending DEF BringUp, Over, TypeOK
  <2>2. CASE pc' = NextUp[pc] /\ UNCHANGED <<parked, result>>
    <3>1. pc \in Before /\ pc' \in {"probe", "intercept", "login"}
      BY <1>2, <2>2 DEF BringUp, NextUp
    <3>2. TypeOK'
      BY <1>2, <2>2, <3>1 DEF BringUp, TypeOK, Place
    <3> QED BY <1>2, <2>2, <3>1, <3>2 DEF BringUp, Placed
  <2> QED BY <1>2, <2>1, <2>2 DEF BringUp
<1>3. CASE NoLogin
  BY <1>3 DEF NoLogin, TypeOK, Placed, Place
<1>4. CASE Preflight
  <2>1. CASE step' = 1 /\ UNCHANGED <<pc, parked, mode, recipe, elapsed, page, crawl, item, result>>
    <3>1. 1 \in 0 .. Len(recipe) + 1
      BY Waits DEF TypeOK
    <3> QED BY <2>1, <3>1 DEF TypeOK, Placed
  <2>2. CASE LoginFails /\ UNCHANGED <<step, elapsed>>
    BY <1>1, <1>4, <2>2 DEF Preflight, TypeOK
  <2> QED BY <1>4, <2>1, <2>2 DEF Preflight
<1>5. CASE LoginStep
  <2>0. recipe \in Seq(Step) /\ Len(recipe) \in Nat /\ step \in 1 .. Len(recipe)
    BY <1>5, Waits DEF LoginStep, TypeOK
  <2>1. elapsed' \in Nat
    <3>1. NextSlowest \in Nat
      BY <2>0, Waits DEF NextSlowest, TypeOK
    <3> QED BY <1>5, <3>1 DEF LoginStep, Spend, TypeOK
  <2>2. CASE /\ step' = step + 1
             /\ IF recipe[step].type = "goto"
                  THEN \E answer \in Answers : checkNav(recipe[step].url, answer) /\ tab' = recipe[step].url
                  ELSE tab' = tab
             /\ UNCHANGED <<pc, parked, mode, recipe, aborted, crawl, item, result>>
    <3>1. recipe[step].type = "goto" => recipe[step].url \in Urls
      <4>1. recipe[step] \in Step /\ ValidStep(recipe[step])
        BY <2>0, RecipeAssumption DEF TypeOK, Validate
      <4> QED BY <4>1 DEF Step, ValidStep
    <3>2. tab' \in Urls \cup Canonical \cup {Blank}
      BY <2>2, <3>1 DEF TypeOK
    <3>3. step' \in 0 .. Len(recipe) + 1
      BY <2>0, <2>2
    <3>4. TypeOK'
      BY <2>1, <2>2, <3>2, <3>3 DEF TypeOK
    <3> QED BY <2>2, <3>4 DEF Placed
  <2>3. CASE LoginFails /\ UNCHANGED step
    BY <1>1, <1>5, <2>1, <2>3 DEF LoginStep
  <2> QED BY <1>5, <2>2, <2>3 DEF LoginStep
<1>6. CASE Landing
  <2>1. CASE pc' = "landed" /\ UNCHANGED <<parked, mode, login, page, crawl, item, result>>
    BY <1>6, <2>1 DEF Landing, TypeOK, Placed, Place
  <2>2. CASE LoginFails /\ UNCHANGED <<step, elapsed>>
    BY <1>1, <1>6, <2>2 DEF Landing, TypeOK
  <2> QED BY <1>6, <2>1, <2>2 DEF Landing
<1>7. CASE Begin
  <2>1. CASE mode = "probe"
    <3>1. pc' = "check" /\ outcome' \in Outcomes
      BY <1>7, <2>1, Ended DEF Begin, TypeOK
    <3>2. TypeOK'
      BY <1>7, <2>1, <3>1 DEF Begin, TypeOK, Place
    <3> QED BY <1>7, <2>1, <3>1, <3>2 DEF Begin, Placed
  <2>2. CASE mode # "probe"
    <3> DEFINE start == canonicalURL(BaseURL)
    <3>1. start \in Canonical
      BY CrawlAssumption DEF Canonical
    <3>0. queue' = <<[url |-> start, depth |-> 0]>> /\ visited' = [u \in {start} |-> 0]
      BY <1>7, <2>2 DEF Begin
    <3> HIDE DEF start
    <3>2. queue' \in Seq(Item) /\ DOMAIN visited' = {start} /\ visited'[start] = 0
      BY <3>0, <3>1 DEF Item
    <3>3. \A u \in DOMAIN visited' : visited'[u] \in 0 .. MaxDepth
      BY <3>2, CrawlAssumption
    <3>4. step' \in 0 .. Len(recipe') + 1
      BY <1>7, <2>2, Waits DEF Begin, TypeOK
    <3>5. TypeOK'
      BY <1>7, <2>2, <3>1, <3>2, <3>3, <3>4 DEF Begin, TypeOK, Place
    <3> QED BY <1>7, <2>2, <3>5 DEF Begin, Placed
  <2> QED BY <2>1, <2>2
<1> QED BY <1>2, <1>3, <1>4, <1>5, <1>6, <1>7

LEMMA CrawlTypes ==
  ASSUME TypeOK, Placed, Take \/ Capture \/ CaptureFails \/ Follow \/ PageDone \/ LoopEnds \/ Favicon
  PROVE  TypeOK' /\ Placed'
<1> USE CrawlAssumption
<1> USE DEF login, page, crawl, item, result, At, Before, Busy
<1>1. CASE Take
  <2>1. queue # <<>> /\ Head(queue) \in Item /\ Tail(queue) \in Seq(Item)
    BY <1>1 DEF Take, Crawling, TypeOK
  <2>2. Head(queue).url \in Canonical /\ 1 \in 1 .. Viewports
    BY <2>1 DEF Item
  <2>3. TypeOK'
    BY <1>1, <2>1, <2>2 DEF Take, TypeOK, Place
  <2>4. Placed'
    BY <1>1, <2>1, <2>2 DEF Take, Placed
  <2> QED BY <2>3, <2>4
<1>2. CASE Capture
  <2>1. cur \in Item /\ vp \in 1 .. Viewports /\ cur.url \in Canonical
    BY <1>2 DEF Capture, Placed, Item
  <2>2. pages' \in Seq(PageRow)
    BY <1>2, <2>1 DEF Capture, TypeOK, PageRow
  <2>3. tab' \in Urls \cup Canonical \cup {Blank}
    BY <1>2, <2>1 DEF Capture
  <2>4. /\ links' \in Seq(Urls) /\ found' \subseteq Canonical \X Urls
        /\ favicon' \in Urls \cup {NoUrl}
    <3>1. CASE vp = 1
      <4>1. PICK ls \in LinkLists, icon \in {NoUrl} \cup Urls :
              /\ links' = ls
              /\ found' = found \cup {<<cur.url, ls[i]>> : i \in DOMAIN ls}
              /\ IF cur.url = canonicalURL(BaseURL) /\ favicon = NoUrl
                   THEN favicon' = icon ELSE icon = NoUrl /\ UNCHANGED favicon
        BY <1>2, <3>1 DEF Capture
      <4>2. ls \in Seq(Urls) /\ \A i \in DOMAIN ls : ls[i] \in Urls
        OBVIOUS
      <4> QED BY <2>1, <4>1, <4>2 DEF TypeOK
    <3>2. CASE vp # 1
      BY <1>2, <3>2 DEF Capture, TypeOK
    <3> QED BY <3>1, <3>2
  <2>5. vp' \in 0 .. Viewports /\ pc' \in {"capture", "follow"} /\ (pc' = "capture" => vp' \in 1 .. Viewports)
    BY <1>2, <2>1 DEF Capture, NextViewport
  <2>6. TypeOK'
    BY <1>2, <2>2, <2>3, <2>4, <2>5 DEF Capture, TypeOK, Place
  <2>7. Placed'
    BY <1>2, <2>1, <2>5 DEF Capture, Placed
  <2> QED BY <2>6, <2>7
<1>3. CASE CaptureFails
  <2>1. cur \in Item /\ vp \in 1 .. Viewports
    BY <1>3 DEF CaptureFails, Placed
  <2>2. vp' \in 0 .. Viewports /\ pc' \in {"capture", "follow"} /\ (pc' = "capture" => vp' \in 1 .. Viewports)
    BY <1>3, <2>1 DEF CaptureFails, NextViewport
  <2>3. TypeOK'
    BY <1>3, <2>2 DEF CaptureFails, TypeOK, Place
  <2>4. Placed'
    BY <1>3, <2>1, <2>2 DEF CaptureFails, Placed
  <2> QED BY <2>3, <2>4
<1>4. CASE Follow
  <2>1. links # <<>> /\ Head(links) \in Urls /\ Tail(links) \in Seq(Urls) /\ cur \in Item
    BY <1>4 DEF Follow, TypeOK, Placed
  <2> DEFINE u == canonicalURL(Head(links))
  <2>2. u \in Canonical
    BY <2>1 DEF Canonical
  <2>3. cur.depth + 1 \in 0 .. MaxDepth /\ [url |-> u, depth |-> cur.depth + 1] \in Item
    BY <1>4, <2>1, <2>2 DEF Follow, Deeper, Item
  <2>4. CASE Wanted(u)
    <3>1. visited' = Marked(u) /\ queue' = Append(queue, [url |-> u, depth |-> cur.depth + 1])
      BY <1>4, <2>4 DEF Follow
    <3> HIDE DEF u
    <3>2. queue' \in Seq(Item)
      BY <2>3, <3>1 DEF TypeOK
    <3>3. DOMAIN visited' \subseteq Canonical /\ \A v \in DOMAIN visited' : visited'[v] \in 0 .. MaxDepth
      BY <2>2, <2>3, <3>1 DEF Marked, TypeOK
    <3>4. TypeOK'
      BY <1>4, <2>1, <3>2, <3>3 DEF Follow, TypeOK
    <3> QED BY <1>4, <2>1, <3>4 DEF Follow, Placed
  <2>5. CASE ~Wanted(u)
    <3>1. UNCHANGED <<visited, queue>>
      BY <1>4, <2>5 DEF Follow
    <3>2. TypeOK'
      BY <1>4, <2>1, <3>1 DEF Follow, TypeOK
    <3> QED BY <1>4, <2>1, <3>1, <3>2 DEF Follow, Placed
  <2> QED BY <2>4, <2>5
<1>5. CASE PageDone
  BY <1>5 DEF PageDone, TypeOK, Placed, Place
<1>6. CASE LoopEnds
  BY <1>6 DEF LoopEnds, TypeOK, Placed, Place
<1>7. CASE Favicon
  <2>1. dialled' \in Address \cup {"none"}
    BY <1>7, PinnedAllowed DEF Favicon
  <2>2. outcome' \in Outcomes /\ pc' = "over"
    BY <1>7, Ended DEF Favicon
  <2>3. TypeOK'
    BY <1>7, <2>1, <2>2 DEF Favicon, TypeOK, Place
  <2>4. Placed'
    BY <1>7, <2>2 DEF Favicon, Placed
  <2> QED BY <2>3, <2>4
<1> QED BY <1>1, <1>2, <1>3, <1>4, <1>5, <1>6, <1>7

LEMMA TabTypes ==
  ASSUME TypeOK, Placed, CheckEnd \/ Screenshot \/ Move \/ Park \/ Watchdog
  PROVE  TypeOK' /\ Placed'
<1> USE DEF login, page, crawl, item, result, At, Before, Busy
<1>1. CASE CheckEnd
  <2>1. CASE Over("done")
    BY <1>1, <2>1, Ended, Ending DEF CheckEnd, Over, TypeOK
  <2>2. CASE pc' = "shot" /\ UNCHANGED <<parked, result>>
    BY <1>1, <2>2 DEF CheckEnd, TypeOK, Placed, Place
  <2> QED BY <1>1, <2>1, <2>2 DEF CheckEnd
<1>2. CASE Screenshot
  <2> DEFINE o == [outcome EXCEPT !.end = "done", !.shot = tab]
  <2>1. o \in Outcomes /\ Outcome(Shotless) \in Outcomes
    BY Ended DEF TypeOK, Shotless
  <2>2. Ends(o) \/ Ends(Outcome(Shotless))
    BY <1>2 DEF Screenshot, Over
  <2>3. UNCHANGED <<mode, login, page, crawl, item>>
    BY <1>2 DEF Screenshot
  <2> HIDE DEF o
  <2> QED BY <2>1, <2>2, <2>3, Ending DEF TypeOK
<1>3. CASE Move
  <2>1. tab' \in Urls \cup Canonical \cup {Blank} /\ aborted' \in BOOLEAN
    BY <1>3 DEF Move, TypeOK
  <2> QED BY <1>3, <2>1 DEF Move, TypeOK, Placed
<1>4. CASE Park
  BY <1>4 DEF Park, TypeOK, Placed
<1>5. CASE Watchdog
  <2>1. Outcome(Killed) \in Outcomes
    BY Ended DEF Killed, Shotless
  <2> QED BY <1>5, <2>1, Ending DEF Watchdog, Over, TypeOK
<1> QED BY <1>1, <1>2, <1>3, <1>4, <1>5

LEMMA TypesStep == TypeOK /\ Placed /\ [Next]_vars => TypeOK' /\ Placed'
<1> SUFFICES ASSUME TypeOK, Placed, [Next]_vars PROVE TypeOK' /\ Placed'
  OBVIOUS
<1>1. CASE Next
  BY <1>1, LoginTypes, CrawlTypes, TabTypes DEF Next, Session
<1>2. CASE UNCHANGED vars
  BY <1>2 DEF vars, login, page, crawl, item, result, TypeOK, Placed, Busy
<1> QED BY <1>1, <1>2

\* Whatever a site shows, every variable keeps a value of its kind; a URL is looked up only in its
\* canonical form, and nothing lies deeper than the limit (Crawl, RunLoginProbe).
THEOREM SessionTypes == Spec => []TypeOK
<1> QED BY Starts, TypesStep, PTL DEF Spec

-----------------------------------------------------------------------------
(* The frontier.                                                           *)

Stored == {pages[i].url : i \in DOMAIN pages}

\* The queue holds known URLs, each once and with its depth, shallow ones first.
Queued ==
  /\ \A i \in DOMAIN queue : queue[i].url \in DOMAIN visited /\ visited[queue[i].url] = queue[i].depth
  /\ \A i, j \in DOMAIN queue : i < j => queue[i].url # queue[j].url /\ queue[i].depth <= queue[j].depth

\* Whatever is known lies at most one level below the page in hand, or the one to be taken next.
Level ==
  /\ pc = "next" /\ queue # <<>> => \A u \in DOMAIN visited : visited[u] <= Head(queue).depth + 1
  /\ Busy => /\ cur.url \in DOMAIN visited /\ visited[cur.url] = cur.depth
             /\ \A u \in DOMAIN visited : visited[u] <= cur.depth + 1
             /\ \A i \in DOMAIN queue : queue[i].url # cur.url /\ cur.depth <= queue[i].depth

\* A stored page is of the site and has left the queue; of the page in hand only the viewports
\* before this one are stored.
Shown ==
  /\ \A i \in DOMAIN pages :
       /\ pages[i].url \in DOMAIN visited /\ hostAllowedIn(pages[i].url)
       /\ \A j \in DOMAIN queue : queue[j].url # pages[i].url
  /\ \A i, j \in DOMAIN pages : pages[i] = pages[j] => i = j
  /\ pc = "capture" => /\ hostAllowedIn(cur.url)
                       /\ \A i \in DOMAIN pages : pages[i].url = cur.url => pages[i].vp < vp

\* A link that was found leads to a known URL, or waits among the links of the page in hand.
Reached(e) == LET u == e[1]  v == canonicalURL(e[2]) IN
  visited[u] < MaxDepth /\ v # NoUrl /\ hostAllowedIn(v) =>
    v \in DOMAIN visited /\ visited[v] <= visited[u] + 1
Waiting(e) == e[1] = cur.url /\ \E i \in DOMAIN links : links[i] = e[2]
Traced ==
  /\ pc = "next" \/ (pc = "capture" /\ vp = 1) => links = <<>>
  /\ \A e \in found : e[1] \in DOMAIN visited /\ (Reached(e) \/ Waiting(e))

\* A page in hand is within the budget, whether it adds to it or not.
Budgeted ==
  /\ countCrawled <= MaxPages
  /\ pc = "capture" => Cardinality(Stored \ {cur.url}) < MaxPages

FrontierInv == Queued /\ Level /\ Shown /\ Traced /\ Budgeted

LEMMA Heads ==
  ASSUME NEW S, NEW s \in Seq(S), s # <<>>
  PROVE  /\ Len(s) \in Nat /\ DOMAIN s = 1 .. Len(s) /\ 1 \in DOMAIN s /\ Head(s) = s[1] /\ s[1] \in S
         /\ Tail(s) \in Seq(S) /\ DOMAIN Tail(s) = 1 .. Len(s) - 1
         /\ \A i \in DOMAIN Tail(s) : i + 1 \in DOMAIN s /\ Tail(s)[i] = s[i + 1]
OBVIOUS

LEMMA Appends ==
  ASSUME NEW S, NEW s \in Seq(S), NEW x \in S
  PROVE  /\ Len(s) \in Nat /\ DOMAIN s = 1 .. Len(s) /\ DOMAIN Append(s, x) = 1 .. Len(s) + 1
         /\ \A i \in 1 .. Len(s) : Append(s, x)[i] = s[i]
         /\ Append(s, x)[Len(s) + 1] = x
OBVIOUS

LEMMA StoredFinite == ASSUME TypeOK PROVE IsFiniteSet(Stored)
<1> DEFINE f == [i \in DOMAIN pages |-> pages[i].url]
<1>1. DOMAIN pages = 1 .. Len(pages) /\ Len(pages) \in Nat
  BY DEF TypeOK
<1>2. f \in Surjection(DOMAIN pages, Stored)
  BY DEF Surjection, Stored
<1>3. IsFiniteSet(DOMAIN pages)
  BY <1>1, FS_Interval
<1> HIDE DEF f
<1> QED BY <1>2, <1>3, FS_Surjection

\* What leaves the frontier and the page in hand alone keeps what is known of them.
LEMMA Aside ==
  ASSUME FrontierInv, UNCHANGED <<crawl, item>>, pc' = pc \/ pc' \notin {"next", "capture", "follow"}
  PROVE  FrontierInv'
<1> USE DEF crawl, item
<1>1. Queued' /\ Shown'
  BY DEF FrontierInv, Queued, Shown
<1>2. Level'
  BY DEF FrontierInv, Level, Busy
<1>3. Traced'
  BY DEF FrontierInv, Traced, Reached, Waiting
<1>4. Budgeted'
  BY DEF FrontierInv, Budgeted, countCrawled, Stored
<1> QED BY <1>1, <1>2, <1>3, <1>4 DEF FrontierInv

LEMMA BeginFrontier == ASSUME TypeOK, Placed, FrontierInv, Begin PROVE FrontierInv'
<1> USE DEF login, page, item, At
<1>1. CASE mode = "probe"
  BY <1>1, Aside DEF Begin, crawl
<1>2. CASE mode # "probe"
  <2> DEFINE start == canonicalURL(BaseURL)
  <2>1. /\ pc' = "next" /\ queue' = <<[url |-> start, depth |-> 0]>> /\ visited' = [u \in {start} |-> 0]
        /\ UNCHANGED <<pages, found, links, cur, vp>>
    BY <1>2 DEF Begin
  <2> HIDE DEF start
  <2>2. pages = <<>> /\ found = {} /\ links = <<>>
    BY DEF Begin, Placed
  <2>3. Queued' /\ Level' /\ Shown' /\ Traced'
    BY <2>1, <2>2 DEF Queued, Level, Shown, Traced, Busy
  <2>4. Budgeted'
    BY <2>1 DEF FrontierInv, Budgeted, countCrawled
  <2> QED BY <2>3, <2>4 DEF FrontierInv
<1> QED BY <1>1, <1>2

LEMMA TakeFrontier == ASSUME TypeOK, Placed, FrontierInv, Take PROVE FrontierInv'
<1> USE DEF login, page, result, At
<1> DEFINE h == Head(queue)
<1>1. /\ queue \in Seq(Item) /\ h = queue[1] /\ h \in Item /\ Len(queue) \in Nat
      /\ queue' = Tail(queue) /\ DOMAIN queue = 1 .. Len(queue) /\ 1 \in DOMAIN queue
      /\ DOMAIN queue' = 1 .. Len(queue) - 1
      /\ \A i \in DOMAIN queue' : i + 1 \in DOMAIN queue /\ queue'[i] = queue[i + 1]
  BY Heads DEF Take, Crawling, TypeOK
<1>2. h.depth \in Nat /\ h.url \in DOMAIN visited /\ visited[h.url] = h.depth
  <2>1. h.depth \in Nat
    BY <1>1 DEF Item
  <2> QED BY <1>1, <2>1 DEF FrontierInv, Queued
<1>3. \A i \in DOMAIN queue' : queue'[i].url # h.url /\ h.depth <= queue'[i].depth /\ queue'[i].depth \in Nat
  <2> SUFFICES ASSUME NEW i \in DOMAIN queue'
               PROVE  queue'[i].url # h.url /\ h.depth <= queue'[i].depth /\ queue'[i].depth \in Nat
    OBVIOUS
  <2>1. i + 1 \in DOMAIN queue /\ 1 < i + 1 /\ queue'[i] = queue[i + 1] /\ queue[i + 1] \in Item
    BY <1>1
  <2>2. queue[1].url # queue[i + 1].url /\ queue[1].depth <= queue[i + 1].depth
    BY <1>1, <2>1 DEF FrontierInv, Queued
  <2> QED BY <1>1, <2>1, <2>2 DEF Item
<1>4. Queued'
  <2>1. ASSUME NEW i \in DOMAIN queue'
        PROVE  queue'[i].url \in DOMAIN visited /\ visited[queue'[i].url] = queue'[i].depth
    BY <1>1, <2>1 DEF FrontierInv, Queued
  <2>2. ASSUME NEW i \in DOMAIN queue', NEW j \in DOMAIN queue', i < j
        PROVE  queue'[i].url # queue'[j].url /\ queue'[i].depth <= queue'[j].depth
    <3>1. i + 1 \in DOMAIN queue /\ j + 1 \in DOMAIN queue /\ i + 1 < j + 1
      BY <1>1, <2>2
    <3>2. queue'[i] = queue[i + 1] /\ queue'[j] = queue[j + 1]
      BY <1>1
    <3> QED BY <3>1, <3>2 DEF FrontierInv, Queued
  <2> QED BY <2>1, <2>2 DEF Take, Queued
<1>5. \A u \in DOMAIN visited : visited[u] <= h.depth + 1 /\ visited[u] \in Nat
  BY <1>1 DEF Take, FrontierInv, Level, TypeOK
<1>6. links = <<>> /\ \A e \in found : e[1] \in DOMAIN visited /\ Reached(e)
  BY DEF Take, FrontierInv, Traced, Waiting
<1>7. UNCHANGED <<visited, pages, found, links>>
  BY DEF Take
<1>8. \A i \in DOMAIN pages : pages[i].url # h.url
  BY <1>1 DEF FrontierInv, Shown
<1> USE <1>7
<1>9. CASE pc' = "capture" /\ cur' = h /\ vp' = 1 /\ hostAllowedIn(h.url)
  <2> HIDE DEF h
  <2>1. Level'
    BY <1>2, <1>3, <1>5, <1>9 DEF Level, Busy
  <2>2. Shown'
    BY <1>1, <1>8, <1>9 DEF FrontierInv, Shown
  <2>3. Traced'
    BY <1>6, <1>9 DEF Traced, Reached
  <2>4. Budgeted'
    <3>1. Stored \ {h.url} = Stored
      BY <1>8 DEF Stored
    <3> QED BY <1>9, <3>1 DEF Take, Crawling, Budgeted, countCrawled, Stored, FrontierInv
  <2> QED BY <1>4, <2>1, <2>2, <2>3, <2>4 DEF FrontierInv
<1>10. CASE pc' = "next" /\ UNCHANGED <<cur, vp>>
  <2>1. Level'
    <3>1. ASSUME queue' # <<>> PROVE Head(queue') = queue'[1] /\ 1 \in DOMAIN queue'
      BY <1>1, <3>1, Heads
    <3>2. ASSUME queue' # <<>>, NEW u \in DOMAIN visited PROVE visited[u] <= Head(queue').depth + 1
      <4>1. h.depth <= Head(queue').depth /\ Head(queue').depth \in Nat
        BY <1>3, <3>1, <3>2
      <4> HIDE DEF h
      <4> QED BY <1>2, <1>5, <4>1
    <3> QED BY <1>10, <3>2 DEF Level, Busy
  <2>2. Shown'
    BY <1>1, <1>10 DEF FrontierInv, Shown
  <2>3. Traced'
    BY <1>6, <1>10 DEF Traced, Reached
  <2>4. Budgeted'
    BY <1>10 DEF FrontierInv, Budgeted, countCrawled
  <2> QED BY <1>4, <2>1, <2>2, <2>3, <2>4 DEF FrontierInv
<1> QED BY <1>9, <1>10 DEF Take, CheckURL, hostAllowedIn

LEMMA CaptureFrontier == ASSUME TypeOK, Placed, FrontierInv, Capture PROVE FrontierInv'
<1> USE DEF login, result, At
<1> DEFINE row == [url |-> cur.url, vp |-> vp]
           n   == Len(pages)
<1>1. /\ UNCHANGED <<queue, visited, cur>> /\ pages' = Append(pages, row)
      /\ pc = "capture" /\ vp \in 1 .. Viewports /\ cur \in Item
  BY DEF Capture, Placed, Busy
<1>2. pc' \in {"capture", "follow"} /\ (pc' = "capture" => vp' = vp + 1)
  BY <1>1 DEF Capture, NextViewport
<1>3. row \in PageRow
  BY <1>1 DEF PageRow, Item
<1> HIDE DEF row
<1>4. /\ n \in Nat /\ DOMAIN pages = 1 .. n /\ DOMAIN pages' = 1 .. n + 1
      /\ \A i \in 1 .. n : pages'[i] = pages[i] /\ pages[i] \in PageRow
      /\ pages'[n + 1] = row
  BY <1>1, <1>3, Appends DEF TypeOK
<1>5. \A i \in DOMAIN pages' : i \in 1 .. n \/ i = n + 1
  BY <1>4
<1> HIDE DEF n
<1>6. Queued' /\ Level'
  BY <1>1, <1>2 DEF FrontierInv, Queued, Level, Busy
<1>7. Shown'
  <2>1. /\ row.url = cur.url /\ row.vp = vp /\ hostAllowedIn(cur.url) /\ cur.url \in DOMAIN visited
        /\ \A j \in DOMAIN queue : queue[j].url # cur.url
    BY <1>1 DEF row, FrontierInv, Shown, Level, Busy
  <2>2. \A i \in 1 .. n : pages[i].vp \in Nat /\ (pages[i].url = cur.url => pages[i].vp < vp) /\ pages[i] # row
    <3>1. \A i \in 1 .. n : pages[i].vp \in Nat
      BY <1>4, CrawlAssumption DEF PageRow
    <3>2. \A i \in 1 .. n : pages[i].url = cur.url => pages[i].vp < vp
      BY <1>1, <1>4 DEF FrontierInv, Shown
    <3> QED BY <1>1, <2>1, <3>1, <3>2
  <2>3. \A i \in DOMAIN pages' :
          /\ pages'[i].url \in DOMAIN visited /\ hostAllowedIn(pages'[i].url)
          /\ \A j \in DOMAIN queue : queue[j].url # pages'[i].url
    BY <1>4, <1>5, <2>1 DEF FrontierInv, Shown
  <2>4. \A i, j \in DOMAIN pages' : pages'[i] = pages'[j] => i = j
    BY <1>4, <1>5, <2>2 DEF FrontierInv, Shown
  <2>5. ASSUME pc' = "capture", NEW i \in DOMAIN pages', pages'[i].url = cur.url
        PROVE  pages'[i].vp < vp'
    BY <1>1, <1>2, <1>4, <1>5, <2>1, <2>2, <2>5
  <2> QED BY <1>1, <2>1, <2>3, <2>4, <2>5 DEF Shown
<1>8. Traced'
  <2>1. pc' # "next" /\ ~(pc' = "capture" /\ vp' = 1)
    BY <1>1, <1>2
  <2>2. CASE vp = 1
    <3>1. PICK ls \in LinkLists : links' = ls /\ found' = found \cup {<<cur.url, ls[i]>> : i \in DOMAIN ls}
      BY <2>2 DEF Capture
    <3>2. \A e \in found : e[1] \in DOMAIN visited /\ Reached(e)
      BY <1>1, <2>2 DEF FrontierInv, Traced, Waiting
    <3>3. cur.url \in DOMAIN visited
      BY <1>1 DEF FrontierInv, Level, Busy
    <3>4. ASSUME NEW e \in found' PROVE e[1] \in DOMAIN visited' /\ (Reached(e)' \/ Waiting(e)')
      <4>1. CASE e \in found
        BY <1>1, <3>2, <4>1 DEF Reached
      <4>2. CASE e \notin found
        BY <1>1, <3>1, <3>3, <4>2 DEF Waiting
      <4> QED BY <4>1, <4>2
    <3> QED BY <2>1, <3>4 DEF Traced
  <2>3. CASE vp # 1
    BY <1>1, <2>1, <2>3 DEF Capture, FrontierInv, Traced, Reached, Waiting
  <2> QED BY <2>2, <2>3
<1>9. Budgeted'
  <2> DEFINE rest == Stored \ {cur.url}
  <2>1. Stored' = rest \cup {cur.url}
    <3>1. Stored' = Stored \cup {cur.url}
      <4>1. row.url = cur.url
        BY DEF row
      <4>2. \A u \in Stored' : u \in Stored \/ u = cur.url
        BY <1>4, <1>5, <4>1 DEF Stored
      <4>3. \A u \in Stored : u \in Stored'
        BY <1>4 DEF Stored
      <4>4. cur.url \in Stored'
        <5>1. n + 1 \in DOMAIN pages'
          BY <1>4
        <5> QED BY <1>4, <4>1, <5>1 DEF Stored
      <4> QED BY <4>2, <4>3, <4>4
    <3> QED BY <3>1
  <2>2. IsFiniteSet(rest) /\ Cardinality(rest) \in Nat /\ Cardinality(rest) < MaxPages
    BY <1>1, StoredFinite, FS_Difference, FS_CardinalityType DEF FrontierInv, Budgeted
  <2>3. Cardinality(Stored') = Cardinality(rest) + 1
    BY <2>1, <2>2, FS_AddElement
  <2>4. (Stored' \ {cur'.url}) = rest
    BY <1>1, <2>1
  <2> HIDE DEF rest
  <2>5. countCrawled' = Cardinality(Stored')
    BY DEF countCrawled, Stored
  <2>6. countCrawled' <= MaxPages
    BY <2>2, <2>3, <2>5, CrawlAssumption
  <2>7. (Stored \ {cur.url})' = rest
    BY <2>4
  <2>8. Cardinality((Stored \ {cur.url})') < MaxPages
    BY <2>2, <2>7
  <2> QED BY <2>6, <2>8 DEF Budgeted
<1> QED BY <1>6, <1>7, <1>8, <1>9 DEF FrontierInv

LEMMA CaptureFailsFrontier == ASSUME TypeOK, Placed, FrontierInv, CaptureFails PROVE FrontierInv'
<1> USE DEF login, page, crawl, result, At
<1>1. /\ UNCHANGED <<queue, visited, pages, found, cur, links>>
      /\ pc = "capture" /\ vp \in 1 .. Viewports
  BY DEF CaptureFails, Placed
<1>2. pc' \in {"capture", "follow"} /\ (pc' = "capture" => vp' = vp + 1)
  BY <1>1 DEF CaptureFails, NextViewport
<1>3. Queued' /\ Level'
  BY <1>1, <1>2 DEF FrontierInv, Queued, Level, Busy
<1>4. Shown'
  <2>1. \A i \in DOMAIN pages : pages[i] \in PageRow
    BY DEF TypeOK
  <2>2. \A i \in DOMAIN pages : pages[i].vp \in Nat
    BY <2>1, CrawlAssumption DEF PageRow
  <2>3. \A i \in DOMAIN pages : pages[i].url = cur.url => pages[i].vp < vp
    BY <1>1 DEF FrontierInv, Shown
  <2>4. vp \in Nat
    BY <1>1, CrawlAssumption
  <2>5. pc' = "capture" => \A i \in DOMAIN pages : pages[i].url = cur.url => pages[i].vp < vp'
    BY <1>2, <2>2, <2>3, <2>4
  <2> QED BY <1>1, <1>2, <2>5 DEF FrontierInv, Shown
<1>5. Traced'
  BY <1>1, <1>2 DEF FrontierInv, Traced, Reached, Waiting
<1>6. Budgeted'
  BY <1>1, <1>2 DEF FrontierInv, Budgeted, countCrawled, Stored
<1> QED BY <1>3, <1>4, <1>5, <1>6 DEF FrontierInv

LEMMA PageDoneFrontier == ASSUME TypeOK, Placed, FrontierInv, PageDone PROVE FrontierInv'
<1> USE DEF login, page, crawl, result, At
<1>1. /\ UNCHANGED <<queue, visited, pages, found>> /\ pc = "follow" /\ pc' = "next" /\ links' = <<>>
      /\ cur \in Item /\ cur.depth \in Nat
  BY DEF PageDone, Placed, Busy, Item
<1>2. Queued' /\ Shown'
  BY <1>1 DEF FrontierInv, Queued, Shown
<1>3. Level'
  <2>1. ASSUME queue # <<>>, NEW u \in DOMAIN visited PROVE visited[u] <= Head(queue).depth + 1
    <3>1. Head(queue) = queue[1] /\ 1 \in DOMAIN queue /\ queue[1] \in Item
      BY <2>1, Heads DEF TypeOK
    <3>2. cur.depth <= Head(queue).depth /\ visited[u] <= cur.depth + 1
      BY <1>1, <3>1 DEF FrontierInv, Level, Busy
    <3>3. Head(queue).depth \in Nat /\ visited[u] \in Nat
      BY <3>1, CrawlAssumption DEF Item, TypeOK
    <3> QED BY <1>1, <3>2, <3>3
  <2> QED BY <1>1, <2>1 DEF Level, Busy
<1>4. Traced'
  <2>1. ASSUME NEW e \in found PROVE e[1] \in DOMAIN visited /\ Reached(e)
    <3>1. e[1] \in DOMAIN visited /\ (Reached(e) \/ Waiting(e))
      BY DEF FrontierInv, Traced
    <3>2. CASE Waiting(e)
      <4>1. ~Deeper /\ visited[cur.url] = cur.depth
        BY <1>1, <3>2 DEF PageDone, Waiting, FrontierInv, Level, Busy
      <4> QED BY <1>1, <3>1, <3>2, <4>1, CrawlAssumption DEF Waiting, Reached, Deeper
    <3> QED BY <3>1, <3>2
  <2> QED BY <1>1, <2>1 DEF Traced, Reached
<1>5. Budgeted'
  BY <1>1 DEF FrontierInv, Budgeted, countCrawled
<1> QED BY <1>2, <1>3, <1>4, <1>5 DEF FrontierInv

LEMMA FollowFrontier == ASSUME TypeOK, Placed, FrontierInv, Follow PROVE FrontierInv'
<1> USE DEF login, page, result, At
<1> DEFINE u == canonicalURL(Head(links))
<1>1. /\ UNCHANGED <<pages, found, cur>> /\ pc = "follow" /\ pc' = "follow" /\ links' = Tail(links)
      /\ cur \in Item /\ cur.depth \in Nat
  BY DEF Follow, Placed, Busy, Item
<1>2. /\ Len(links) \in Nat /\ DOMAIN links = 1 .. Len(links) /\ Head(links) = links[1]
      /\ DOMAIN links' = 1 .. Len(links) - 1
      /\ \A i \in DOMAIN links' : links'[i] = links[i + 1]
      /\ Head(links) \in Urls
  BY <1>1, Heads DEF Follow, TypeOK
<1>3. ASSUME NEW i \in DOMAIN links, i # 1 PROVE \E j \in DOMAIN links' : links'[j] = links[i]
  <2>1. i - 1 \in DOMAIN links' /\ (i - 1) + 1 = i
    BY <1>2, <1>3
  <2> QED BY <1>2, <2>1
<1>4. /\ cur.url \in DOMAIN visited /\ visited[cur.url] = cur.depth
      /\ \A v \in DOMAIN visited : visited[v] <= cur.depth + 1
      /\ \A i \in DOMAIN queue : queue[i].url # cur.url /\ cur.depth <= queue[i].depth
  BY <1>1 DEF FrontierInv, Level, Busy
<1>5. ASSUME NEW e \in found
      PROVE  /\ e[1] \in DOMAIN visited
             /\ Reached(e) \/ (e[1] = cur.url /\ (e[2] = Head(links) \/ Waiting(e)'))
  <2>1. e[1] \in DOMAIN visited /\ (Reached(e) \/ Waiting(e))
    BY DEF FrontierInv, Traced
  <2>2. CASE Waiting(e)
    BY <1>1, <1>2, <1>3, <2>1, <2>2 DEF Waiting
  <2> QED BY <2>1, <2>2
<1>6. CASE Wanted(u)
  <2> DEFINE new == [url |-> u, depth |-> cur.depth + 1]
             n   == Len(queue)
  <2>1. /\ visited' = Marked(u) /\ queue' = Append(queue, new)
        /\ u \notin DOMAIN visited /\ u \in Canonical
    BY <1>2, <1>6 DEF Follow, Wanted, Canonical
  <2>2. new \in Item /\ new.url = u /\ new.depth = cur.depth + 1
    BY <1>1, <2>1 DEF Item
  <2> HIDE DEF u, new
  <2>3. /\ DOMAIN visited' = DOMAIN visited \cup {u} /\ visited'[u] = cur.depth + 1
        /\ \A v \in DOMAIN visited : v # u /\ visited'[v] = visited[v]
    BY <2>1 DEF Marked
  <2>4. /\ n \in Nat /\ DOMAIN queue = 1 .. n /\ DOMAIN queue' = 1 .. n + 1
        /\ \A i \in 1 .. n : queue'[i] = queue[i]
        /\ queue'[n + 1] = new
    BY <2>1, <2>2, Appends DEF TypeOK
  <2>5. \A i \in DOMAIN queue' : i \in 1 .. n \/ i = n + 1
    BY <2>4
  <2>6. \A i \in 1 .. n : /\ queue[i].url \in DOMAIN visited /\ visited[queue[i].url] = queue[i].depth
                         /\ queue[i].url # u /\ queue[i].depth <= cur.depth + 1
    BY <1>4, <2>1, <2>4 DEF FrontierInv, Queued
  <2> HIDE DEF n
  <2>7. Queued'
    <3>1. \A i \in DOMAIN queue' : /\ queue'[i].url \in DOMAIN visited'
                                  /\ visited'[queue'[i].url] = queue'[i].depth
      BY <2>2, <2>3, <2>4, <2>5, <2>6
    <3>2. ASSUME NEW i \in DOMAIN queue', NEW j \in DOMAIN queue', i < j
          PROVE  queue'[i].url # queue'[j].url /\ queue'[i].depth <= queue'[j].depth
      <4>1. i \in 1 .. n
        BY <2>4, <3>2
      <4>2. CASE j \in 1 .. n
        BY <2>4, <3>2, <4>1, <4>2 DEF FrontierInv, Queued
      <4>3. CASE j = n + 1
        BY <2>2, <2>4, <2>6, <4>1, <4>3
      <4> QED BY <2>5, <4>2, <4>3
    <3> QED BY <3>1, <3>2 DEF Queued
  <2>8. Level'
    <3>1. \A v \in DOMAIN visited' : visited'[v] <= cur.depth + 1
      BY <1>1, <1>4, <2>3
    <3>2. \A i \in DOMAIN queue' : queue'[i].url # cur.url /\ cur.depth <= queue'[i].depth
      BY <1>1, <1>4, <2>1, <2>2, <2>4, <2>5
    <3> QED BY <1>1, <1>4, <2>3, <3>1, <3>2 DEF Level, Busy
  <2>9. Shown'
    <3>1. \A i \in DOMAIN pages : /\ pages[i].url \in DOMAIN visited /\ hostAllowedIn(pages[i].url)
                                 /\ \A j \in DOMAIN queue : queue[j].url # pages[i].url
      BY DEF FrontierInv, Shown
    <3>2. \A i \in DOMAIN pages : \A j \in DOMAIN queue' : queue'[j].url # pages[i].url
      BY <2>1, <2>2, <2>4, <2>5, <3>1
    <3> QED BY <1>1, <2>3, <3>1, <3>2 DEF FrontierInv, Shown
  <2>10. Traced'
    <3>1. ASSUME NEW e \in found PROVE e[1] \in DOMAIN visited' /\ (Reached(e)' \/ Waiting(e)')
      <4>1. e[1] \in DOMAIN visited /\ e[1] \in DOMAIN visited' /\ visited'[e[1]] = visited[e[1]]
        BY <1>5, <2>3
      <4>2. CASE Reached(e)
        BY <2>3, <4>1, <4>2 DEF Reached
      <4>3. CASE e[1] = cur.url /\ e[2] = Head(links)
        <5>1. canonicalURL(e[2]) = u
          BY <4>3 DEF u
        <5> QED BY <1>1, <1>4, <2>3, <4>1, <4>3, <5>1 DEF Reached
      <4> QED BY <1>5, <4>1, <4>2, <4>3
    <3> QED BY <1>1, <3>1 DEF Traced
  <2>11. Budgeted'
    BY <1>1 DEF FrontierInv, Budgeted, countCrawled
  <2> QED BY <2>7, <2>8, <2>9, <2>10, <2>11 DEF FrontierInv
<1>7. CASE ~Wanted(u)
  <2>1. UNCHANGED <<visited, queue>>
    BY <1>7 DEF Follow
  <2>2. Queued' /\ Level' /\ Shown'
    BY <1>1, <2>1 DEF FrontierInv, Queued, Level, Shown, Busy
  <2>3. Traced'
    <3>1. ASSUME NEW e \in found PROVE e[1] \in DOMAIN visited /\ (Reached(e) \/ Waiting(e)')
      <4>1. CASE e[1] = cur.url /\ e[2] = Head(links)
        <5>1. canonicalURL(e[2]) = u
          BY <4>1
        <5> HIDE DEF u
        <5>2. u # NoUrl /\ hostAllowedIn(u) => u \in DOMAIN visited
          BY <1>7 DEF Wanted
        <5>3. Reached(e)
          BY <1>1, <1>4, <4>1, <5>1, <5>2 DEF Reached
        <5> QED BY <1>4, <4>1, <5>3
      <4> QED BY <1>5, <4>1
    <3> QED BY <1>1, <2>1, <3>1 DEF Traced, Reached, Waiting
  <2>4. Budgeted'
    BY <1>1 DEF FrontierInv, Budgeted, countCrawled
  <2> QED BY <2>2, <2>3, <2>4 DEF FrontierInv
<1> QED BY <1>6, <1>7

LEMMA FrontierStep == TypeOK /\ Placed /\ FrontierInv /\ [Next]_vars => FrontierInv'
<1> SUFFICES ASSUME TypeOK, Placed, FrontierInv, [Next]_vars PROVE FrontierInv'
  OBVIOUS
<1>1. CASE Take \/ Capture \/ CaptureFails \/ Follow \/ PageDone \/ Begin
  BY <1>1, TakeFrontier, CaptureFrontier, CaptureFailsFrontier, FollowFrontier, PageDoneFrontier, BeginFrontier
<1>2. CASE BringUp
  BY <1>2, Aside DEF BringUp, NextUp, Over, Ends
<1>3. CASE NoLogin \/ Preflight \/ LoginStep \/ Landing
  BY <1>3, Aside DEF NoLogin, Preflight, LoginStep, Landing, LoginFails, Over, Ends
<1>4. CASE LoopEnds \/ Favicon \/ CheckEnd \/ Screenshot \/ Move \/ Park \/ Watchdog
  BY <1>4, Aside DEF LoopEnds, Favicon, CheckEnd, Screenshot, Move, Park, Watchdog, Over, Ends
<1>5. CASE UNCHANGED vars
  BY <1>5, Aside DEF vars
<1> QED BY <1>1, <1>2, <1>3, <1>4, <1>5 DEF Next, Session

LEMMA FrontierStarts == Init => FrontierInv
<1> SUFFICES ASSUME Init PROVE FrontierInv
  OBVIOUS
<1>1. Queued /\ Level /\ Shown /\ Traced
  BY DEF Init, Queued, Level, Shown, Traced, Busy
<1>2. Budgeted
  <2>1. {pages[i].url : i \in DOMAIN pages} = {}
    BY DEF Init
  <2>2. countCrawled = 0
    BY <2>1, FS_EmptySet DEF countCrawled
  <2> QED BY <2>2, CrawlAssumption DEF Init, Budgeted
<1> QED BY <1>1, <1>2 DEF FrontierInv

LEMMA FrontierHolds == TypeOK /\ FrontierInv => FrontierSound
<1> SUFFICES ASSUME TypeOK, FrontierInv PROVE FrontierSound
  OBVIOUS
<1>1. ASSUME NEW e \in found
      PROVE  LET u == e[1]  v == canonicalURL(e[2]) IN
             Followed(u) /\ visited[u] < MaxDepth /\ v # NoUrl /\ hostAllowedIn(v) =>
               v \in DOMAIN visited /\ visited[v] <= visited[u] + 1
  BY DEF FrontierInv, Traced, Reached, Waiting, Followed
<1>2. ASSUME NEW u \in DOMAIN visited, NEW v \in 1 .. Viewports PROVE Captures(u, v) <= 1
  <2> DEFINE at == {i \in DOMAIN pages : pages[i] = [url |-> u, vp |-> v]}
  <2>1. \A i, j \in at : i = j
    BY DEF FrontierInv, Shown
  <2>2. CASE at = {}
    BY <2>2, FS_EmptySet DEF Captures
  <2>3. CASE at # {}
    <3>1. PICK i \in at : at = {i}
      BY <2>1, <2>3
    <3>2. Cardinality(at) = 1
      BY <3>1, FS_Singleton
    <3> QED BY <3>2 DEF Captures
  <2> QED BY <2>2, <2>3
<1> QED BY <1>1, <1>2 DEF FrontierSound, FrontierInv, Budgeted

\* Nothing in reach is dropped from the search, however the pages link to each other: a page of the
\* site that some captured page links to is known, at most one level below it.  No page is captured
\* twice at a viewport, and no more are stored than the budget says (Crawl's loop, crawlPage).
THEOREM FrontierIsSound == Spec => []FrontierSound
<1> QED BY Starts, TypesStep, FrontierStarts, FrontierStep, FrontierHolds, PTL DEF Spec

-----------------------------------------------------------------------------
(* What the session shows.                                                 *)

\* The document in the tab, the one in the screenshot and the address of the icon are in policy.
Within ==
  /\ Contained(tab) /\ Contained(outcome.shot)
  /\ dialled # "none" => ipAllowed(FaviconURLFor.host, dialled)

LEMMA Shots ==
  /\ \A end \in {"none", "done", "error", "login", "stalled"} : Contained(Outcome(end).shot)
  /\ \A o \in Outcomes : /\ \A u : [o EXCEPT !.end = "done", !.shot = u].shot = u
                         /\ [o EXCEPT !.ok = TRUE].shot = o.shot
  /\ Contained(Blank)
BY DEF Outcomes, Outcome, Contained, Web, NoUrl, Blank

\* Whatever the interceptor lets through is of the site.
LEMMA Passed == ASSUME NEW u, NEW answer, checkNav(u, answer) PROVE Contained(u)
BY DEF checkNav, Contained, Web, hostAllowedIn

LEMMA WithinStarts == Init => Within
BY Shots DEF Init, Within

LEMMA WithinStep == TypeOK /\ Placed /\ Within /\ [Next]_vars => Within'
<1> SUFFICES ASSUME TypeOK, Placed, Within, [Next]_vars PROVE Within'
  OBVIOUS
<1> USE DEF login, page, crawl, item, result
<1>1. ASSUME tab' = tab, Contained(outcome'.shot), dialled' = dialled, favicon' = favicon PROVE Within'
  BY <1>1 DEF Within, FaviconURLFor, Contained
<1>2. ASSUME NEW end \in {"none", "done", "error", "login", "stalled"}, Over(end), UNCHANGED <<tab, favicon>>
      PROVE  Within'
  BY <1>1, <1>2, Shots DEF Over, Ends
<1>3. ASSUME Contained(tab'), UNCHANGED <<outcome, dialled, favicon>> PROVE Within'
  BY <1>3 DEF Within, FaviconURLFor, Contained
<1>4. Contained(tab) /\ Contained(outcome.shot)
  BY DEF Within
<1>5. ASSUME LoginFails PROVE Within'
  <2>1. CASE mode = "crawl"
    BY <1>2, <1>5, <2>1 DEF LoginFails
  <2>2. CASE mode # "crawl"
    BY <1>1, <1>5, <2>2, Shots DEF LoginFails
  <2> QED BY <2>1, <2>2
<1>6. CASE BringUp
  BY <1>1, <1>2, <1>4, <1>6 DEF BringUp
<1>7. CASE NoLogin \/ Preflight \/ Landing
  BY <1>1, <1>4, <1>5, <1>7 DEF NoLogin, Preflight, Landing
<1>8. CASE LoginStep
  <2>1. CASE LoginFails /\ UNCHANGED step
    BY <1>5, <2>1
  <2>2. CASE UNCHANGED <<outcome, dialled, favicon>>
    <3>1. Contained(tab')
      BY <1>4, <1>8, <2>2, Passed DEF LoginStep, LoginFails
    <3> QED BY <1>3, <2>2, <3>1
  <2> QED BY <1>8, <2>1, <2>2 DEF LoginStep
<1>9. CASE Begin
  <2>1. Contained(outcome'.shot)
    BY <1>4, <1>9, Shots DEF Begin, TypeOK
  <2> QED BY <1>1, <1>9, <2>1 DEF Begin
<1>10. CASE Take \/ CaptureFails \/ Follow \/ PageDone \/ LoopEnds
  BY <1>1, <1>4, <1>10 DEF Take, CaptureFails, Follow, PageDone, LoopEnds
<1>11. CASE Capture
  <2>1. Contained(tab') /\ UNCHANGED <<outcome, dialled>> /\ dialled = "none"
    BY <1>11, Passed DEF Capture, At, Placed
  <2> QED BY <1>4, <2>1 DEF Within, Contained
<1>12. CASE Favicon
  <2>1. UNCHANGED <<tab, favicon>> /\ outcome' = Outcome("done")
    BY <1>12 DEF Favicon
  <2>2. dialled' # "none" => ipAllowed(FaviconURLFor.host, dialled')
    BY <1>12, PinnedAllowed DEF Favicon
  <2> QED BY <1>4, <2>1, <2>2, Shots DEF Within, FaviconURLFor, Contained
<1>13. CASE CheckEnd
  BY <1>1, <1>2, <1>4, <1>13 DEF CheckEnd
<1>14. CASE Screenshot
  <2>1. CASE Over(Shotless)
    BY <1>2, <1>14, <2>1 DEF Screenshot, Shotless
  <2>2. CASE Ends([outcome EXCEPT !.end = "done", !.shot = tab])
    <3>1. outcome'.shot = tab
      BY <2>2, Shots DEF Ends, TypeOK
    <3> QED BY <1>1, <1>4, <1>14, <2>2, <3>1 DEF Screenshot, Ends
  <2> QED BY <1>14, <2>1, <2>2 DEF Screenshot
<1>15. CASE Move
  <2>1. Contained(tab')
    BY <1>4, <1>15, Passed DEF Move
  <2> QED BY <1>3, <1>15, <2>1 DEF Move
<1>16. CASE Park
  BY <1>1, <1>4, <1>16 DEF Park
<1>17. CASE Watchdog
  <2>1. Killed \in {"none", "done", "error", "login", "stalled"}
    BY DEF Killed, Shotless
  <2> QED BY <1>2, <1>17, <2>1 DEF Watchdog
<1>18. CASE UNCHANGED vars
  BY <1>1, <1>4, <1>18 DEF vars
<1> QED
  BY <1>6, <1>7, <1>8, <1>9, <1>10, <1>11, <1>12, <1>13, <1>14, <1>15, <1>16, <1>17, <1>18 DEF Next, Session

LEMMA WithinHolds == Within /\ FrontierInv => SiteContained
BY DEF Within, FrontierInv, Shown, SiteContained

\* A redirect, a frame or a name that resolves to another address at the next look does not take the
\* session off its site: what it shows, stores and photographs was let through by the interceptor,
\* and the icon is fetched from the address that was checked (checkNav, pinnedIP).
THEOREM SiteIsContained == Spec => []SiteContained
<1> QED
  BY Starts, TypesStep, FrontierStarts, FrontierStep, WithinStarts, WithinStep, WithinHolds, PTL DEF Spec

-----------------------------------------------------------------------------
(* How long a login takes.                                                 *)

\* The steps before this one each took at most a step's share of the budget.
Timed ==
  /\ pc \in Before \ {"login"} => step = 0
  /\ pc \in Before /\ step = 0 => elapsed = 0
  /\ pc = "login" /\ step > 0 => elapsed <= (step - 1) * B(recipe)

\* One share more, and no more shares than there are steps.
LEMMA Shares ==
  ASSUME NEW b \in Nat
  PROVE  /\ \A n \in Nat : n * b \in Nat /\ (n + 1) * b = n * b + b
         /\ \A m, n \in Nat : m <= n => m * b <= n * b
<1>1. \A n \in Nat : n * b \in Nat /\ (n + 1) * b = n * b + b
  OBVIOUS
<1>2. ASSUME NEW m \in Nat, NEW n \in Nat, m <= n PROVE m * b <= n * b
  <2>1. PICK k \in Nat : n = m + k
    <3>1. n - m \in Nat /\ n = m + (n - m)
      BY <1>2
    <3> QED BY <3>1
  <2>2. n * b = m * b + k * b /\ k * b \in Nat /\ m * b \in Nat
    BY <2>1
  <2> QED BY <2>2
<1> QED BY <1>1, <1>2

LEMMA TimedStep == TypeOK /\ Placed /\ Timed /\ [Next]_vars => Timed'
<1> SUFFICES ASSUME TypeOK, Placed, Timed, [Next]_vars PROVE Timed'
  OBVIOUS
<1> USE DEF login, page, crawl, item, result, At, Before
<1>1. ASSUME pc' \notin Before PROVE Timed'
  BY <1>1 DEF Timed
<1>2. ASSUME UNCHANGED <<pc, login>> PROVE Timed'
  BY <1>2 DEF Timed
<1>3. ASSUME LoginFails PROVE Timed'
  BY <1>1, <1>3 DEF LoginFails, Over, Ends
<1>4. CASE BringUp
  <2>1. CASE Over("error")
    BY <1>1, <2>1 DEF Over, Ends
  <2>2. CASE pc' = NextUp[pc] /\ UNCHANGED login
    BY <1>4, <2>2 DEF BringUp, NextUp, Timed
  <2> QED BY <1>4, <2>1, <2>2 DEF BringUp
<1>5. CASE Preflight
  <2>1. CASE step' = 1 /\ UNCHANGED <<pc, parked, mode, recipe, elapsed, page, crawl, item, result>>
    <3>1. pc' = "login" /\ elapsed' = 0 /\ step' = 1 /\ recipe' = recipe
      BY <1>5, <2>1 DEF Preflight, Timed
    <3>2. (1 - 1) * B(recipe) = 0
      BY Waits DEF TypeOK
    <3> QED BY <3>1, <3>2 DEF Timed, B, worstWait
  <2> QED BY <1>3, <1>5, <2>1 DEF Preflight
<1>6. CASE LoginStep
  <2>1. CASE /\ step' = step + 1 /\ UNCHANGED <<pc, recipe>>
    <3>1. /\ Len(recipe) \in Nat /\ step \in 1 .. Len(recipe) /\ B(recipe) \in Nat
          /\ NextSlowest \in Nat /\ NextSlowest <= B(recipe)
      BY <1>6, Waits DEF LoginStep, TypeOK, NextSlowest
    <3>2. elapsed' \in Nat /\ elapsed \in Nat /\ elapsed' <= elapsed + B(recipe)
      BY <1>6, <3>1 DEF LoginStep, Spend, TypeOK
    <3>3. elapsed <= (step - 1) * B(recipe)
      BY <1>6, <3>1 DEF LoginStep, Timed
    <3>4. step - 1 \in Nat /\ (step - 1) + 1 = step
      BY <3>1
    <3>5. (step - 1) * B(recipe) \in Nat /\ step * B(recipe) = (step - 1) * B(recipe) + B(recipe)
      BY <3>1, <3>4, Shares
    <3> DEFINE b == B(recipe)
               m == (step - 1) * b
               k == step * b
    <3>6. elapsed' <= k
      <4>1. m \in Nat /\ k = m + b /\ elapsed <= m /\ b \in Nat /\ elapsed' <= elapsed + b
        BY <3>1, <3>2, <3>3, <3>5
      <4> HIDE DEF m, k, b
      <4> QED BY <3>2, <4>1
    <3>7. step' - 1 = step /\ step' # 0 /\ pc' = "login" /\ recipe' = recipe
      BY <1>6, <2>1, <3>1 DEF LoginStep
    <3>8. elapsed' <= (step' - 1) * B(recipe')
      BY <3>6, <3>7
    <3> QED BY <3>7, <3>8 DEF Timed, B, worstWait
  <2> QED BY <1>3, <1>6, <2>1 DEF LoginStep
<1>7. CASE NoLogin \/ Landing \/ Begin
  BY <1>1, <1>3, <1>7 DEF NoLogin, Landing, Begin
<1>8. CASE Take \/ Capture \/ CaptureFails \/ Follow \/ PageDone \/ LoopEnds \/ Favicon
  BY <1>1, <1>8 DEF Take, Capture, NextViewport, CaptureFails, Follow, PageDone, LoopEnds, Favicon
<1>9. CASE CheckEnd \/ Screenshot \/ Watchdog
  BY <1>1, <1>9 DEF CheckEnd, Screenshot, Watchdog, Over, Ends
<1>10. CASE Move \/ Park
  BY <1>2, <1>10 DEF Move, Park
<1>11. CASE UNCHANGED vars
  BY <1>2, <1>11 DEF vars
<1> QED BY <1>4, <1>5, <1>6, <1>7, <1>8, <1>9, <1>10, <1>11 DEF Next, Session

\* Within the ceiling, the steps of a login never add up to more than its budget.
LEMMA BudgetSuffices ==
  ASSUME TypeOK, Timed, Overrun PROVE wholeBudget(recipe) > MaxLoginBudget
<1> DEFINE b == B(recipe)
           n == Len(recipe)
<1>1. n \in Nat /\ b \in Nat /\ step \in 1 .. n + 1 /\ elapsed \in Nat
  BY Waits DEF TypeOK, Overrun
<1>2. elapsed <= (step - 1) * b
  BY <1>1 DEF Overrun, Timed
<1>3. elapsed + NextSlowest <= n * b + landingTimeout
  <2>1. CASE step <= n
    <3>1. NextSlowest \in Nat /\ NextSlowest <= b
      BY <1>1, <2>1, Waits DEF NextSlowest, TypeOK
    <3>2. step - 1 \in Nat /\ (step - 1) + 1 = step /\ step \in Nat
      BY <1>1
    <3>3. (step - 1) * b \in Nat /\ step * b = (step - 1) * b + b /\ step * b <= n * b /\ n * b \in Nat
      BY <1>1, <2>1, <3>2, Shares
    <3> DEFINE m == (step - 1) * b
               k == step * b
               w == n * b
    <3>4. m \in Nat /\ k = m + b /\ k <= w /\ w \in Nat /\ elapsed <= m
      BY <1>2, <3>3
    <3> HIDE DEF m, k, w, b
    <3>5. elapsed + NextSlowest <= w + landingTimeout
      BY <1>1, <3>1, <3>4 DEF landingTimeout
    <3> QED BY <3>5 DEF w
  <2>2. CASE step = n + 1
    <3>1. NextSlowest = landingTimeout /\ step - 1 = n
      BY <1>1, <2>2 DEF NextSlowest
    <3>2. elapsed <= n * b /\ n * b \in Nat
      BY <1>1, <1>2, <3>1, Shares
    <3> QED BY <1>1, <3>1, <3>2 DEF landingTimeout
  <2> QED BY <1>1, <2>1, <2>2
<1>4. wholeBudget(recipe) = n * b + landingTimeout + StallGrace
  BY DEF wholeBudget, B
<1>5. NextSlowest \in Nat /\ n * b \in Nat
  BY <1>1, Waits, Shares DEF NextSlowest, landingTimeout, TypeOK
<1>6. elapsed + NextSlowest > loginHardBudget(recipe)
  BY DEF Overrun
<1> DEFINE w == n * b
           s == elapsed + NextSlowest
           whole == wholeBudget(recipe)
<1>7. w \in Nat /\ s \in Nat /\ s <= w + 10 /\ whole = w + 10 + 20 /\ s > Clamped(whole)
  BY <1>1, <1>3, <1>4, <1>5, <1>6 DEF landingTimeout, StallGrace, loginHardBudget
<1> HIDE DEF w, s, whole
<1>8. whole > MaxLoginBudget
  BY <1>7 DEF Clamped, MaxLoginBudget
<1> QED BY <1>8 DEF whole

LEMMA Patience ==
  TypeOK /\ Placed /\ Timed /\ [Next]_vars =>
    [pc = "login" /\ outcome'.end = "stalled" /\ ~parked => wholeBudget(recipe) > MaxLoginBudget]_vars
<1> SUFFICES ASSUME TypeOK, Placed, Timed, [Next]_vars, pc = "login", outcome'.end = "stalled", ~parked
             PROVE  wholeBudget(recipe) > MaxLoginBudget
  BY DEF vars
<1> USE DEF login, page, crawl, item, result, At
<1>1. outcome.end # "stalled"
  BY DEF Placed, Before, Outcome
<1>2. ASSUME LoginFails PROVE FALSE
  BY <1>2 DEF LoginFails, Over, Ends, Outcome
<1>3. ~UNCHANGED outcome
  BY <1>1
<1>4. ~BringUp
  BY <1>3 DEF BringUp, NextUp
<1>5. ~NoLogin /\ ~Preflight /\ ~LoginStep /\ ~Landing
  BY <1>2, <1>3 DEF NoLogin, Preflight, LoginStep, Landing
<1>6. /\ ~Begin /\ ~Take /\ ~Capture /\ ~CaptureFails /\ ~Follow /\ ~PageDone /\ ~LoopEnds /\ ~Favicon
      /\ ~CheckEnd /\ ~Screenshot
  BY DEF Begin, Take, Capture, CaptureFails, Follow, PageDone, LoopEnds, Favicon, CheckEnd, Screenshot
<1>7. ~Move /\ ~Park /\ ~UNCHANGED vars
  BY <1>3 DEF Move, Park, vars
<1>8. Watchdog
  BY <1>4, <1>5, <1>6, <1>7 DEF Next, Session
<1> QED BY <1>8, BudgetSuffices DEF Watchdog, Overdue

LEMMA TimedStarts == Init => Timed
BY DEF Init, Timed

\* The budget of a login is never the one to run out while each step keeps to its own deadline: only a
\* recipe that asks for more than the ceiling may be cut short (loginHardBudget).
THEOREM LoginsAreGivenTime == Spec => PatientLogin
<1> QED BY Starts, TypesStep, TimedStarts, TimedStep, Patience, PTL DEF Spec, PatientLogin
=============================================================================
