-------------------------------- MODULE Crawl --------------------------------
(***************************************************************************)
(* One session of the crawl's browser: bring-up, the login recipe, and     *)
(* then either the breadth-first crawl of a run ("crawl") or the end-state *)
(* screenshot of a login test ("probe").  The page moves on its own, names *)
(* resolve to another address at every look, and any call of the browser   *)
(* may never return, for which each has a watchdog.                        *)
(*                                                                         *)
(* A URL is a record of scheme, host, path and fragment.  What a page      *)
(* shows is chosen when it is captured; images and audits are left out.    *)
(***************************************************************************)
EXTENDS Recipe, FiniteSets

CONSTANTS
  BaseURL,     \* where the crawl starts
  Urls,        \* the URLs that pages link to, redirect to, or move to
  LinkLists,   \* the lists of links a page may show
  Recipes,     \* the recipes a session may log in with, <<>> for none
  Answers,     \* what a name resolution may give
  MaxPages, MaxDepth, Viewports

ASSUME CrawlAssumption ==
  /\ MaxPages \in Nat \ {0} /\ MaxDepth \in Nat /\ Viewports \in Nat \ {0}
  /\ LinkLists \subseteq Seq(Urls) /\ BaseURL \in Urls
  /\ Answers \subseteq Seq(Address)

\* A recipe is validated before it is saved, and a session logs in with saved recipes only.
Step == [type : {"goto", "fill", "click", "waitFor"}, url : Urls \cup {NoUrl}, selector : STRING,
         ref : STRING, contains : STRING, timeout : Int]
ASSUME RecipeAssumption == \A r \in Recipes : r \in Seq(Step) /\ (r # <<>> => Validate(r))

Blank == [scheme |-> "about", host |-> NoHost, path |-> "blank", frag |-> ""]

canonicalURL(u) == IF u.scheme = "http" THEN [u EXCEPT !.frag = ""] ELSE NoUrl

VARIABLES
  pc, parked, mode,
  \* the login phase: the recipe, the step it is at, the seconds it has taken
  recipe, step, elapsed,
  \* the tab's document and the navigations the interceptor aborted
  tab, aborted,
  \* the crawl: the frontier, the depth each URL was found at, the pages stored
  queue, visited, pages, refused,
  \* the page being captured: its item, the viewport, the links of the first one
  cur, vp, links, favicon,
  \* the address the favicon was fetched from, and the outcome
  dialled, outcome,
  \* history: the links that were found, as pairs of URLs
  found

login  == <<recipe, step, elapsed>>
page   == <<tab, aborted>>
crawl  == <<queue, visited, pages, refused, found>>
item   == <<cur, vp, links, favicon>>
result == <<dialled, outcome>>
vars   == <<pc, parked, mode, login, page, crawl, item, result>>

Place == {"start", "probe", "intercept", "login", "next", "capture", "follow", "favicon",
          "landed", "check", "shot", "over"}
Canonical == {canonicalURL(u) : u \in Urls}
Item == [url : Canonical, depth : Nat]
NoItem == [url |-> NoUrl, depth |-> 0]
\* What the session returns: how it ended, and for a login test the verdict and the screenshot.
Outcome(end) == [end |-> end, ok |-> FALSE, shot |-> NoUrl]
Outcomes == [end : {"none", "done", "error", "login", "stalled"}, ok : BOOLEAN,
             shot : Urls \cup Canonical \cup {Blank, NoUrl}]
PageRow == [url : Canonical, vp : 1 .. Viewports]

\* Every variable has a value of its kind.
TypeOK ==
  /\ pc \in Place /\ parked \in BOOLEAN /\ mode \in {"crawl", "probe"}
  /\ recipe \in Recipes /\ step \in 0 .. Len(recipe) + 1 /\ elapsed \in Nat
  /\ tab \in Urls \cup Canonical \cup {Blank} /\ aborted \in BOOLEAN
  /\ queue \in Seq(Item) /\ DOMAIN visited \subseteq Canonical
  /\ \A u \in DOMAIN visited : visited[u] \in 0 .. MaxDepth
  /\ pages \in Seq(PageRow) /\ refused \subseteq Canonical
  /\ cur \in Item \cup {NoItem} /\ vp \in 0 .. Viewports /\ links \in Seq(Urls)
  /\ favicon \in Urls \cup {NoUrl} /\ dialled \in Address \cup {"none"}
  /\ outcome \in Outcomes
  /\ found \subseteq Canonical \X Urls

Init ==
  /\ pc = "start" /\ parked = FALSE /\ mode \in {"crawl", "probe"}
  /\ recipe \in Recipes /\ (mode = "probe" => recipe # <<>>) /\ step = 0 /\ elapsed = 0
  /\ tab = Blank /\ aborted = FALSE
  /\ queue = <<>> /\ visited = [u \in {} |-> 0] /\ pages = <<>> /\ refused = {} /\ found = {}
  /\ cur = NoItem /\ vp = 0 /\ links = <<>> /\ favicon = NoUrl
  /\ dialled = "none" /\ outcome = Outcome("none")

-----------------------------------------------------------------------------
(* Bring-up.                                                               *)

At(p) == pc = p /\ ~parked
Ends(o) == pc' = "over" /\ parked' = FALSE /\ outcome' = o /\ UNCHANGED dialled
Over(end) == Ends(Outcome(end))
NextUp == [start |-> "probe", probe |-> "intercept", intercept |-> "login"]

BringUp ==
  /\ pc \in DOMAIN NextUp /\ ~parked
  /\ \/ pc' = NextUp[pc] /\ UNCHANGED <<parked, result>>
     \/ Over("error")
  /\ UNCHANGED <<mode, login, page, crawl, item>>

-----------------------------------------------------------------------------
(* The login phase, in seconds.                                            *)

stepTimeout == 20
landingTimeout == 10
StallGrace == 20
MaxLoginBudget == 300

\* How long one step may take within its own deadline.
Slowest(s) == IF s.type = "waitFor" THEN waitTimeout(s.timeout) ELSE stepTimeout

worstWait(r) ==
  LET waits == {waitTimeout(r[i].timeout) : i \in {j \in DOMAIN r : r[j].type = "waitFor"}} \cup {0}
  IN  CHOOSE w \in waits : \A v \in waits : v <= w
wholeBudget(r) == Len(r) * (stepTimeout + worstWait(r)) + landingTimeout + StallGrace
Clamped(n)      == IF n > MaxLoginBudget THEN MaxLoginBudget ELSE n
budgetPerStep(r)  == stepTimeout + worstWait(r) + landingTimeout + StallGrace  \* mutant: of one step
loginHardBudget(r) == Clamped(wholeBudget(r))

\* No recipe, no login phase.
NoLogin ==
  /\ At("login") /\ recipe = <<>>
  /\ pc' = "landed"
  /\ UNCHANGED <<parked, mode, login, page, crawl, item, result>>

\* A login that fails ends a crawl; a login test goes on to its end state.
LoginFails ==
  /\ IF mode = "crawl" THEN Over("login")
     ELSE pc' = "check" /\ outcome' = Outcome("login") /\ UNCHANGED <<parked, dialled>>
  /\ UNCHANGED <<mode, recipe, page, crawl, item>>

\* Every address of the recipe is checked before the first is opened.
Preflight ==
  /\ At("login") /\ recipe # <<>> /\ step = 0
  /\ \E answer \in [GotoURLs(recipe) -> Answers] :
       IF \A u \in GotoURLs(recipe) : CheckURL(u, answer[u])
         THEN step' = 1 /\ UNCHANGED <<pc, parked, mode, recipe, elapsed, page, crawl, item, result>>
         ELSE LoginFails /\ UNCHANGED <<step, elapsed>>

NextSlowest == IF step <= Len(recipe) THEN Slowest(recipe[step]) ELSE landingTimeout
Spend ==
  \E d \in {0, NextSlowest} :
    elapsed' = elapsed + d /\ elapsed' <= loginHardBudget(recipe)

\* A step leads to a document the interceptor let through, or to none.
LoginStep ==
  /\ At("login") /\ step \in 1 .. Len(recipe)
  /\ Spend
  /\ \/ /\ step' = step + 1
        /\ IF recipe[step].type = "goto"
             THEN \E answer \in Answers : checkNav(recipe[step].url, answer) /\ tab' = recipe[step].url
             ELSE tab' = tab
        /\ UNCHANGED <<pc, parked, mode, recipe, aborted, crawl, item, result>>
     \/ LoginFails /\ UNCHANGED step

\* The landing page must be of the site; one that cannot be read passes.
Landing ==
  /\ At("login") /\ recipe # <<>> /\ step = Len(recipe) + 1
  /\ \/ pc' = "landed" /\ UNCHANGED <<parked, mode, login, page, crawl, item, result>>
     \/ ~hostAllowedIn(tab) /\ LoginFails /\ UNCHANGED <<step, elapsed>>

\* The login has succeeded, or there was none: what the session was for begins.
Begin ==
  /\ At("landed")
  /\ IF mode = "probe"
       THEN /\ pc' = "check" /\ outcome' = [outcome EXCEPT !.ok = TRUE]
            /\ UNCHANGED <<queue, visited, step, elapsed>>
       ELSE /\ pc' = "next" /\ step' = 0 /\ elapsed' = 0 /\ UNCHANGED outcome
            /\ LET start == canonicalURL(BaseURL) IN
                 /\ queue' = <<[url |-> start, depth |-> 0]>>
                 /\ visited' = [u \in {start} |-> 0]
  /\ UNCHANGED <<parked, mode, recipe, page, pages, refused, found, item, dialled>>

-----------------------------------------------------------------------------
(* The crawl.                                                              *)

countCrawled == Cardinality({pages[i].url : i \in DOMAIN pages})
Crawling == queue # <<>> /\ countCrawled < MaxPages

Take ==
  /\ At("next") /\ Crawling
  /\ queue' = Tail(queue)
  /\ \E answer \in Answers :
       IF CheckURL(Head(queue).url, answer)
         THEN pc' = "capture" /\ cur' = Head(queue) /\ vp' = 1 /\ UNCHANGED refused
         ELSE refused' = refused \cup {Head(queue).url} /\ UNCHANGED <<pc, cur, vp>>
  /\ UNCHANGED <<parked, mode, login, page, visited, pages, found, links, favicon, result>>

\* The next viewport, or the links once every viewport had its turn.
NextViewport ==
  IF vp < Viewports THEN vp' = vp + 1 /\ UNCHANGED pc
  ELSE vp' = 0 /\ pc' = "follow"

\* capturePage: the document that is shown in the end passed the interceptor.  Only the first
\* viewport reads the links, and the icon of the start page.
Capture ==
  /\ At("capture") /\ NextViewport
  /\ \E u \in {cur.url} \cup Urls, answer \in Answers : checkNav(u, answer) /\ tab' = u
  /\ pages' = Append(pages, [url |-> cur.url, vp |-> vp])
  /\ IF vp = 1
       THEN \E ls \in LinkLists, icon \in {NoUrl} \cup Urls :
              /\ links' = ls
              /\ found' = found \cup {<<cur.url, ls[i]>> : i \in DOMAIN ls}
              /\ IF cur.url = canonicalURL(BaseURL) /\ favicon = NoUrl
                   THEN favicon' = icon ELSE icon = NoUrl /\ UNCHANGED favicon
       ELSE UNCHANGED <<links, found, favicon>>
  /\ UNCHANGED <<parked, mode, login, aborted, queue, visited, refused, cur, result>>

\* An error, a timeout or an aborted navigation: the next viewport is tried all the same.
CaptureFails ==
  /\ At("capture") /\ NextViewport
  /\ UNCHANGED <<parked, mode, login, page, crawl, cur, links, favicon, result>>

Wanted(u) == u # NoUrl /\ u \notin DOMAIN visited /\ hostAllowedIn(u)
Unmarked(u) == visited  \* mutant: a URL is not marked when it is queued
Marked(u)   == [v \in DOMAIN visited \cup {u} |-> IF v = u THEN cur.depth + 1 ELSE visited[v]]

DeeperStill == cur.depth <= MaxDepth  \* mutant
Deeper      == cur.depth < MaxDepth

\* One link of the page, in the order it shows them.
Follow ==
  /\ At("follow") /\ links # <<>> /\ Deeper
  /\ links' = Tail(links)
  /\ LET u == canonicalURL(Head(links)) IN
       IF Wanted(u)
         THEN visited' = Marked(u) /\ queue' = Append(queue, [url |-> u, depth |-> cur.depth + 1])
         ELSE UNCHANGED <<visited, queue>>
  /\ UNCHANGED <<pc, parked, mode, login, page, pages, refused, found, cur, vp, favicon, result>>

PageDone ==
  /\ At("follow") /\ (links = <<>> \/ ~Deeper)
  /\ pc' = "next" /\ cur' = NoItem /\ links' = <<>>
  /\ UNCHANGED <<parked, mode, login, page, crawl, vp, favicon, result>>

LoopEnds ==
  /\ At("next") /\ ~Crawling
  /\ pc' = "favicon"
  /\ UNCHANGED <<parked, mode, login, page, crawl, item, result>>

FaviconURLFor ==
  IF favicon # NoUrl THEN favicon ELSE [canonicalURL(BaseURL) EXCEPT !.path = "/favicon.ico"]

\* FetchFavicon checks the URL and then resolves its host again to pin the connection; whatever
\* fails, the crawl is done.
Favicon ==
  /\ At("favicon")
  /\ \E checked, pinned \in Answers :
       LET u == FaviconURLFor IN
       dialled' = IF CheckURL(u, checked) THEN pinnedIP(u.host, pinned) ELSE "none"
  /\ pc' = "over" /\ outcome' = Outcome("done")
  /\ UNCHANGED <<parked, mode, login, page, crawl, item>>

-----------------------------------------------------------------------------
(* The end state of a login test.                                          *)

\* An aborted navigation or a page off the site withholds the screenshot.  The URL may not be read.
CheckEnd ==
  /\ At("check")
  /\ \E end \in {tab, NoUrl} :
       IF ~aborted /\ hostAllowedIn(end)
         THEN pc' = "shot" /\ UNCHANGED parked
              /\ UNCHANGED result
         ELSE Over("done")
  /\ UNCHANGED <<mode, login, page, crawl, item>>

Shotless == IF outcome.ok THEN "error" ELSE "done"

\* The screenshot is of what the tab shows by now; without it a good login is an error.
Screenshot ==
  /\ At("shot")
  /\ \/ Ends([outcome EXCEPT !.end = "done", !.shot = tab])
     \/ Over(Shotless)
  /\ UNCHANGED <<mode, login, page, crawl, item>>

-----------------------------------------------------------------------------
(* The page, the interceptor and the watchdogs.                            *)

Live == pc \in {"login", "landed", "check", "shot"} /\ step > 0

\* The page, or a frame of it, goes elsewhere: the interceptor lets it or records an abort.
Move ==
  /\ Live
  /\ \E u \in Urls \cup {Blank}, answer \in Answers :
       IF checkNav(u, answer) THEN tab' \in {u, tab} /\ UNCHANGED aborted
       ELSE aborted' = TRUE /\ UNCHANGED tab
  /\ UNCHANGED <<pc, parked, mode, login, crawl, item, result>>

InBrowser == pc \in {"start", "probe", "intercept", "capture", "check", "shot"}
             \/ (pc = "login" /\ step > 0)
Park ==
  /\ ~parked /\ InBrowser
  /\ parked' = TRUE
  /\ UNCHANGED <<pc, mode, login, page, crawl, item, result>>

\* A login may outlast its budget step by step, with no call parked.
Overrun == /\ pc = "login" /\ step > 0
           /\ elapsed + NextSlowest > loginHardBudget(recipe)

\* The watchdog kills the browser.  The render probe's error does not say stalled; the stall of
\* reading the end URL is ignored, and its empty answer withholds the screenshot.
Killed == CASE pc = "probe" -> "error"
            [] pc = "check" -> "done"
            [] pc = "shot"  -> Shotless
            [] OTHER        -> "stalled"
Never   == FALSE  \* mutant: no watchdog fires
Overdue == parked \/ Overrun
Watchdog ==
  /\ Overdue /\ Over(Killed)
  /\ UNCHANGED <<mode, login, page, crawl, item>>

Session == \/ BringUp \/ NoLogin \/ Preflight \/ LoginStep \/ Landing \/ Begin
           \/ Take \/ Capture \/ CaptureFails \/ Follow \/ PageDone \/ LoopEnds \/ Favicon
           \/ CheckEnd \/ Screenshot
Next == Session \/ Move \/ Park \/ Watchdog

Spec == Init /\ [][Next]_vars

\* The goroutine of the session runs, and so does the watchdog's timer.
FairSpec == Spec /\ WF_vars(Session) /\ WF_vars(Watchdog)

-----------------------------------------------------------------------------
(* Properties.                                                             *)

Captures(u, v) == Cardinality({i \in DOMAIN pages : pages[i] = [url |-> u, vp |-> v]})
Followed(u) == u # cur.url

\* The frontier is searched breadth first and nothing in reach is dropped: a page within the site
\* that some captured page links to is known at most one level below it, no URL is captured twice
\* at a viewport, and no more pages are stored than the budget says.
FrontierSound ==
  /\ \A e \in found : LET u == e[1]  v == canonicalURL(e[2]) IN
       Followed(u) /\ visited[u] < MaxDepth /\ v # NoUrl /\ hostAllowedIn(v) =>
         v \in DOMAIN visited /\ visited[v] <= visited[u] + 1
  /\ \A u \in DOMAIN visited, v \in 1 .. Viewports : Captures(u, v) <= 1
  /\ countCrawled <= MaxPages

Contained(u) == ~Web(u) \/ hostAllowedIn(u)

\* Whatever the page redirects to and however names resolve from one look to the next, the session
\* shows, stores and photographs only documents of the site, and the favicon is fetched from an
\* address in policy.
SiteContained ==
  /\ Contained(tab) /\ Contained(outcome.shot)
  /\ \A i \in DOMAIN pages : hostAllowedIn(pages[i].url)
  /\ dialled # "none" => ipAllowed(FaviconURLFor.host, dialled)

\* A login whose steps each keep to their own deadlines is not taken for a dead browser, however
\* slow it is, unless its recipe asks for more than the ceiling.
PatientLogin ==
  [][pc = "login" /\ outcome'.end = "stalled" /\ ~parked => wholeBudget(recipe) > MaxLoginBudget]_vars

\* Every session ends, though any call of the browser may park for ever.
CrawlEnds == <>(pc = "over")
=============================================================================
